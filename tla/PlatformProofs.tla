--------------------------- MODULE PlatformProofs ---------------------------
(***************************************************************************)
(* The components that share no state with one another (PlatformMC), for    *)
(* every value of their constants; those that read a report are              *)
(* ReportProofs', with the facts about folds and sums used here too.        *)
(***************************************************************************)
EXTENDS Accounts, Discovery, EvidenceCache, ExperimentRun, ImportBudget, NewsCache,
        QuestionPlan, StorageMigration, SynthAnswer, ReportProofs

(* A set within its limit that grows by one element is within it again.      *)
LEMMA OneMore ==
  ASSUME NEW m \in Nat, NEW S, S \subseteq 1..m, NEW limit \in Nat, Cardinality(S) < limit,
         NEW x, NEW T, T \subseteq S \union {x}
  PROVE  Cardinality(T) <= limit
<1>0. IsFiniteSet(1..m)
    BY FS_Interval
<1>1. IsFiniteSet(S) /\ Cardinality(S) \in Nat
    BY <1>0, FS_Subset, FS_CardinalityType
<1>2. IsFiniteSet(S \union {x}) /\ Cardinality(S \union {x}) <= Cardinality(S) + 1
    <2>1. /\ IsFiniteSet(S \union {x})
          /\ Cardinality(S \union {x}) = IF x \in S THEN Cardinality(S) ELSE Cardinality(S) + 1
        BY <1>1, FS_AddElement, Zenon
    <2> QED BY <1>1, <2>1
<1>3. Cardinality(T) <= Cardinality(S \union {x}) /\ Cardinality(T) \in Nat
    BY <1>2, FS_Subset, FS_CardinalityType
<1>4. Cardinality(S \union {x}) \in Nat
    BY <1>2, FS_CardinalityType
<1> QED BY <1>1, <1>2, <1>3, <1>4

-----------------------------------------------------------------------------
(* Sign-in.  What is still being checked, and what has failed, is in the log *)
(* while its window lasts (LoggedInv), and of that the log never holds more  *)
(* than a limit: the count and the entry are one transaction (LimitsInv).    *)

AttemptRecords == [kind : {"register", "login"}, email : Emails, client : Clients,
             invite : Invites \union {NoInvite}, at : 0..MaxTime,
             end : {"checking", "hashing", "failed", "ok"}]

AccountsTypes ==
  /\ now \in 0..MaxTime
  /\ attempt \in Seq(AttemptRecords)
  /\ logged \in [Scopes -> SUBSET (1..Len(attempt))]
  /\ invite \in [Invites -> {"none", "open", "used", "revoked", "expired"}]
  /\ account \in [Emails -> Invites \union {NoInvite}]

RegistersInv ==
  /\ \A i \in 1..Len(attempt) :
       /\ attempt[i].kind = "register" => attempt[i].invite \in Invites
       /\ attempt[i].end = "hashing" => attempt[i].kind = "register"
  /\ \A e \in Emails : account[e] # NoInvite =>
       invite[account[e]] = "used" /\ EmailOf[account[e]] = e

IsLogin(i) == attempt[i].kind = "login"
InWindow(i) == attempt[i].at > now - Window
NeverIn(e) == \A i \in 1..Len(attempt) : IsLogin(i) /\ attempt[i].email = e => attempt[i].end # "ok"

LoggedInv ==
  \A i \in 1..Len(attempt) : IsLogin(i) /\ InWindow(i) =>
    /\ attempt[i].end # "ok" => i \in logged["login_ip"]
    /\ NeverIn(attempt[i].email) => i \in logged["login_account"]

OfClient(c) == {i \in logged["login_ip"] : InWindow(i) /\ attempt[i].client = c}
OfAccount(e) == {i \in logged["login_account"] : InWindow(i) /\ attempt[i].email = e}

LimitsInv ==
  /\ \A c \in Clients : Cardinality(OfClient(c)) <= ClientLimit
  /\ \A e \in Emails : Cardinality(OfAccount(e)) <= AccountLimit

AInv == AccountsTypes /\ RegistersInv /\ LoggedInv /\ LimitsInv

LEMMA AccountsInitial == AccountsInit => AInv
<1> SUFFICES ASSUME AccountsInit PROVE AInv
    OBVIOUS
<1> USE AccountsAssumption DEF AccountsInit
<1>1. AccountsTypes
    BY DEF AccountsTypes, Scopes
<1>2. RegistersInv /\ LoggedInv
    BY DEF RegistersInv, LoggedInv
<1>3. LimitsInv
    <2>1. (\A c \in Clients : OfClient(c) = {}) /\ \A e \in Emails : OfAccount(e) = {}
        BY DEF OfClient, OfAccount, Scopes
    <2>2. \A S : S = {} => Cardinality(S) = 0
        BY FS_EmptySet
    <2>3. /\ \A c \in Clients : Cardinality(OfClient(c)) = 0
          /\ \A e \in Emails : Cardinality(OfAccount(e)) = 0
        BY <2>1, <2>2
    <2> QED BY <2>3 DEF LimitsInv
<1> QED BY <1>1, <1>2, <1>3 DEF AInv

LEMMA AttemptFields ==
  ASSUME AccountsTypes, NEW i \in 1..Len(attempt)
  PROVE  /\ attempt[i] \in AttemptRecords
         /\ attempt[i].kind \in {"register", "login"} /\ attempt[i].email \in Emails
         /\ attempt[i].client \in Clients /\ attempt[i].at \in 0..MaxTime
         /\ attempt[i].end \in {"checking", "hashing", "failed", "ok"}
<1>1. attempt[i] \in AttemptRecords
    BY DEF AccountsTypes
<1> QED BY <1>1 DEF AttemptRecords

LEMMA LoggedIsFinite ==
  ASSUME AccountsTypes
  PROVE  /\ \A c : IsFiniteSet(OfClient(c)) /\ Cardinality(OfClient(c)) \in Nat
         /\ \A e : IsFiniteSet(OfAccount(e)) /\ Cardinality(OfAccount(e)) \in Nat
<1>1. IsFiniteSet(1..Len(attempt))
    BY FS_Interval DEF AccountsTypes
<1>2. /\ \A c : OfClient(c) \subseteq 1..Len(attempt)
      /\ \A e : OfAccount(e) \subseteq 1..Len(attempt)
    BY DEF AccountsTypes, OfClient, OfAccount, Scopes
<1> QED BY <1>1, <1>2, FS_Subset, FS_CardinalityType

(* Fewer entries that count are within the limits too. *)
LEMMA FewerAreLimited ==
  ASSUME AInv,
         \A c \in Clients : OfClient(c)' \subseteq OfClient(c),
         \A e \in Emails : OfAccount(e)' \subseteq OfAccount(e)
  PROVE  LimitsInv'
<1>1. \A c \in Clients : Cardinality(OfClient(c)') <= Cardinality(OfClient(c))
    BY LoggedIsFinite, FS_Subset DEF AInv
<1>2. \A e \in Emails : Cardinality(OfAccount(e)') <= Cardinality(OfAccount(e))
    BY LoggedIsFinite, FS_Subset DEF AInv
<1>3. \A c \in Clients : IsFiniteSet(OfClient(c)') /\ Cardinality(OfClient(c)') \in Nat
    BY LoggedIsFinite, FS_Subset, FS_CardinalityType DEF AInv
<1>4. \A e \in Emails : IsFiniteSet(OfAccount(e)') /\ Cardinality(OfAccount(e)') \in Nat
    BY LoggedIsFinite, FS_Subset, FS_CardinalityType DEF AInv
<1>5. /\ \A c \in Clients : Cardinality(OfClient(c)') <= ClientLimit
      /\ \A e \in Emails : Cardinality(OfAccount(e)') <= AccountLimit
    BY <1>1, <1>2, <1>3, <1>4, LoggedIsFinite, AccountsAssumption DEF AInv, LimitsInv
<1> QED BY <1>5 DEF LimitsInv

LEMMA TickKeeps == ASSUME AInv, Tick PROVE AInv'
<1> USE AccountsAssumption DEF Tick
<1>1. AccountsTypes'
    BY DEF AInv, AccountsTypes
<1>2. RegistersInv'
    BY DEF AInv, RegistersInv
<1>3. \A i \in 1..Len(attempt) : InWindow(i)' => InWindow(i)
    BY AttemptFields DEF AInv, AccountsTypes, InWindow
<1>4. LoggedInv'
    BY <1>3 DEF AInv, LoggedInv, IsLogin, NeverIn
<1>5. LimitsInv'
    BY <1>3, FewerAreLimited DEF AInv, AccountsTypes, OfClient, OfAccount, Scopes
<1> QED BY <1>1, <1>2, <1>4, <1>5 DEF AInv

(* An admitted request: what the log forgets is older than any window. *)
LEMMA AdmittedKeeps ==
  ASSUME AInv, NEW a \in AttemptRecords, NEW scopes \in SUBSET Scopes, Admit(scopes, a),
         a.at = now, a.end = "checking", a.kind = "register" => a.invite \in Invites,
         a.kind = "login" => scopes = {"login_account", "login_ip"},
         UNCHANGED <<now, invite, account>>
  PROVE  AInv'
<1> USE AccountsAssumption
<1>0. PICK n \in Nat : n = Len(attempt) + 1
    BY DEF AInv, AccountsTypes
<1>1. /\ attempt' = Append(attempt, a) /\ attempt' \in Seq(AttemptRecords)
      /\ Len(attempt') = n /\ n \in Nat /\ attempt'[n] = a
      /\ \A i \in 1..Len(attempt) : attempt'[i] = attempt[i]
      /\ 1..n = 1..Len(attempt) \union {n} /\ n \notin 1..Len(attempt)
    BY <1>0 DEF Admit, AInv, AccountsTypes
<1>2. /\ logged' \in [Scopes -> SUBSET (1..n)]
      /\ \A s \in Scopes : logged'[s] = IF s \in scopes THEN Kept[s] \union {n} ELSE Kept[s]
      /\ \A s \in Scopes : Kept[s] \subseteq logged[s]
      /\ \A s \in Scopes, i \in 1..Len(attempt) : i \in logged[s] /\ InWindow(i) => i \in Kept[s]
    <2>1. \A s \in Scopes : Kept[s] = logged[s] \intersect {i \in 1..Len(attempt) : attempt[i].at >= now - Retention}
        BY DEF Kept
    <2>2. \A s \in Scopes : Kept[s] \subseteq logged[s] /\ logged[s] \subseteq 1..Len(attempt)
        BY <2>1 DEF AInv, AccountsTypes
    <2>3. logged' = [s \in Scopes |-> IF s \in scopes THEN Kept[s] \union {n} ELSE Kept[s]]
        BY <1>1 DEF Admit
    <2>4. \A s \in Scopes, i \in 1..Len(attempt) : i \in logged[s] /\ InWindow(i) => i \in Kept[s]
        <3> SUFFICES ASSUME NEW s \in Scopes, NEW i \in 1..Len(attempt), i \in logged[s], InWindow(i)
                     PROVE  attempt[i].at >= now - Retention
            BY <2>1
        <3>1. attempt[i].at \in Nat /\ now \in Nat /\ attempt[i].at > now - Window
            BY AttemptFields DEF InWindow, AInv, AccountsTypes
        <3> QED BY <3>1
    <2> QED BY <1>1, <2>2, <2>3, <2>4
<1>3. AccountsTypes'
    BY <1>1, <1>2 DEF AInv, AccountsTypes
<1>4. RegistersInv'
    BY <1>1 DEF AInv, RegistersInv
<1>5. /\ \A i \in 1..Len(attempt) : InWindow(i)' <=> InWindow(i)
      /\ \A i \in 1..Len(attempt) : IsLogin(i)' <=> IsLogin(i)
      /\ IsLogin(n)' <=> a.kind = "login"
    BY <1>1 DEF InWindow, IsLogin
<1>6. LoggedInv'
    <2>1. ASSUME NEW i \in 1..n, IsLogin(i)', InWindow(i)'
          PROVE  /\ attempt'[i].end # "ok" => i \in logged'["login_ip"]
                 /\ (\A j \in 1..n : IsLogin(j)' /\ attempt'[j].email = attempt'[i].email
                                       => attempt'[j].end # "ok")
                      => i \in logged'["login_account"]
        <3>1. CASE i = n
            <4>1. scopes = {"login_account", "login_ip"}
                BY <1>1, <1>5, <2>1, <3>1
            <4> QED BY <1>2, <3>1, <4>1 DEF Scopes
        <3>2. CASE i \in 1..Len(attempt)
            <4>1. attempt'[i] = attempt[i] /\ IsLogin(i) /\ InWindow(i)
                BY <1>1, <1>5, <2>1, <3>2
            <4>2. (\A j \in 1..n : IsLogin(j)' /\ attempt'[j].email = attempt'[i].email
                                     => attempt'[j].end # "ok")
                    => NeverIn(attempt[i].email)
                BY <1>1, <1>5, <4>1 DEF NeverIn
            <4>3. /\ attempt[i].end # "ok" => i \in logged["login_ip"]
                  /\ NeverIn(attempt[i].email) => i \in logged["login_account"]
                BY <3>2, <4>1 DEF AInv, LoggedInv
            <4> QED BY <1>2, <3>2, <4>1, <4>2, <4>3 DEF Scopes
        <3> QED BY <1>1, <3>1, <3>2
    <2> QED BY <1>1, <2>1 DEF LoggedInv, NeverIn
<1>7. \A s \in Scopes : s \notin scopes => logged'[s] \subseteq logged[s] /\ n \notin logged'[s]
    BY <1>1, <1>2 DEF AInv, AccountsTypes
<1>8. ASSUME NEW c \in Clients
      PROVE  Cardinality(OfClient(c)') <= ClientLimit
    <2> DEFINE S == {i \in Kept["login_ip"] \intersect Recent(now - Window) :
                       InScope("login_ip", i, a.email, a.client)}
    <2>1. CASE "login_ip" \in scopes /\ c = a.client
        <3>1. Cardinality(S) < ClientLimit
            BY <2>1 DEF Admit, Count, LimitOf
        <3>2. S \subseteq 1..Len(attempt)
            BY DEF Recent
        <3>3. OfClient(c)' \subseteq S \union {n}
            BY <1>1, <1>2, <1>5, <2>1
               DEF OfClient, Scopes, Recent, InScope, InWindow, AInv, AccountsTypes
        <3> HIDE DEF S
        <3> QED BY <1>1, <3>1, <3>2, <3>3, OneMore
    <2>2. CASE "login_ip" \notin scopes \/ c # a.client
        <3>1. OfClient(c)' \subseteq OfClient(c)
            BY <1>1, <1>2, <1>5, <1>7, <2>2 DEF OfClient, Scopes, AInv, AccountsTypes
        <3> QED BY <3>1, LoggedIsFinite, FS_Subset, FS_CardinalityType DEF AInv, LimitsInv
    <2> QED BY <2>1, <2>2
<1>9. ASSUME NEW e \in Emails
      PROVE  Cardinality(OfAccount(e)') <= AccountLimit
    <2> DEFINE S == {i \in Kept["login_account"] \intersect Recent(now - Window) :
                       InScope("login_account", i, a.email, a.client)}
    <2>1. CASE "login_account" \in scopes /\ e = a.email
        <3>1. Cardinality(S) < AccountLimit
            BY <2>1 DEF Admit, Count, LimitOf
        <3>2. S \subseteq 1..Len(attempt)
            BY DEF Recent
        <3>3. OfAccount(e)' \subseteq S \union {n}
            BY <1>1, <1>2, <1>5, <2>1
               DEF OfAccount, Scopes, Recent, InScope, InWindow, AInv, AccountsTypes
        <3> HIDE DEF S
        <3> QED BY <1>1, <3>1, <3>2, <3>3, OneMore
    <2>2. CASE "login_account" \notin scopes \/ e # a.email
        <3>1. OfAccount(e)' \subseteq OfAccount(e)
            BY <1>1, <1>2, <1>5, <1>7, <2>2 DEF OfAccount, Scopes, AInv, AccountsTypes
        <3> QED BY <3>1, LoggedIsFinite, FS_Subset, FS_CardinalityType DEF AInv, LimitsInv
    <2> QED BY <2>1, <2>2
<1> QED BY <1>3, <1>4, <1>6, <1>8, <1>9 DEF AInv, LimitsInv

(* An attempt ends: what fails stays in the log, a success is taken out.     *)
LEMMA EndedKeeps ==
  ASSUME AInv, NEW i \in 1..Len(attempt), NEW how \in {"hashing", "failed", "ok"}, End(i, how),
         attempt[i].end # "ok", how = "hashing" => ~IsLogin(i),
         UNCHANGED now,
         IF how = "ok" /\ IsLogin(i) THEN logged' = Forgiven(i) ELSE UNCHANGED logged,
         invite' \in [Invites -> {"none", "open", "used", "revoked", "expired"}],
         account' \in [Emails -> Invites \union {NoInvite}],
         \A e \in Emails : account'[e] # NoInvite =>
           invite'[account'[e]] = "used" /\ EmailOf[account'[e]] = e
  PROVE  AInv'
<1> USE AccountsAssumption
<1>1. /\ Len(attempt') = Len(attempt) /\ attempt' \in Seq(AttemptRecords)
      /\ \A j \in 1..Len(attempt) : j # i => attempt'[j] = attempt[j]
      /\ attempt'[i] = [attempt[i] EXCEPT !.end = how] /\ attempt[i] \in AttemptRecords
      /\ \A j \in 1..Len(attempt) : attempt[j] \in AttemptRecords
    <2>1. attempt \in Seq(AttemptRecords) /\ attempt[i] \in AttemptRecords
        BY AttemptFields DEF AInv, AccountsTypes
    <2>2. [attempt[i] EXCEPT !.end = how] \in AttemptRecords
        BY <2>1 DEF AttemptRecords
    <2>3. attempt' = [attempt EXCEPT ![i] = [attempt[i] EXCEPT !.end = how]]
        BY DEF End
    <2> QED BY <2>1, <2>2, <2>3
<1>2. /\ attempt'[i].end = how /\ attempt'[i].kind = attempt[i].kind /\ attempt'[i].at = attempt[i].at
      /\ attempt'[i].email = attempt[i].email /\ attempt'[i].client = attempt[i].client
      /\ attempt'[i].invite = attempt[i].invite
    BY <1>1 DEF AttemptRecords
<1>3. \A s \in Scopes : logged'[s] \subseteq logged[s]
    BY DEF Forgiven, AInv, AccountsTypes, Scopes
<1>4. AccountsTypes'
    <2>1. logged' \in [Scopes -> SUBSET (1..Len(attempt))]
        BY DEF Forgiven, AInv, AccountsTypes, Scopes
    <2> QED BY <1>1, <2>1 DEF AInv, AccountsTypes
<1>5. RegistersInv'
    <2>1. attempt[i].kind \in {"register", "login"}
        BY AttemptFields DEF AInv
    <2>2. ASSUME NEW j \in 1..Len(attempt)
          PROVE  /\ attempt'[j].kind = "register" => attempt'[j].invite \in Invites
                 /\ attempt'[j].end = "hashing" => attempt'[j].kind = "register"
        <3>1. CASE j = i
            BY <1>2, <2>1, <3>1 DEF AInv, RegistersInv, IsLogin
        <3>2. CASE j # i
            BY <1>1, <3>2 DEF AInv, RegistersInv
        <3> QED BY <3>1, <3>2
    <2> QED BY <1>1, <2>2 DEF RegistersInv
<1>6. \A j \in 1..Len(attempt) :
        /\ InWindow(j)' <=> InWindow(j)
        /\ IsLogin(j)' <=> IsLogin(j)
        /\ attempt'[j].email = attempt[j].email /\ attempt'[j].client = attempt[j].client
        /\ attempt'[j].end # "ok" => attempt[j].end # "ok"
    BY <1>1, <1>2 DEF InWindow, IsLogin
<1>7. ASSUME NEW e \in Emails,
             \A j \in 1..Len(attempt) : IsLogin(j) /\ attempt[j].email = e => attempt'[j].end # "ok"
      PROVE  NeverIn(e) /\ (how = "ok" /\ IsLogin(i) => e # attempt[i].email)
    BY <1>2, <1>6, <1>7 DEF NeverIn
<1>8. LoggedInv'
    <2>1. ASSUME NEW j \in 1..Len(attempt), IsLogin(j), InWindow(j)
          PROVE  /\ attempt'[j].end # "ok" => j \in logged'["login_ip"]
                 /\ (\A k \in 1..Len(attempt) : IsLogin(k) /\ attempt[k].email = attempt[j].email
                                                  => attempt'[k].end # "ok")
                      => j \in logged'["login_account"]
        <3>1. attempt[j].email \in Emails
            BY AttemptFields DEF AInv
        <3>2. /\ attempt[j].end # "ok" => j \in logged["login_ip"]
              /\ NeverIn(attempt[j].email) => j \in logged["login_account"]
            BY <2>1 DEF AInv, LoggedInv
        <3>3. CASE how = "ok" /\ IsLogin(i)
            <4>1. /\ logged'["login_ip"] = logged["login_ip"] \ {i}
                  /\ logged'["login_account"] =
                       {k \in logged["login_account"] : attempt[k].email # attempt[i].email}
                BY <3>3 DEF Forgiven, AInv, AccountsTypes, Scopes
            <4>2. attempt'[j].end # "ok" => j # i
                BY <1>2, <3>3
            <4> QED BY <1>6, <1>7, <3>1, <3>2, <3>3, <4>1, <4>2
        <3>4. CASE ~(how = "ok" /\ IsLogin(i))
            <4>1. logged' = logged
                BY <3>4
            <4> QED BY <1>6, <1>7, <3>1, <3>2, <4>1
        <3> QED BY <3>3, <3>4
    <2>2. ASSUME NEW j \in 1..Len(attempt), IsLogin(j)', InWindow(j)'
          PROVE  /\ attempt'[j].end # "ok" => j \in logged'["login_ip"]
                 /\ (\A k \in 1..Len(attempt) : IsLogin(k)' /\ attempt'[k].email = attempt'[j].email
                                                  => attempt'[k].end # "ok")
                      => j \in logged'["login_account"]
        BY <1>6, <2>1, <2>2
    <2> QED BY <1>1, <2>2 DEF LoggedInv, NeverIn
<1>9. LimitsInv'
    <2>1. \A c \in Clients : OfClient(c)' \subseteq OfClient(c)
        BY <1>1, <1>3, <1>6 DEF OfClient, Scopes, AInv, AccountsTypes
    <2>2. \A e \in Emails : OfAccount(e)' \subseteq OfAccount(e)
        BY <1>1, <1>3, <1>6 DEF OfAccount, Scopes, AInv, AccountsTypes
    <2> QED BY <2>1, <2>2, FewerAreLimited
<1> QED BY <1>4, <1>5, <1>8, <1>9 DEF AInv

LEMMA RegisterKeeps ==
  ASSUME AInv, NEW email \in Emails, NEW client \in Clients, NEW i \in Invites,
         Register(email, client, i)
  PROVE  AInv'
<1> DEFINE a == [kind |-> "register", email |-> email, client |-> client, invite |-> i,
                 at |-> now, end |-> "checking"]
<1>1. a \in AttemptRecords /\ {"register_ip"} \in SUBSET Scopes
    BY DEF AttemptRecords, AInv, AccountsTypes, Scopes
<1>2. /\ Admit({"register_ip"}, a) /\ UNCHANGED <<now, invite, account>>
      /\ a.kind = "register" /\ a.at = now /\ a.end = "checking" /\ a.invite \in Invites
    BY DEF Register
<1> HIDE DEF a
<1> QED BY <1>1, <1>2, AdmittedKeeps

LEMMA LoginKeeps ==
  ASSUME AInv, NEW email \in Emails, NEW client \in Clients, Login(email, client)
  PROVE  AInv'
<1> DEFINE a == [kind |-> "login", email |-> email, client |-> client, invite |-> NoInvite,
                 at |-> now, end |-> "checking"]
<1>1. a \in AttemptRecords /\ {"login_account", "login_ip"} \in SUBSET Scopes
    BY DEF AttemptRecords, AInv, AccountsTypes, Scopes
<1>2. /\ Admit({"login_account", "login_ip"}, a) /\ UNCHANGED <<now, invite, account>>
      /\ a.kind = "login" /\ a.at = now /\ a.end = "checking"
    BY DEF Login
<1> HIDE DEF a
<1> QED BY <1>1, <1>2, AdmittedKeeps

LEMMA CreateUserKeeps ==
  ASSUME AInv, NEW i \in 1..Len(attempt), CreateUser(i)
  PROVE  AInv'
<1>1. /\ attempt[i].end = "hashing" /\ ~IsLogin(i) /\ attempt[i].invite \in Invites
      /\ attempt[i].email \in Emails
    BY AttemptFields DEF CreateUser, AInv, RegistersInv, IsLogin
<1>2. CASE MayCreate(attempt[i])
    <2>1. /\ invite[attempt[i].invite] = "open" /\ EmailOf[attempt[i].invite] = attempt[i].email
          /\ account[attempt[i].email] = NoInvite
        BY <1>2 DEF MayCreate, Usable
    <2>2. /\ account' = [account EXCEPT ![attempt[i].email] = attempt[i].invite]
          /\ invite' = [invite EXCEPT ![attempt[i].invite] = "used"]
          /\ End(i, "ok") /\ UNCHANGED <<now, logged>>
        BY <1>2, <2>1 DEF CreateUser, CanUse
    <2>3. /\ invite' \in [Invites -> {"none", "open", "used", "revoked", "expired"}]
          /\ account' \in [Emails -> Invites \union {NoInvite}]
        BY <1>1, <2>2 DEF AInv, AccountsTypes
    <2>4. \A e \in Emails : account'[e] # NoInvite =>
            invite'[account'[e]] = "used" /\ EmailOf[account'[e]] = e
        BY <1>1, <2>1, <2>2 DEF AInv, AccountsTypes, RegistersInv
    <2> QED BY <1>1, <2>2, <2>3, <2>4, EndedKeeps
<1>3. CASE ~(MayCreate(attempt[i]) /\ CanUse(attempt[i].invite))
    <2>1. End(i, "failed") /\ UNCHANGED <<now, logged, invite, account>>
        BY <1>3 DEF CreateUser
    <2> QED BY <1>1, <2>1, EndedKeeps DEF AInv, AccountsTypes, RegistersInv
<1> QED BY <1>2, <1>3

LEMMA AttemptsKeep ==
  ASSUME AInv, NEW i \in 1..Len(attempt), CheckInvite(i) \/ WrongPassword(i) \/ RightPassword(i)
  PROVE  AInv'
<1>1. PICK how \in {"hashing", "failed", "ok"} :
        /\ End(i, how) /\ attempt[i].end = "checking" /\ (how = "hashing" => ~IsLogin(i))
        /\ how = "ok" => IsLogin(i)
        /\ IF how = "ok" THEN logged' = Forgiven(i) ELSE UNCHANGED logged
        /\ UNCHANGED <<now, invite, account>>
    BY DEF CheckInvite, WrongPassword, RightPassword, IsLogin
<1> QED BY <1>1, EndedKeeps DEF AInv, AccountsTypes, RegistersInv

LEMMA InvitesKeep ==
  ASSUME AInv, NEW i \in Invites, CreateInvite(i) \/ RevokeInvite(i) \/ Expire(i)
  PROVE  AInv'
<1>1. PICK state \in {"open", "revoked", "expired"} : invite' = [invite EXCEPT ![i] = state]
    BY DEF CreateInvite, RevokeInvite, Expire
<1>2. invite[i] # "used" /\ UNCHANGED <<now, attempt, logged, account>>
    BY DEF CreateInvite, RevokeInvite, Expire
<1>3. AccountsTypes' /\ RegistersInv'
    BY <1>1, <1>2 DEF AInv, AccountsTypes, RegistersInv
<1>4. LoggedInv' /\ LimitsInv'
    BY <1>2 DEF AInv, LoggedInv, LimitsInv, OfClient, OfAccount, InWindow, IsLogin, NeverIn
<1> QED BY <1>3, <1>4 DEF AInv

LEMMA AccountsStep == AInv /\ [AccountsNext]_accountVars => AInv'
<1> SUFFICES ASSUME AInv, [AccountsNext]_accountVars PROVE AInv'
    OBVIOUS
<1>1. CASE UNCHANGED accountVars
    BY <1>1 DEF accountVars, AInv, AccountsTypes, RegistersInv, LoggedInv, LimitsInv,
                OfClient, OfAccount, InWindow, IsLogin, NeverIn
<1>2. CASE AccountsNext
    BY <1>2, TickKeeps, RegisterKeeps, LoginKeeps, CreateUserKeeps, AttemptsKeep, InvitesKeep
       DEF AccountsNext
<1> QED BY <1>1, <1>2

(* An account stands for one invite that was open for its address when it    *)
(* was made, is used by no other account, and was never revoked, although    *)
(* hashing lies between the look-up and the transaction (api/app.py).        *)
THEOREM InvitesAreUsedOnce == AccountsSpec => []AccountHasItsInvite
<1>1. AInv => AccountHasItsInvite
    BY AccountsAssumption DEF AInv, AccountsTypes, RegistersInv, AccountHasItsInvite
<1> QED BY <1>1, AccountsInitial, AccountsStep, PTL DEF AccountsSpec

(* In no window does one client fail more sign-ins than its limit, nor an    *)
(* account without a success more than its own, however many requests hash   *)
(* in parallel and whatever successes they mix in (api/throttle.py).         *)
THEOREM SignInsAreLimited == AccountsSpec => []FailuresAreLimited
<1>1. AInv => FailuresAreLimited
    <2> SUFFICES ASSUME AInv PROVE FailuresAreLimited
        OBVIOUS
    <2> DEFINE Failed(S) == {i \in S \intersect Recent(now - Window) :
                               attempt[i].kind = "login" /\ attempt[i].end = "failed"}
    <2>1. ASSUME NEW c \in Clients
          PROVE  FailedSignIns({i \in 1..Len(attempt) : attempt[i].client = c}) <= ClientLimit
        <3> DEFINE S == {i \in 1..Len(attempt) : attempt[i].client = c}
        <3>1. Failed(S) \subseteq OfClient(c)
            BY DEF AInv, LoggedInv, OfClient, Recent, InWindow, IsLogin
        <3>2. Cardinality(Failed(S)) <= Cardinality(OfClient(c)) /\ Cardinality(Failed(S)) \in Nat
            BY <3>1, LoggedIsFinite, FS_Subset, FS_CardinalityType DEF AInv
        <3> QED BY <3>2, LoggedIsFinite, AccountsAssumption DEF AInv, LimitsInv, FailedSignIns
    <2>2. ASSUME NEW e \in Emails, NeverIn(e)
          PROVE  FailedSignIns({i \in 1..Len(attempt) : attempt[i].email = e}) <= AccountLimit
        <3> DEFINE S == {i \in 1..Len(attempt) : attempt[i].email = e}
        <3>1. Failed(S) \subseteq OfAccount(e)
            BY <2>2 DEF AInv, LoggedInv, OfAccount, Recent, InWindow, IsLogin
        <3>2. Cardinality(Failed(S)) <= Cardinality(OfAccount(e)) /\ Cardinality(Failed(S)) \in Nat
            BY <3>1, LoggedIsFinite, FS_Subset, FS_CardinalityType DEF AInv
        <3> QED BY <3>2, LoggedIsFinite, AccountsAssumption DEF AInv, LimitsInv, FailedSignIns
    <2> QED BY <2>1, <2>2 DEF FailuresAreLimited, NeverIn, IsLogin
<1> QED BY <1>1, AccountsInitial, AccountsStep, PTL DEF AccountsSpec

-----------------------------------------------------------------------------
(* Searches for reports.  A result card and the reply of its key are stored  *)
(* and deleted together, so each names the other (CardsInv); what an earlier *)
(* answer said is what the key still says, or its conversation is gone, and  *)
(* a conversation does not come back (AnswersInv).                           *)

AskerRecords ==
  [at : {"none", "lock", "create", "search", "store", "answered", "busy", "refused", "failed"},
   key : RequestKeys \union {NoneOf}, into : Conversations \union {NoneOf}, named : BOOLEAN,
   search : 0..SearchBound]

DiscoveryTypes ==
  /\ asker \in [Searchers -> AskerRecords]
  /\ holder \in Searchers \union {NoneOf}
  /\ created \subseteq Conversations /\ deleted \subseteq created
  /\ replies \in [RequestKeys ->
                    [search : 0..SearchBound, into : Conversations \union {NoneOf}]]
  /\ shown \subseteq [search : 1..SearchBound, into : Conversations]
  /\ searches \in Seq(RequestKeys \union {NoneOf}) /\ Len(searches) <= SearchBound

(* A searcher with a card to store has made a search of its own for its key, *)
(* and the card of one that failed is never stored.                          *)
AskerOK(q) ==
  /\ asker[q].at # "none" => (q \in Requests <=> asker[q].key # NoneOf)
  /\ asker[q].into \in created \union {NoneOf}
  /\ asker[q].search \in 0..Len(searches)
  /\ asker[q].at \in {"none", "lock", "create", "search"} => asker[q].search = 0
  /\ asker[q].at = "store" => asker[q].search # 0 /\ searches[asker[q].search] = asker[q].key
  /\ asker[q].at \in {"store", "failed"} => \A m \in shown : m.search # asker[q].search
Apart(p, q) ==
  asker[p].at = "store" /\ asker[q].at \in {"store", "failed"} => asker[p].search # asker[q].search
AskersInv ==
  /\ \A q \in Searchers : AskerOK(q)
  /\ \A p, q \in Searchers : p # q => Apart(p, q)

CardsInv ==
  /\ \A m \in shown :
       /\ m.search \in 1..Len(searches) /\ m.into \in Existing
       /\ searches[m.search] # NoneOf => replies[searches[m.search]] = m
  /\ \A k \in RequestKeys : replies[k] # NotStored =>
       replies[k] \in shown /\ searches[replies[k].search] = k

AnswersInv ==
  \A q \in Requests :
    asker[q].at = "answered" /\ asker[q].into \in Existing =>
      /\ replies[asker[q].key].search = asker[q].search
      /\ replies[asker[q].key].into = asker[q].into

DInv == DiscoveryTypes /\ AskersInv /\ CardsInv /\ AnswersInv

(* A searcher's record, made by its handlers field by field. *)
LEMMA AskerMovedOn ==
  ASSUME NEW a \in AskerRecords,
         NEW where \in {"none", "lock", "create", "search", "store", "answered", "busy", "refused",
                     "failed"}
  PROVE  [a EXCEPT !.at = where] \in AskerRecords
BY DEF AskerRecords

LEMMA AskerInto ==
  ASSUME NEW a \in AskerRecords, NEW c \in Conversations
  PROVE  [a EXCEPT !.at = "search", !.into = c] \in AskerRecords
BY DEF AskerRecords

LEMMA AskerSearched ==
  ASSUME NEW a \in AskerRecords, NEW n \in 0..SearchBound
  PROVE  [a EXCEPT !.at = "store", !.search = n] \in AskerRecords
BY DiscoveryAssumption DEF AskerRecords

LEMMA FreshAsker == Fresh \in AskerRecords
BY DiscoveryAssumption DEF AskerRecords, Fresh

LEMMA AskerReceived ==
  ASSUME NEW a \in AskerRecords, NEW k \in RequestKeys \union {NoneOf},
         NEW c \in Conversations \union {NoneOf}, NEW where \in {"lock", "answered", "refused"},
         NEW named \in BOOLEAN, NEW n \in 0..SearchBound
  PROVE  /\ [a EXCEPT !.at = where, !.key = k, !.into = c, !.search = n] \in AskerRecords
         /\ [a EXCEPT !.at = where, !.key = k, !.into = c, !.named = named] \in AskerRecords
         /\ [a EXCEPT !.at = where, !.key = k] \in AskerRecords
         /\ [a EXCEPT !.at = where, !.into = c, !.named = named] \in AskerRecords
<1> USE DiscoveryAssumption DEF AskerRecords
<1>1. [a EXCEPT !.at = where, !.key = k, !.into = c, !.search = n] \in AskerRecords
    OBVIOUS
<1>2. [a EXCEPT !.at = where, !.key = k, !.into = c, !.named = named] \in AskerRecords
    OBVIOUS
<1>3. [a EXCEPT !.at = where, !.key = k] \in AskerRecords
    OBVIOUS
<1>4. [a EXCEPT !.at = where, !.into = c, !.named = named] \in AskerRecords
    OBVIOUS
<1> QED BY <1>1, <1>2, <1>3, <1>4

LEMMA SearchesMade == DInv => Len(searches) \in Nat /\ 0 \in 0..Len(searches)
<1> SUFFICES ASSUME DInv PROVE Len(searches) \in Nat
    OBVIOUS
<1> QED BY DEF DInv, DiscoveryTypes

(* A searcher moves on and searches nothing: a card it has is the one it had. *)
LEMMA AskerMoves ==
  ASSUME DInv, NEW q \in Searchers, NEW a \in AskerRecords, Moves(q, a),
         UNCHANGED <<shown, searches>>, created \subseteq created', AskerOK(q)',
         a.at \in {"store", "failed"} =>
           a.search = 0 \/ (asker[q].at = "store" /\ a.search = asker[q].search)
  PROVE  AskersInv'
<1>1. asker'[q] = a /\ \A p \in Searchers \ {q} : asker'[p] = asker[p]
    BY DEF Moves, DInv, DiscoveryTypes
<1>2. \A p \in Searchers : AskerOK(p)'
    BY <1>1 DEF DInv, AskersInv, AskerOK
<1>3. ASSUME NEW p \in Searchers, NEW r \in Searchers, p # r PROVE Apart(p, r)'
    <2>1. CASE p # q /\ r # q
        BY <1>1, <1>3, <2>1 DEF DInv, AskersInv, Apart
    <2>2. CASE p = q
        <3>1. asker[r].search # 0 => Apart(q, r)'
            BY <1>1, <1>2, <1>3, <2>2 DEF DInv, AskersInv, Apart, AskerOK
        <3>2. a.at = "store" => a.search # 0
            BY <1>1 DEF AskerOK
        <3> QED BY <1>1, <1>3, <2>2, <3>1, <3>2 DEF Apart
    <2>3. CASE r = q
        <3>1. asker[p].at = "store" => asker[p].search # 0
            BY DEF DInv, AskersInv, AskerOK
        <3> QED BY <1>1, <1>3, <2>3, <3>1 DEF DInv, AskersInv, Apart
    <2> QED BY <2>1, <2>2, <2>3
<1> QED BY <1>2, <1>3 DEF AskersInv

LEMMA DiscoveryInitial == DiscoveryInit => DInv
<1> SUFFICES ASSUME DiscoveryInit PROVE DInv
    OBVIOUS
<1> USE DiscoveryAssumption DEF DiscoveryInit, Fresh, NotStored
<1>1. DiscoveryTypes
    BY DEF DiscoveryTypes, AskerRecords
<1>2. AskersInv /\ CardsInv /\ AnswersInv
    BY DEF AskersInv, AskerOK, Apart, CardsInv, AnswersInv, Searchers
<1> QED BY <1>1, <1>2 DEF DInv

LEMMA ReceiveKeeps ==
  ASSUME DInv, NEW q \in Requests, NEW k \in RequestKeys, NEW c \in created \union {NoneOf},
         Receive(q, k, c)
  PROVE  DInv'
<1> USE DiscoveryAssumption
<1>0. /\ q \in Searchers /\ k # NoneOf /\ c \in Conversations \union {NoneOf}
      /\ replies[k] \in [search : 0..SearchBound, into : Conversations \union {NoneOf}]
      /\ 0 \in 0..SearchBound
    BY DEF Searchers, DInv, DiscoveryTypes
<1>1. PICK a \in AskerRecords :
        /\ Moves(q, a) /\ a.key = k /\ a.into \in created \union {NoneOf}
        /\ a.at \in {"answered", "refused", "lock"}
        /\ a.search \in 0..Len(searches) /\ (a.at = "lock" => a.search = 0)
        /\ a.at = "answered" =>
             replies[k] # NotStored /\ a.into = replies[k].into /\ a.search = replies[k].search
    <2>1. CASE replies[k] # NotStored
        <3>1. replies[k].into \in created \union {NoneOf} /\ replies[k].search \in 0..Len(searches)
            <4>1. replies[k] \in shown
                BY <2>1 DEF DInv, CardsInv
            <4>2. replies[k].search \in 1..Len(searches) /\ replies[k].into \in Existing
                BY <4>1 DEF DInv, CardsInv
            <4> QED BY <4>2 DEF Existing
        <3> DEFINE b == [Fresh EXCEPT !.at = "answered", !.key = k, !.into = replies[k].into,
                                      !.search = replies[k].search]
                   d == [Fresh EXCEPT !.at = "refused", !.key = k]
        <3>2. /\ b.at = "answered" /\ b.key = k /\ b.into = replies[k].into
              /\ b.search = replies[k].search
              /\ d.at = "refused" /\ d.key = k /\ d.into = NoneOf /\ d.search = 0
            BY SMTT(60) DEF Fresh
        <3>3. b \in AskerRecords /\ d \in AskerRecords
            BY <1>0, FreshAsker, AskerReceived
        <3>4. Moves(q, b) \/ Moves(q, d)
            BY <2>1 DEF Receive
        <3> HIDE DEF b, d
        <3> QED BY <2>1, <3>1, <3>2, <3>3, <3>4, SearchesMade
    <2>2. CASE replies[k] = NotStored
        <3>1. PICK where \in {"refused", "lock"} :
                Moves(q, [Fresh EXCEPT !.at = where, !.key = k, !.into = c, !.named = c # NoneOf])
            BY <2>2 DEF Receive
        <3> DEFINE b == [Fresh EXCEPT !.at = where, !.key = k, !.into = c, !.named = c # NoneOf]
        <3>2. b.at = where /\ b.key = k /\ b.into = c /\ b.search = 0
            BY SMTT(60) DEF Fresh
        <3>3. b \in AskerRecords /\ Moves(q, b)
            BY <1>0, <3>1, FreshAsker, AskerReceived
        <3> HIDE DEF b
        <3> QED BY <3>1, <3>2, <3>3, SearchesMade
    <2> QED BY <2>1, <2>2
<1>4. /\ asker' = [asker EXCEPT ![q] = a]
      /\ UNCHANGED <<holder, created, deleted, replies, shown, searches>>
    BY <1>1 DEF Moves, Receive
<1>5. DiscoveryTypes'
    BY <1>0, <1>4 DEF DInv, DiscoveryTypes
<1>6. AskersInv'
    <2>1. AskerOK(q)'
        BY <1>0, <1>1, <1>4 DEF DInv, DiscoveryTypes, AskerOK
    <2> QED BY <1>0, <1>1, <1>4, <2>1, AskerMoves
<1>7. CardsInv'
    BY <1>4 DEF DInv, CardsInv, NotStored, Existing
<1>8. AnswersInv'
    BY <1>0, <1>1, <1>4 DEF DInv, DiscoveryTypes, AnswersInv, Existing, Searchers
<1> QED BY <1>5, <1>6, <1>7, <1>8 DEF DInv

LEMMA TakeQuestionKeeps ==
  ASSUME DInv, NEW q \in SearchRuns, NEW c \in created, TakeQuestion(q, c)
  PROVE  DInv'
<1> USE DiscoveryAssumption DEF TakeQuestion, Moves, Fresh
<1>0. q \in Searchers /\ q \notin Requests /\ c \in Conversations
    BY DEF Searchers, DInv, DiscoveryTypes, AskerRecords
<1>1. DiscoveryTypes'
    <2>1. 0 \in 0..SearchBound
        BY SMTT(60)
    <2>2. [Fresh EXCEPT !.at = "lock", !.into = c, !.named = TRUE] \in AskerRecords
        BY <1>0, <2>1, FreshAsker, AskerReceived
    <2> QED BY <1>0, <2>2 DEF DInv, DiscoveryTypes
<1>2. AskersInv'
    <2> DEFINE a == [Fresh EXCEPT !.at = "lock", !.into = c, !.named = TRUE]
    <2>1. 0 \in 0..SearchBound
        OBVIOUS
    <2>2. a \in AskerRecords /\ a.at = "lock" /\ a.key = NoneOf /\ a.into = c /\ a.search = 0
        BY <1>0, <2>1, FreshAsker, AskerReceived
    <2> HIDE DEF a
    <2>3. Moves(q, a)
        BY DEF a
    <2>4. asker'[q] = a
        BY <1>0, <2>3 DEF DInv, DiscoveryTypes
    <2>5. AskerOK(q)'
        BY <1>0, <2>2, <2>4, SearchesMade DEF AskerOK
    <2> QED BY <1>0, <2>2, <2>3, <2>5, AskerMoves
<1>3. CardsInv'
    BY DEF DInv, CardsInv, NotStored, Existing
<1>4. AnswersInv'
    BY <1>0 DEF DInv, DiscoveryTypes, AskerRecords, AnswersInv, Existing, Searchers
<1> QED BY <1>1, <1>2, <1>3, <1>4 DEF DInv

(* What only moves a searcher on, to anywhere but its card or its answer. *)
LEMMA GoingOnKeeps ==
  ASSUME DInv, NEW q \in Searchers, NEW where \in {"search", "create", "busy", "failed"},
         asker[q].at \in {"lock", "create", "search", "store"}, Goes(q, where),
         where \in {"search", "create"} => asker[q].at = "lock",
         holder' \in Searchers \union {NoneOf},
         UNCHANGED <<created, deleted, replies, shown, searches>>
  PROVE  DInv'
<1> USE DiscoveryAssumption DEF Goes, Moves
<1>1. DiscoveryTypes'
    <2>1. [asker[q] EXCEPT !.at = where] \in AskerRecords
        BY AskerMovedOn DEF DInv, DiscoveryTypes
    <2> QED BY <2>1 DEF DInv, DiscoveryTypes
<1>2. AskersInv'
    <2> DEFINE a == [asker[q] EXCEPT !.at = where]
    <2>1. a \in AskerRecords /\ a.at = where /\ a.key = asker[q].key /\ a.into = asker[q].into
          /\ a.search = asker[q].search
        <3>1. asker[q] \in AskerRecords
            BY DEF DInv, DiscoveryTypes
        <3>2. a \in AskerRecords
            BY <3>1, AskerMovedOn
        <3> QED BY <3>1, <3>2 DEF AskerRecords
    <2> HIDE DEF a
    <2>2. Moves(q, a)
        BY DEF a
    <2>3. asker'[q] = a
        BY <2>2 DEF DInv, DiscoveryTypes
    <2>4. AskerOK(q) /\ \A m \in shown : m.search # 0
        BY DEF DInv, AskersInv, CardsInv
    <2>5. AskerOK(q)'
        BY <2>1, <2>3, <2>4 DEF AskerOK
    <2>6. asker[q].at # "store" => a.search = 0
        BY <2>1, <2>4 DEF AskerOK
    <2> QED BY <2>1, <2>2, <2>5, <2>6, AskerMoves
<1>3. CardsInv'
    BY DEF DInv, CardsInv, NotStored, Existing
<1>4. AnswersInv'
    BY DEF DInv, DiscoveryTypes, AskerRecords, AnswersInv, Existing, Searchers
<1> QED BY <1>1, <1>2, <1>3, <1>4 DEF DInv

LEMMA TryLockKeeps ==
  ASSUME DInv, NEW q \in Searchers, TryLock(q)
  PROVE  DInv'
<1> USE DEF TryLock
<1>1. PICK where \in {"search", "create", "busy"} : Goes(q, where)
    OBVIOUS
<1>2. holder' \in Searchers \union {NoneOf}
    BY DEF DInv, DiscoveryTypes, AskerRecords
<1> QED BY <1>1, <1>2, GoingOnKeeps

LEMMA FailsKeeps ==
  ASSUME DInv, NEW q \in Searchers, Fails(q)
  PROVE  DInv'
<1>1. holder' \in Searchers \union {NoneOf}
    BY DEF DInv, DiscoveryTypes, AskerRecords, Fails, Frees
<1> QED BY <1>1, GoingOnKeeps DEF Fails

LEMMA CreateConversationKeeps ==
  ASSUME DInv, NEW q \in Searchers, CreateConversation(q)
  PROVE  DInv'
<1> USE DiscoveryAssumption DEF CreateConversation, Moves
<1>0. PICK c \in Conversations \ created :
        /\ created' = created \union {c}
        /\ asker' = [asker EXCEPT ![q] = [asker[q] EXCEPT !.at = "search", !.into = c]]
    OBVIOUS
<1>1. DiscoveryTypes'
    <2>1. [asker[q] EXCEPT !.at = "search", !.into = c] \in AskerRecords
        BY AskerInto DEF DInv, DiscoveryTypes
    <2> QED BY <1>0, <2>1 DEF DInv, DiscoveryTypes
<1>2. AskersInv'
    <2> DEFINE a == [asker[q] EXCEPT !.at = "search", !.into = c]
    <2>1. a \in AskerRecords /\ a.at = "search" /\ a.key = asker[q].key /\ a.into = c
          /\ a.search = asker[q].search
        BY AskerInto, ZenonT(60) DEF DInv, DiscoveryTypes, AskerRecords
    <2> HIDE DEF a
    <2>2. Moves(q, a)
        BY <1>0 DEF a
    <2>3. asker'[q] = a
        BY <2>2 DEF DInv, DiscoveryTypes
    <2>4. AskerOK(q)'
        BY <1>0, <2>1, <2>3 DEF DInv, AskersInv, AskerOK
    <2> QED BY <1>0, <2>1, <2>2, <2>4, AskerMoves
<1>3. CardsInv'
    BY <1>0 DEF DInv, CardsInv, NotStored, Existing
<1>4. AnswersInv'
    <2> SUFFICES ASSUME NEW p \in Requests,
                        asker'[p].at = "answered", asker'[p].into \in Existing'
                 PROVE  /\ replies[asker'[p].key].search = asker'[p].search
                        /\ replies[asker'[p].key].into = asker'[p].into
        BY DEF AnswersInv
    <2>1. p # q /\ p \in Searchers /\ asker'[p] = asker[p]
        BY <1>0 DEF DInv, DiscoveryTypes, AskerRecords, Searchers
    <2>2. asker[p].into \in created \union {NoneOf}
        BY <2>1 DEF DInv, AskersInv, AskerOK
    <2>3. asker[p].into \in Existing
        BY <1>0, <2>1, <2>2 DEF Existing, DInv, DiscoveryTypes, AskerRecords
    <2> QED BY <2>1, <2>3 DEF DInv, AnswersInv
<1> QED BY <1>1, <1>2, <1>3, <1>4 DEF DInv

LEMMA SearchSourceKeeps ==
  ASSUME DInv, NEW q \in Searchers, SearchSource(q)
  PROVE  DInv'
<1> USE DiscoveryAssumption DEF SearchSource, Moves
<1> DEFINE K == RequestKeys \union {NoneOf}
<1>0. /\ searches \in Seq(K) /\ asker[q].key \in K /\ Len(searches) \in Nat
      /\ searches' = Append(searches, asker[q].key)
    BY DEF DInv, DiscoveryTypes, AskerRecords
<1>1. /\ searches' \in Seq(K) /\ Len(searches') = Len(searches) + 1
      /\ searches'[Len(searches) + 1] = asker[q].key
      /\ \A n \in 1..Len(searches) : searches'[n] = searches[n]
    BY <1>0
<1>2. DiscoveryTypes'
    <2>1. Len(searches) + 1 \in 0..SearchBound /\ asker[q] \in AskerRecords
        BY <1>0 DEF DInv, DiscoveryTypes
    <2>2. [asker[q] EXCEPT !.at = "store", !.search = Len(searches) + 1] \in AskerRecords
        BY <2>1, AskerSearched
    <2> QED BY <1>0, <1>1, <2>2 DEF DInv, DiscoveryTypes, Frees
<1>3. AskersInv'
    <2> DEFINE n == Len(searches) + 1
    <2>1. /\ asker'[q].at = "store" /\ asker'[q].search = n /\ asker'[q].key = asker[q].key
          /\ asker'[q].into = asker[q].into /\ asker[q].at = "search"
          /\ \A p \in Searchers \ {q} : asker'[p] = asker[p]
        BY DEF DInv, DiscoveryTypes, AskerRecords
    <2>2. \A p \in Searchers : asker[p].search # n /\ AskerOK(p)
        BY <1>0 DEF DInv, AskersInv, AskerOK
    <2>3. \A m \in shown : m.search # n
        BY <1>0 DEF DInv, CardsInv
    <2>4. AskerOK(q)'
        BY <1>0, <1>1, <2>1, <2>2, <2>3 DEF AskerOK
    <2>5. ASSUME NEW p \in Searchers \ {q} PROVE AskerOK(p)'
        <3>1. asker[p].search # 0 => searches'[asker[p].search] = searches[asker[p].search]
            BY <1>0, <1>1, <2>2 DEF AskerOK
        <3>2. asker'[p] = asker[p] /\ 0..Len(searches) \subseteq 0..Len(searches')
            BY <1>0, <1>1, <2>1
        <3> QED BY <2>2, <3>1, <3>2 DEF AskerOK
    <2>6. \A p, r \in Searchers : p # r => Apart(p, r)'
        BY <2>1, <2>2 DEF DInv, AskersInv, Apart
    <2> QED BY <2>4, <2>5, <2>6 DEF AskersInv
<1>4. CardsInv'
    <2>1. \A m \in shown : /\ m.search \in 1..Len(searches') /\ m.into \in Existing'
                           /\ searches'[m.search] = searches[m.search]
        BY <1>0, <1>1 DEF DInv, CardsInv, Existing
    <2> QED BY <2>1 DEF DInv, CardsInv, NotStored
<1>5. AnswersInv'
    BY DEF DInv, DiscoveryTypes, AskerRecords, AnswersInv, Existing, Searchers
<1> QED BY <1>2, <1>3, <1>4, <1>5 DEF DInv

LEMMA StoreKeeps ==
  ASSUME DInv, NEW q \in Searchers, Store(q)
  PROVE  DInv'
<1> USE DiscoveryAssumption
<1> DEFINE a == asker[q]
           made == [search |-> a.search, into |-> a.into]
<1>0. holder' \in Searchers \union {NoneOf}
    BY DEF DInv, DiscoveryTypes, AskerRecords, Store, Frees
<1>1. CASE ~(a.into \in Existing /\ KeyIsFree(a.key))
    BY <1>0, <1>1, GoingOnKeeps DEF Store
<1>2. CASE a.into \in Existing /\ KeyIsFree(a.key)
    <2>1. /\ a.at = "store" /\ shown' = shown \union {made}
          /\ replies' = IF a.key = NoneOf THEN replies ELSE [replies EXCEPT ![a.key] = made]
          /\ asker' = [asker EXCEPT ![q] = [asker[q] EXCEPT !.at = "answered"]]
          /\ UNCHANGED <<created, deleted, searches>>
        BY <1>2 DEF Store, Goes, Moves
    <2>2. /\ a.search \in 1..Len(searches) /\ searches[a.search] = a.key
          /\ a.into \in Conversations /\ a.into # NoneOf /\ made # NotStored
          /\ a.key \in RequestKeys \union {NoneOf}
          /\ a.search \in 1..SearchBound
        <3>1. AskerOK(q) /\ a \in AskerRecords
            BY DEF DInv, AskersInv, DiscoveryTypes
        <3>2. a.search \in 0..SearchBound /\ a.search # 0 /\ a.search \in 0..Len(searches)
            BY <2>1, <3>1 DEF AskerOK, AskerRecords
        <3> QED BY <1>2, <2>1, <3>1, <3>2, SearchesMade
               DEF AskerOK, DInv, DiscoveryTypes, AskerRecords, Existing, NotStored
    <2>3. \A k \in RequestKeys : replies'[k] = IF k = a.key THEN made ELSE replies[k]
        BY <2>1 DEF DInv, DiscoveryTypes, AskerRecords
    <2>4. \A p \in Searchers \ {q} : asker'[p] = asker[p]
        BY <2>1 DEF DInv, DiscoveryTypes, AskerRecords
    <2>5. /\ asker'[q].at = "answered" /\ asker'[q].key = a.key /\ asker'[q].into = a.into
          /\ asker'[q].search = a.search
        BY <2>1 DEF DInv, DiscoveryTypes, AskerRecords
    <2>6. DiscoveryTypes'
        <3>1. [asker[q] EXCEPT !.at = "answered"] \in AskerRecords
            BY AskerMovedOn DEF DInv, DiscoveryTypes
        <3> QED BY <1>0, <2>1, <2>2, <3>1 DEF DInv, DiscoveryTypes
    <2>7. AskersInv'
        <3>1. AskerOK(q)'
            BY <2>1, <2>5 DEF DInv, AskersInv, AskerOK
        <3>2. ASSUME NEW p \in Searchers \ {q} PROVE AskerOK(p)'
            <4>1. AskerOK(p) /\ Apart(q, p)
                BY DEF DInv, AskersInv
            <4>2. asker[p].at \in {"store", "failed"} => made.search # asker[p].search
                BY <2>1, <4>1 DEF Apart
            <4> QED BY <2>1, <2>4, <4>1, <4>2 DEF AskerOK
        <3>3. \A p, r \in Searchers : p # r => Apart(p, r)'
            BY <2>4, <2>5 DEF DInv, AskersInv, Apart
        <3> QED BY <3>1, <3>2, <3>3 DEF AskersInv
    <2>8. CardsInv'
        <3>1. a.key # NoneOf => replies[a.key] = NotStored
            BY <1>2 DEF KeyIsFree
        <3>2. \A m \in shown : searches[m.search] # a.key \/ a.key = NoneOf
            BY <2>2, <3>1 DEF DInv, CardsInv, DiscoveryTypes, AskerRecords, NotStored
        <3>3. \A m \in shown : searches[m.search] # NoneOf => searches[m.search] \in RequestKeys
            BY DEF DInv, CardsInv, DiscoveryTypes, AskerRecords
        <3>4. \A m \in shown' :
                /\ m.search \in 1..Len(searches) /\ m.into \in Existing
                /\ searches[m.search] # NoneOf => replies'[searches[m.search]] = m
            BY <1>2, <2>1, <2>2, <2>3, <3>2, <3>3 DEF DInv, CardsInv
        <3>5. \A k \in RequestKeys : replies'[k] # NotStored =>
                replies'[k] \in shown' /\ searches[replies'[k].search] = k
            BY <2>1, <2>2, <2>3 DEF DInv, CardsInv
        <3> QED BY <2>1, <3>4, <3>5 DEF CardsInv, Existing, NotStored
    <2>9. AnswersInv'
        <3> SUFFICES ASSUME NEW p \in Requests,
                            asker'[p].at = "answered", asker'[p].into \in Existing'
                     PROVE  /\ replies'[asker'[p].key].search = asker'[p].search
                            /\ replies'[asker'[p].key].into = asker'[p].into
            BY DEF AnswersInv
        <3>1. p \in Searchers /\ Existing' = Existing
            BY <2>1 DEF Searchers, Existing
        <3>2. CASE p = q
            <4>1. a.key \in RequestKeys
                BY <2>1, <2>2, <3>1, <3>2 DEF DInv, AskersInv, AskerOK
            <4> QED BY <3>2, <4>1, <2>3, <2>5
        <3>3. CASE p # q
            <4>1. /\ asker'[p] = asker[p] /\ asker[p].key \in RequestKeys
                  /\ replies[asker[p].key].search = asker[p].search
                  /\ replies[asker[p].key].into = asker[p].into
                  /\ asker[p].into # NoneOf
                BY <2>4, <3>1, <3>3
                   DEF DInv, AnswersInv, AskersInv, AskerOK, DiscoveryTypes, AskerRecords, Existing
            <4>2. asker[p].key # a.key
                BY <1>2, <4>1 DEF KeyIsFree, NotStored
            <4> QED BY <2>3, <4>1, <4>2
        <3> QED BY <3>2, <3>3
    <2> QED BY <2>6, <2>7, <2>8, <2>9 DEF DInv
<1> QED BY <1>1, <1>2

LEMMA DeleteConversationKeeps ==
  ASSUME DInv, NEW c \in created, DeleteConversation(c)
  PROVE  DInv'
<1> USE DiscoveryAssumption DEF DeleteConversation
<1>0. Existing' = Existing \ {c} /\ c \in Conversations /\ c # NoneOf
    BY DEF Existing, DInv, DiscoveryTypes, AskerRecords
<1>1. DiscoveryTypes'
    <2>1. deleted' \subseteq created' /\ shown' \subseteq shown
        BY DEF DInv, DiscoveryTypes, AskerRecords
    <2>2. replies' \in [RequestKeys ->
                         [search : 0..SearchBound, into : Conversations \union {NoneOf}]]
        BY DEF DInv, DiscoveryTypes, AskerRecords, NotStored
    <2> QED BY <2>1, <2>2 DEF DInv, DiscoveryTypes, AskerRecords
<1>2. AskersInv'
    BY DEF DInv, AskersInv, AskerOK, Apart
<1>3. CardsInv'
    <2>1. \A m \in shown' :
            /\ m.search \in 1..Len(searches) /\ m.into \in Existing \ {c}
            /\ searches[m.search] # NoneOf => replies'[searches[m.search]] = m
        BY DEF DInv, CardsInv, DiscoveryTypes, AskerRecords
    <2>2. \A k \in RequestKeys : replies'[k] # NotStored =>
            replies'[k] \in shown' /\ searches[replies'[k].search] = k
        BY DEF DInv, CardsInv
    <2> QED BY <1>0, <2>1, <2>2 DEF CardsInv, NotStored
<1>4. AnswersInv'
    <2> SUFFICES ASSUME NEW p \in Requests,
                        asker[p].at = "answered", asker[p].into \in Existing \ {c}
                 PROVE  /\ replies'[asker[p].key].search = asker[p].search
                        /\ replies'[asker[p].key].into = asker[p].into
        BY <1>0 DEF AnswersInv
    <2>1. /\ p \in Searchers /\ asker[p].key \in RequestKeys
          /\ replies[asker[p].key].search = asker[p].search
          /\ replies[asker[p].key].into = asker[p].into
        BY DEF DInv, AnswersInv, AskersInv, AskerOK, DiscoveryTypes, AskerRecords, Searchers
    <2> QED BY <2>1
<1> QED BY <1>1, <1>2, <1>3, <1>4 DEF DInv

LEMMA DiscoveryStep == DInv /\ [DiscoveryNext]_discoveryVars => DInv'
<1> SUFFICES ASSUME DInv, [DiscoveryNext]_discoveryVars PROVE DInv'
    OBVIOUS
<1>1. CASE UNCHANGED discoveryVars
    BY <1>1 DEF discoveryVars, DInv, DiscoveryTypes, AskerRecords, AskersInv, AskerOK, Apart, CardsInv,
                AnswersInv, Existing, NotStored
<1>2. CASE DiscoveryNext
    BY <1>2, ReceiveKeeps, TakeQuestionKeeps, TryLockKeeps, CreateConversationKeeps,
       SearchSourceKeeps, StoreKeeps, FailsKeeps, DeleteConversationKeeps DEF DiscoveryNext
<1> QED BY <1>1, <1>2

(* However often a request is sent and whoever else searches: an answer is a *)
(* stored card of a search for that request, a key has one card, and a       *)
(* request that failed has left none (api/discovery.py).                     *)
THEOREM RetriesAreOneCard == DiscoverySpec => []OneCardPerRequest
<1>1. DInv => OneCardPerRequest
    <2> SUFFICES ASSUME DInv PROVE OneCardPerRequest
        OBVIOUS
    <2>1. ASSUME NEW q \in Requests, asker[q].at = "answered", asker[q].into \in Existing
          PROVE  /\ [search |-> asker[q].search, into |-> asker[q].into] \in shown
                 /\ searches[asker[q].search] = asker[q].key
        <3> DEFINE k == asker[q].key
        <3>1. q \in Searchers /\ asker[q].into # NoneOf
            BY <2>1, DiscoveryAssumption DEF Searchers, Existing, DInv, DiscoveryTypes
        <3>2. k \in RequestKeys
            BY <2>1, <3>1 DEF DInv, DiscoveryTypes, AskerRecords, AskersInv, AskerOK
        <3>3. replies[k].search = asker[q].search /\ replies[k].into = asker[q].into
            BY <2>1 DEF DInv, AnswersInv
        <3>4. replies[k] = [search |-> asker[q].search, into |-> asker[q].into]
              /\ replies[k] # NotStored
            BY <3>1, <3>2, <3>3 DEF DInv, DiscoveryTypes, NotStored
        <3> QED BY <3>2, <3>4 DEF DInv, CardsInv
    <2>2. ASSUME NEW m \in shown, NEW n \in shown,
                 searches[m.search] # NoneOf, searches[m.search] = searches[n.search]
          PROVE  m = n
        BY <2>2 DEF DInv, CardsInv
    <2>3. ASSUME NEW q \in Requests, asker[q].at = "failed", NEW m \in shown
          PROVE  m.search # asker[q].search
        BY <2>3 DEF Searchers, DInv, AskersInv, AskerOK
    <2> QED BY <2>1, <2>2, <2>3 DEF OneCardPerRequest
<1> QED BY <1>1, DiscoveryInitial, DiscoveryStep, PTL DEF DiscoverySpec

-----------------------------------------------------------------------------
(* The experiment.  A provider's limit takes a failed attempt back, so a     *)
(* settled cell could become open again after the next one was begun; it     *)
(* does not, because nothing later than the cell of a worker has a result    *)
(* (RunnerInv).                                                              *)

Runners == [at : {"off", "cell", "worker", "ended"}, cell : 1..Cells + 1,
            key : ApiKeys \union {Off.key}, open : BOOLEAN, blocked : BOOLEAN]

ResultsTyped == results \in [Schedule -> Seq(Statuses)]

(* The runner moves from cell to cell; where it is says what is settled.     *)
RunnerInv ==
  /\ runner \in Runners
  /\ runner.at # "off" => \A b \in 1..Cell - 1 : Settled(b)
  /\ runner.at = "worker" => Cell \in Schedule /\ ~Settled(Cell)
  /\ runner.at = "ended" => Cell \in Schedule /\ results[Cell] # << >>
  /\ runner.at \in {"worker", "ended"} => \A c \in Schedule : c > Cell => results[c] = << >>

EInv == ResultsTyped /\ RunnerInv /\ ScheduleIsKept

(* The runner's record, changed field by field. *)
LEMMA RunnerMoves ==
  ASSUME NEW r \in Runners, NEW where \in {"off", "cell", "worker", "ended"}, NEW cell \in 1..Cells + 1,
         NEW opened \in BOOLEAN, NEW blocked \in BOOLEAN
  PROVE  /\ [r EXCEPT !.at = where] \in Runners
         /\ [r EXCEPT !.at = where, !.cell = cell] \in Runners
         /\ [r EXCEPT !.cell = cell] \in Runners
         /\ [r EXCEPT !.open = opened] \in Runners
         /\ [r EXCEPT !.blocked = blocked] \in Runners
         /\ [r EXCEPT !.at = where, !.open = opened] \in Runners
<1> USE DEF Runners
<1>1. [r EXCEPT !.at = where] \in Runners /\ [r EXCEPT !.cell = cell] \in Runners
    OBVIOUS
<1>2. [r EXCEPT !.at = where, !.cell = cell] \in Runners
    OBVIOUS
<1>3. [r EXCEPT !.open = opened] \in Runners /\ [r EXCEPT !.blocked = blocked] \in Runners
    OBVIOUS
<1>4. [r EXCEPT !.at = where, !.open = opened] \in Runners
    OBVIOUS
<1> QED BY <1>1, <1>2, <1>3, <1>4

LEMMA RunnerGoes ==
  ASSUME NEW r \in Runners, NEW where \in {"off", "cell", "worker", "ended"}, NEW opened \in BOOLEAN
  PROVE  [r EXCEPT !.at = where] \in Runners /\ [r EXCEPT !.at = where, !.open = opened] \in Runners
<1>1. [r EXCEPT !.at = where] \in Runners
    BY DEF Runners
<1>2. [r EXCEPT !.at = where, !.open = opened] \in Runners
    BY DEF Runners
<1> QED BY <1>1, <1>2

LEMMA RunnerLaunched ==
  ASSUME NEW r \in Runners, NEW key \in ApiKeys, NEW opened \in BOOLEAN, NEW blocked \in BOOLEAN
  PROVE  [r EXCEPT !.at = "worker", !.key = key, !.open = opened, !.blocked = blocked] \in Runners
BY DEF Runners

LEMMA OffIsARunner == Off \in Runners /\ Off.at = "off" /\ Off.cell = 1
BY ExperimentAssumption DEF Off, Runners

(* What stays when no result changes. *)
LEMMA ResultsStay ==
  ASSUME EInv, UNCHANGED results
  PROVE  /\ ResultsTyped' /\ ScheduleIsKept'
         /\ \A c \in Schedule : Settled(c)' = Settled(c)
BY DEF EInv, ResultsTyped, ScheduleIsKept, Settled, Valid, FailedAttempts, Attempts

LEMMA AttemptsAreFinite ==
  ASSUME ResultsTyped, NEW c \in Schedule, NEW how
  PROVE  /\ Len(results[c]) \in Nat /\ Attempts(c, how) \subseteq 1..Len(results[c])
         /\ IsFiniteSet(Attempts(c, how)) /\ Cardinality(Attempts(c, how)) \in Nat
<1>1. Len(results[c]) \in Nat /\ DOMAIN results[c] = 1..Len(results[c])
    BY DEF ResultsTyped
<1>2. Attempts(c, how) \subseteq 1..Len(results[c])
    BY <1>1 DEF Attempts
<1>3. PICK n \in Int : n = Len(results[c])
    BY <1>1
<1>4. IsFiniteSet(1..n)
    BY FS_Interval
<1>5. IsFiniteSet(1..Len(results[c]))
    BY <1>3, <1>4
<1> QED BY <1>1, <1>2, <1>5, FS_Subset, FS_CardinalityType

(* A worker's result, of whatever kind, for a cell that was not settled.     *)
LEMMA ResultKept ==
  ASSUME EInv, NEW end \in Statuses, runner.at = "worker",
         results' = [results EXCEPT ![Cell] = Append(@, end)],
         runner' = [runner EXCEPT !.at = "ended"] \/ runner' = [runner EXCEPT !.at = "ended", !.open = FALSE]
  PROVE  EInv'
<1> USE ExperimentAssumption
<1>1. PICK c \in Schedule : c = Cell
    BY DEF EInv, RunnerInv
<1>2. /\ results' \in [Schedule -> Seq(Statuses)]
      /\ \A b \in Schedule : b # c => results'[b] = results[b]
      /\ results'[c] = Append(results[c], end)
      /\ results[c] \in Seq(Statuses) /\ Len(results[c]) \in Nat
    BY <1>1 DEF EInv, ResultsTyped
<1>3. PICK n \in Nat : n = Len(results[c])
    BY <1>2
<1>4. /\ Len(results'[c]) = n + 1 /\ results'[c][n + 1] = end /\ results'[c] # << >>
      /\ \A a \in 1..n : results'[c][a] = results[c][a]
      /\ DOMAIN results[c] = 1..n /\ DOMAIN results'[c] = 1..n + 1
    BY <1>2, <1>3
<1>5. \A how : /\ Attempts(c, how) \subseteq Attempts(c, how)'
               /\ Attempts(c, how)' \subseteq Attempts(c, how) \union {n + 1}
    BY <1>4 DEF Attempts
<1>6. \A b \in Schedule : b # c => /\ Settled(b)' = Settled(b)
                                   /\ FailedAttempts(b)' = FailedAttempts(b)
                                   /\ Attempts(b, {"valid"})' = Attempts(b, {"valid"})
    BY <1>2 DEF Settled, Valid, FailedAttempts, Attempts
<1>7. runner' \in Runners /\ runner'.at = "ended" /\ Cell' = c
    <2>1. runner \in Runners /\ FALSE \in BOOLEAN
        BY DEF EInv, RunnerInv
    <2>2. runner' \in Runners
        BY <2>1, RunnerGoes
    <2>3. runner'.at = "ended" /\ runner'.cell = runner.cell
        BY <2>1 DEF Runners
    <2> QED BY <1>1, <2>2, <2>3 DEF Cell
<1>8. RunnerInv'
    <2>1. \A b \in 1..c - 1 : Settled(b)'
        BY <1>1, <1>6 DEF EInv, RunnerInv, Schedule
    <2>2. \A b \in Schedule : b > c => results'[b] = << >>
        BY <1>1, <1>2 DEF EInv, RunnerInv, Schedule
    <2>3. results'[c] # << >>
        BY <1>4
    <2> HIDE DEF Cell
    <2> QED BY <1>7, <2>1, <2>2, <2>3 DEF RunnerInv
<1>9. ScheduleIsKept'
    <2>1. ~Valid(c) /\ FailedAttempts(c) < MaxFailed
        <3>1. FailedAttempts(c) \in Nat
            BY AttemptsAreFinite DEF EInv, FailedAttempts
        <3> QED BY <1>1, <3>1 DEF EInv, RunnerInv, Settled
    <2>2. FailedAttempts(c)' <= MaxFailed
        <3>1. Attempts(c, Failing) \subseteq 1..n
            BY <1>4 DEF Attempts
        <3>2. Attempts(c, Failing)' \subseteq Attempts(c, Failing) \union {n + 1}
            BY <1>5
        <3> QED BY <2>1, <3>1, <3>2, OneMore DEF FailedAttempts
    <2>3. Attempts(c, {"valid"})' \subseteq {Len(results'[c])}
        BY <1>4, <1>5, <2>1 DEF Valid
    <2>4. ASSUME NEW d \in Schedule, results'[d] # << >>, NEW b \in 1..d - 1
          PROVE  Settled(b)'
        <3>1. d = c \/ results[d] # << >>
            BY <1>2, <2>4
        <3>2. d <= c
            BY <1>1, <3>1 DEF EInv, RunnerInv, Schedule
        <3>3. b \in Schedule /\ b # c /\ b \in 1..c - 1
            BY <3>2 DEF Schedule
        <3>4. Settled(b)
            BY <1>1, <3>3 DEF EInv, RunnerInv
        <3> QED BY <1>6, <3>3, <3>4
    <2>5. ASSUME NEW d \in Schedule, d # c
          PROVE  /\ FailedAttempts(d)' <= MaxFailed
                 /\ Attempts(d, {"valid"})' \subseteq {Len(results'[d])}
        BY <1>2, <1>6, <2>5 DEF EInv, ScheduleIsKept
    <2> QED BY <2>2, <2>3, <2>4, <2>5 DEF ScheduleIsKept
<1> QED BY <1>2, <1>8, <1>9 DEF EInv, ResultsTyped

LEMMA JudgeKeeps == ASSUME EInv, Judge PROVE EInv'
<1> USE ExperimentAssumption
<1>1. PICK c \in Schedule : c = Cell
    BY DEF EInv, RunnerInv, Judge
<1>2. /\ results[c] \in Seq(Statuses) /\ results[c] # << >> /\ Len(results[c]) \in Nat
      /\ \A d \in Schedule : d > c => results[d] = << >>
      /\ \A b \in 1..c - 1 : Settled(b)
    BY <1>1 DEF EInv, ResultsTyped, RunnerInv, Judge
<1>3. PICK n \in Nat \ {0} : n = Len(results[c])
    BY <1>2
<1>4. runner' \in Runners /\ (runner'.at = "off" \/ (runner'.at = "cell" /\ Cell' = c))
    <2>1. runner' = Off \/ runner' = [Off EXCEPT !.at = "cell", !.cell = c]
        BY <1>1 DEF Judge
    <2>2. c \in 1..Cells + 1
        BY DEF Schedule
    <2>3. [Off EXCEPT !.at = "cell", !.cell = c] \in Runners
        BY <2>2, OffIsARunner, RunnerMoves
    <2> QED BY <2>1, <2>3, OffIsARunner DEF Runners, Cell
<1>5. CASE UNCHANGED results
    <2>1. RunnerInv'
        BY <1>2, <1>4, <1>5, ResultsStay DEF RunnerInv, Schedule
    <2> QED BY <1>5, <2>1, ResultsStay DEF EInv
<1>6. CASE LastOf(c) = "limited"
    <2>1. /\ results' = [results EXCEPT ![c] = [results[c] EXCEPT ![n] = "quota"]]
          /\ results[c][n] = "limited"
        BY <1>1, <1>3, <1>6 DEF Judge, LastOf, EInv, ResultsTyped
    <2>2. /\ results' \in [Schedule -> Seq(Statuses)]
          /\ \A b \in Schedule : b # c => results'[b] = results[b]
          /\ Len(results'[c]) = n /\ results'[c][n] = "quota"
          /\ \A a \in 1..n - 1 : results'[c][a] = results[c][a]
          /\ DOMAIN results[c] = 1..n /\ DOMAIN results'[c] = 1..n
        <3>1. [results[c] EXCEPT ![n] = "quota"] \in Seq(Statuses)
            BY <1>2, <1>3 DEF Statuses
        <3> QED BY <1>2, <1>3, <2>1, <3>1 DEF EInv, ResultsTyped
    <2>3. /\ Attempts(c, Failing)' \subseteq Attempts(c, Failing)
          /\ Attempts(c, {"valid"})' \subseteq Attempts(c, {"valid"})
        BY <2>1, <2>2 DEF Attempts, Failing
    <2>4. \A b \in Schedule : b # c => /\ Settled(b)' = Settled(b)
                                       /\ FailedAttempts(b)' = FailedAttempts(b)
                                       /\ Attempts(b, {"valid"})' = Attempts(b, {"valid"})
        BY <2>2 DEF Settled, Valid, FailedAttempts, Attempts
    <2>5. RunnerInv'
        <3>1. \A b \in 1..c - 1 : Settled(b)'
            BY <1>2, <2>4 DEF Schedule
        <3> QED BY <1>4, <3>1 DEF RunnerInv
    <2>6. ScheduleIsKept'
        <3>1. FailedAttempts(c)' <= MaxFailed
            <4>1. Cardinality(Attempts(c, Failing)') <= Cardinality(Attempts(c, Failing))
                BY <2>3, AttemptsAreFinite, FS_Subset DEF EInv
            <4>2. IsFiniteSet(Attempts(c, Failing)') /\ Cardinality(Attempts(c, Failing)') \in Nat
                BY <2>3, AttemptsAreFinite, FS_Subset, FS_CardinalityType DEF EInv
            <4> QED BY <4>1, <4>2, AttemptsAreFinite DEF EInv, ScheduleIsKept, FailedAttempts
        <3>2. Attempts(c, {"valid"})' \subseteq {Len(results'[c])}
            BY <1>3, <2>2, <2>3 DEF EInv, ScheduleIsKept
        <3>3. ASSUME NEW d \in Schedule, results'[d] # << >>, NEW b \in 1..d - 1
              PROVE  Settled(b)'
            <4>1. d <= c
                <5>1. d # c => results[d] # << >>
                    BY <2>2, <3>3
                <5> QED BY <1>2, <5>1 DEF Schedule
            <4>2. b \in Schedule /\ b # c /\ b \in 1..c - 1
                BY <4>1 DEF Schedule
            <4> QED BY <1>2, <2>4, <4>2
        <3>4. ASSUME NEW d \in Schedule, d # c
              PROVE  /\ FailedAttempts(d)' <= MaxFailed
                     /\ Attempts(d, {"valid"})' \subseteq {Len(results'[d])}
            BY <2>2, <2>4, <3>4 DEF EInv, ScheduleIsKept
        <3> QED BY <3>1, <3>2, <3>3, <3>4 DEF ScheduleIsKept
    <2> QED BY <2>2, <2>5, <2>6 DEF EInv, ResultsTyped
<1> QED BY <1>1, <1>5, <1>6 DEF Judge

LEMMA ExperimentInitial == ExperimentInit => EInv
<1> SUFFICES ASSUME ExperimentInit PROVE EInv
    OBVIOUS
<1> USE ExperimentAssumption DEF ExperimentInit
<1>1. ResultsTyped /\ \A c \in Schedule : results[c] = << >>
    BY DEF ResultsTyped
<1>2. RunnerInv
    BY OffIsARunner DEF RunnerInv
<1>3. ScheduleIsKept
    <2>1. \A c \in Schedule : \A how : Attempts(c, how) = {}
        BY <1>1 DEF Attempts
    <2>2. \A S : S = {} => Cardinality(S) = 0
        BY FS_EmptySet
    <2>3. \A c \in Schedule : FailedAttempts(c) = 0
        BY <2>1, <2>2 DEF FailedAttempts
    <2> QED BY <1>1, <2>1, <2>3 DEF ScheduleIsKept
<1> QED BY <1>1, <1>2, <1>3 DEF EInv

LEMMA ExperimentStep == EInv /\ [ExperimentNext]_experimentVars => EInv'
<1> SUFFICES ASSUME EInv, [ExperimentNext]_experimentVars PROVE EInv'
    OBVIOUS
<1> USE ExperimentAssumption
<1>0. runner \in Runners /\ Cell \in 1..Cells + 1
    BY DEF EInv, RunnerInv, Runners, Cell
<1>1. CASE UNCHANGED experimentVars
    BY <1>0, <1>1, ResultsStay DEF experimentVars, EInv, RunnerInv, Schedule, Cell
<1>2. ASSUME NEW again \in BOOLEAN, Resume(again) PROVE EInv'
    <2>1. runner' = [Off EXCEPT !.at = "cell"] /\ UNCHANGED results
        BY <1>2 DEF Resume
    <2>2. runner' \in Runners /\ runner'.at = "cell" /\ Cell' = 1
        <3>1. [Off EXCEPT !.at = "cell"] \in Runners
            BY OffIsARunner, RunnerGoes
        <3>2. [Off EXCEPT !.at = "cell"].at = "cell" /\ [Off EXCEPT !.at = "cell"].cell = 1
            BY OffIsARunner DEF Runners
        <3> QED BY <2>1, <3>1, <3>2 DEF Cell
    <2> QED BY <2>1, <2>2, ResultsStay DEF EInv, RunnerInv
<1>3. CASE NextCell
    <2>1. /\ runner' = [runner EXCEPT !.cell = Cell + 1] /\ UNCHANGED results
          /\ runner.at = "cell" /\ Cell <= Cells /\ Settled(Cell)
        BY <1>3 DEF NextCell, Cell
    <2>2. runner' \in Runners /\ runner'.at = "cell" /\ Cell' = Cell + 1
        <3>1. Cell + 1 \in 1..Cells + 1
            BY <1>0, <2>1, SMTT(60)
        <3>2. runner' \in Runners
            BY <1>0, <2>1, <3>1, RunnerMoves
        <3>3. runner'.at = runner.at /\ runner'.cell = Cell + 1
            BY <1>0, <2>1 DEF Runners
        <3> QED BY <2>1, <3>2, <3>3 DEF Cell
    <2>3. \A b \in 1..Cell : b \in Schedule /\ Settled(b)
        BY <1>0, <2>1 DEF EInv, RunnerInv, Schedule
    <2>4. RunnerInv'
        BY <1>0, <2>1, <2>2, <2>3, ResultsStay DEF RunnerInv
    <2> QED BY <2>1, <2>4, ResultsStay DEF EInv
<1>4. CASE Stop \/ Interrupt
    <2>1. runner' = Off /\ UNCHANGED results
        BY <1>4 DEF Stop, Interrupt
    <2> QED BY <2>1, OffIsARunner, ResultsStay DEF EInv, RunnerInv
<1>5. ASSUME NEW key \in ApiKeys, Launch(key) PROVE EInv'
    <2>1. /\ runner' = [runner EXCEPT !.at = "worker", !.key = key, !.open = FALSE, !.blocked = FALSE]
          /\ UNCHANGED results /\ runner.at = "cell" /\ Cell <= Cells /\ ~Settled(Cell)
        BY <1>5 DEF Launch
    <2>2. runner' \in Runners /\ runner'.at = "worker" /\ Cell' = Cell
        BY <1>0, <2>1, RunnerLaunched DEF Runners, Cell
    <2>3. Cell \in Schedule /\ \A b \in 1..Cell - 1 : b \in Schedule /\ Settled(b)
        BY <1>0, <2>1 DEF EInv, RunnerInv, Schedule
    <2>4. \A c \in Schedule : c > Cell => results[c] = << >>
        BY <2>1, <2>3 DEF EInv, ScheduleIsKept, Schedule
    <2>5. RunnerInv'
        BY <2>1, <2>2, <2>3, <2>4, ResultsStay DEF RunnerInv
    <2> QED BY <2>1, <2>5, ResultsStay DEF EInv
<1>6. CASE Request \/ Reply
    <2>1. PICK flag \in BOOLEAN : \/ runner' = [runner EXCEPT !.open = flag]
                                  \/ runner' = [runner EXCEPT !.blocked = flag]
        BY <1>6 DEF Request, Reply
    <2>2. UNCHANGED results
        BY <1>6 DEF Request, Reply
    <2>3. runner' \in Runners /\ runner'.at = runner.at /\ Cell' = Cell
        <3>1. runner' \in Runners
            BY <1>0, <2>1, RunnerMoves
        <3>2. runner'.at = runner.at /\ runner'.cell = runner.cell
            BY <1>0, <2>1 DEF Runners
        <3> QED BY <3>1, <3>2 DEF Cell
    <2>4. RunnerInv'
        BY <1>0, <2>2, <2>3, ResultsStay DEF EInv, RunnerInv, Schedule
    <2> QED BY <2>2, <2>4, ResultsStay DEF EInv
<1>7. CASE WorkerEnds
    <2>1. PICK end \in Statuses : results' = [results EXCEPT ![Cell] = Append(@, end)]
        BY <1>7 DEF WorkerEnds, Answered, Statuses, Failing
    <2> QED BY <1>7, <2>1, ResultKept DEF WorkerEnds
<1>8. CASE WorkerLost
    BY <1>8, ResultKept DEF WorkerLost, Statuses, Failing
<1> QED BY <1>1, <1>2, <1>3, <1>4, <1>5, <1>6, <1>7, <1>8, JudgeKeeps DEF ExperimentNext

(* Over any number of interruptions the schedule is kept: a cell is begun    *)
(* only when every earlier one has its valid answer or has failed twice, and *)
(* a cell has one valid answer at most, its last attempt, and no third       *)
(* failure (evaluation/security/main_run.py).                                *)
THEOREM ExperimentKeepsSchedule == ExperimentSpec => []ScheduleIsKept
<1>1. EInv => ScheduleIsKept
    BY DEF EInv
<1> QED BY <1>1, ExperimentInitial, ExperimentStep, PTL DEF ExperimentSpec

-----------------------------------------------------------------------------
(* News.  The pages a refresh has read are the newest articles, without a    *)
(* gap up to the time it began, although the list moves under it             *)
(* (ListingInv); so what it records has a row (SpansInv), and no span        *)
(* reaches an article that is still to be published (TimesInv).              *)

SpanRecords == [from : Nat, until : Int]
RefreshRecords ==
  [at : {"idle", "listing", "put", "read", "record"}, seen : SUBSET Nat, page : Nat \ {0},
   rows : Nat, from : Nat, asOf : Nat, known : SpanRecords]

NewsTypes ==
  /\ published \in Nat /\ listed \subseteq 1..published /\ coverage \in SpanRecords
  /\ refresh \in [Refreshes -> RefreshRecords]
  /\ \A r \in Refreshes : refresh[r].seen \subseteq 1..published

Odd(t) == \E n \in Nat : t = 2 * n + 1

TimesInv ==
  /\ coverage.until <= Now
  /\ \A r \in Refreshes :
       /\ refresh[r].at # "idle" => Odd(refresh[r].asOf) /\ refresh[r].asOf <= Now
       /\ refresh[r].at = "record" => refresh[r].known.until <= Now

(* From any article it has seen, and down to the end of its last page, a     *)
(* refresh has seen all up to its beginning.                                 *)
Gapless(rec) ==
  /\ \A i \in 1..published : PublishedAt(i) <= rec.asOf =>
       /\ i > published - (rec.page - 1) * PageSize => i \in rec.seen
       /\ \A j \in rec.seen : j <= i => i \in rec.seen
  /\ rec.rows <= (rec.page - 1) * PageSize

ListingInv == \A r \in Refreshes : refresh[r].at = "listing" => Gapless(refresh[r])

SpanSeen(rec) == \A i \in 1..published : Within(i, rec.from, rec.asOf) => i \in rec.seen
SpanListed(from, until) == \A i \in 1..published : Within(i, from, until) => i \in listed

SpansInv ==
  /\ SpanListed(coverage.from, coverage.until)
  /\ \A r \in Refreshes :
       /\ refresh[r].at = "put" => SpanSeen(refresh[r])
       /\ refresh[r].at \in {"read", "record"} => SpanListed(refresh[r].from, refresh[r].asOf)
       /\ refresh[r].at = "record" => SpanListed(refresh[r].known.from, refresh[r].known.until)

NInv == NewsTypes /\ TimesInv /\ ListingInv /\ SpansInv

LEMMA NoRefreshTyped == NoRefresh \in RefreshRecords /\ NoRefresh.at = "idle" /\ NoRefresh.seen = {}
BY DEF NoRefresh, RefreshRecords, NoCoverage, SpanRecords

LEMMA NewsInitial == NewsInit => NInv
<1> SUFFICES ASSUME NewsInit PROVE NInv
    OBVIOUS
<1>1. \A r \in Refreshes : refresh[r] = NoRefresh
    BY DEF NewsInit
<1>2. NewsTypes
    BY NoRefreshTyped DEF NewsInit, NewsTypes, NoCoverage, SpanRecords
<1>3. TimesInv /\ ListingInv /\ SpansInv
    BY <1>1, NoRefreshTyped
       DEF NewsInit, TimesInv, ListingInv, SpansInv, SpanListed, NoCoverage, Now
<1> QED BY <1>2, <1>3 DEF NInv

(* One refresh goes on, and what it brings is in order; the others see no     *)
(* row less.                                                                 *)
LEMMA OneRefresh ==
  ASSUME NInv, NEW r \in Refreshes, NEW rec \in RefreshRecords, UpdateRefresh(r, rec),
         UNCHANGED published, listed \subseteq listed', listed' \subseteq 1..published,
         coverage' \in SpanRecords, coverage'.until <= Now,
         \A i \in 1..published : Within(i, coverage'.from, coverage'.until) => i \in listed',
         rec.seen \subseteq 1..published,
         rec.at # "idle" => Odd(rec.asOf) /\ rec.asOf <= Now,
         rec.at = "record" => rec.known.until <= Now,
         rec.at = "listing" => Gapless(rec),
         rec.at = "put" => SpanSeen(rec),
         rec.at \in {"read", "record"} =>
           \A i \in 1..published : Within(i, rec.from, rec.asOf) => i \in listed',
         rec.at = "record" =>
           \A i \in 1..published : Within(i, rec.known.from, rec.known.until) => i \in listed'
  PROVE  NInv'
<1>1. /\ refresh' \in [Refreshes -> RefreshRecords] /\ refresh'[r] = rec
      /\ \A q \in Refreshes : q # r => refresh'[q] = refresh[q]
    BY DEF UpdateRefresh, NInv, NewsTypes
<1>2. NewsTypes'
    BY <1>1 DEF NInv, NewsTypes
<1>3. TimesInv'
    BY <1>1 DEF NInv, TimesInv, Now
<1>4. ASSUME NEW q \in Refreshes, refresh'[q].at = "listing" PROVE Gapless(refresh[q])'
    <2>1. CASE q = r
        BY <1>1, <1>4, <2>1 DEF Gapless, PublishedAt
    <2>2. CASE q # r
        BY <1>1, <1>4, <2>2 DEF NInv, ListingInv, Gapless, PublishedAt
    <2> QED BY <2>1, <2>2
<1>5. ASSUME NEW q \in Refreshes
      PROVE  /\ refresh'[q].at = "put" =>
                  \A i \in 1..published : Within(i, refresh'[q].from, refresh'[q].asOf) => i \in refresh'[q].seen
             /\ refresh'[q].at \in {"read", "record"} =>
                  \A i \in 1..published : Within(i, refresh'[q].from, refresh'[q].asOf) => i \in listed'
             /\ refresh'[q].at = "record" =>
                  \A i \in 1..published :
                    Within(i, refresh'[q].known.from, refresh'[q].known.until) => i \in listed'
    <2>1. CASE q = r
        BY <1>1, <2>1 DEF SpanSeen
    <2>2. CASE q # r
        BY <1>1, <2>2 DEF NInv, SpansInv, SpanSeen, SpanListed
    <2> QED BY <2>1, <2>2
<1>6. ListingInv'
    BY <1>4 DEF ListingInv
<1>7. SpansInv'
    BY <1>5 DEF SpansInv, SpanSeen, SpanListed
<1> QED BY <1>2, <1>3, <1>6, <1>7 DEF NInv

(* A step of a refresh that stores nothing. *)
LEMMA QuietRefresh ==
  ASSUME NInv, NEW r \in Refreshes, NEW rec \in RefreshRecords, UpdateRefresh(r, rec),
         UNCHANGED <<published, listed, coverage>>, rec.seen \subseteq 1..published,
         rec.at # "idle" => Odd(rec.asOf) /\ rec.asOf <= Now,
         rec.at = "record" => rec.known.until <= Now,
         rec.at = "listing" => Gapless(rec),
         rec.at = "put" => SpanSeen(rec),
         rec.at \in {"read", "record"} => SpanListed(rec.from, rec.asOf),
         rec.at = "record" => SpanListed(rec.known.from, rec.known.until)
  PROVE  NInv'
<1>1. coverage \in SpanRecords /\ coverage.until <= Now /\ listed \subseteq 1..published
    BY DEF NInv, NewsTypes, TimesInv
<1>2. \A i \in 1..published : Within(i, coverage.from, coverage.until) => i \in listed
    BY DEF NInv, SpansInv, SpanListed
<1> QED BY <1>1, <1>2, OneRefresh DEF SpanListed

LEMMA PublishKeeps == ASSUME NInv, Publish PROVE NInv'
<1> USE NewsAssumption DEF Publish
<1>1. /\ published \in Nat /\ published' = published + 1
      /\ UNCHANGED <<listed, coverage, refresh>>
    BY DEF NInv, NewsTypes
<1>2. NewsTypes'
    BY <1>1 DEF NInv, NewsTypes
<1>3. TimesInv'
    BY <1>1 DEF NInv, TimesInv, Now, NewsTypes, RefreshRecords, SpanRecords
<1>4. \A r \in Refreshes : refresh[r] \in RefreshRecords
    BY DEF NInv, NewsTypes
<1>5. ASSUME NEW r \in Refreshes, refresh[r].at = "listing" PROVE Gapless(refresh[r])'
    <2>1. /\ refresh[r].asOf \in Nat /\ refresh[r].asOf <= 2 * published + 1
          /\ (refresh[r].page - 1) * PageSize \in Int
        BY <1>4, <1>5 DEF NInv, TimesInv, Now, RefreshRecords
    <2>2. Gapless(refresh[r])
        BY <1>5 DEF NInv, ListingInv
    <2> QED BY <1>1, <2>1, <2>2 DEF Gapless, PublishedAt
<1>6. ASSUME NEW from, NEW until \in Int, until <= Now, SpanListed(from, until)
      PROVE  \A i \in 1..published + 1 : Within(i, from, until) => i \in listed
    BY <1>1, <1>6 DEF SpanListed, Within, PublishedAt, Now
<1>7. ASSUME NEW r \in Refreshes, refresh[r].at = "put"
      PROVE  \A i \in 1..published + 1 : Within(i, refresh[r].from, refresh[r].asOf) => i \in refresh[r].seen
    <2>1. refresh[r].asOf \in Nat /\ refresh[r].asOf <= 2 * published + 1
        BY <1>4, <1>7 DEF NInv, TimesInv, Now, RefreshRecords
    <2> QED BY <1>1, <1>7, <2>1 DEF NInv, SpansInv, SpanSeen, Within, PublishedAt
<1>8. /\ coverage.until \in Int
      /\ \A r \in Refreshes : refresh[r].asOf \in Int /\ refresh[r].known.until \in Int
    BY <1>4 DEF NInv, NewsTypes, RefreshRecords, SpanRecords
<1>9. SpansInv'
    <2>1. \A i \in 1..published + 1 : Within(i, coverage.from, coverage.until) => i \in listed
        BY <1>6, <1>8 DEF NInv, TimesInv, SpansInv
    <2>2. ASSUME NEW r \in Refreshes
          PROVE  /\ refresh[r].at \in {"read", "record"} =>
                      \A i \in 1..published + 1 : Within(i, refresh[r].from, refresh[r].asOf) => i \in listed
                 /\ refresh[r].at = "record" =>
                      \A i \in 1..published + 1 :
                        Within(i, refresh[r].known.from, refresh[r].known.until) => i \in listed
        BY <1>6, <1>8 DEF NInv, TimesInv, SpansInv
    <2> QED BY <1>1, <1>7, <2>1, <2>2 DEF SpansInv, SpanListed, SpanSeen, Within, PublishedAt
<1> QED BY <1>1, <1>2, <1>3, <1>5, <1>9 DEF NInv, ListingInv

(* What the list ends with, at the oldest article or before it.              *)
LEMMA OldestIsSeen ==
  ASSUME NEW rec \in RefreshRecords, rec.seen # {}
  PROVE  \E i \in rec.seen : Oldest(rec) = PublishedAt(i)
<1>1. rec.seen \subseteq Nat
    BY DEF RefreshRecords
<1>2. \E i \in rec.seen : \A j \in rec.seen : i <= j
    BY <1>1, LeastNumber
<1> QED BY <1>2 DEF Oldest

LEMMA ListEnds ==
  ASSUME published \in Nat, NEW rec \in RefreshRecords, rec.seen \subseteq 1..published,
         Odd(rec.asOf), Gapless(rec),
         NEW from \in Nat, \/ from = 0 /\ rec.rows >= published
                           \/ Oldest(rec) <= from
  PROVE  \A i \in 1..published : from <= PublishedAt(i) /\ PublishedAt(i) <= rec.asOf => i \in rec.seen
<1> SUFFICES ASSUME NEW i \in 1..published, from <= PublishedAt(i), PublishedAt(i) <= rec.asOf
             PROVE  i \in rec.seen
    OBVIOUS
<1>1. rec.asOf \in Nat /\ rec.rows \in Nat /\ rec.page \in Nat \ {0}
    BY DEF RefreshRecords
<1>2. CASE from = 0 /\ rec.rows >= published
    <2>1. (rec.page - 1) * PageSize \in Int
        BY <1>1, NewsAssumption
    <2> QED BY <1>1, <1>2, <2>1 DEF Gapless
<1>3. CASE Oldest(rec) <= from /\ rec.seen # {}
    <2>1. PICK j \in rec.seen : Oldest(rec) = PublishedAt(j)
        BY <1>3, OldestIsSeen
    <2>2. j \in 1..published /\ j <= i
        BY <1>3, <2>1 DEF PublishedAt
    <2> QED BY <2>2 DEF Gapless
<1>4. CASE Oldest(rec) <= from /\ rec.seen = {}
    BY <1>1, <1>4 DEF Oldest, Odd, PublishedAt
<1> QED BY <1>2, <1>3, <1>4

LEMMA RefreshReads ==
  ASSUME NEW rec \in RefreshRecords, NEW seen \in SUBSET Nat, NEW rows \in Nat,
         NEW page \in Nat \ {0}
  PROVE  [rec EXCEPT !.seen = seen, !.rows = rows, !.page = page] \in RefreshRecords
BY DEF RefreshRecords

LEMMA PageIsRead ==
  ASSUME NInv, NEW r \in Refreshes, Listing(r), NEW rec,
         rec = [refresh[r] EXCEPT !.seen = @ \union Page(refresh[r].page),
                                  !.rows = @ + Cardinality(Page(refresh[r].page)), !.page = @ + 1]
  PROVE  /\ rec \in RefreshRecords /\ rec.seen \subseteq 1..published /\ rec.at = "listing"
         /\ rec.asOf = refresh[r].asOf /\ Gapless(rec)
<1> DEFINE was == refresh[r]
           page == Page(refresh[r].page)
<1>1. /\ was \in RefreshRecords /\ was.seen \subseteq 1..published /\ published \in Nat
      /\ was.page \in Nat \ {0} /\ was.rows \in Nat /\ was.asOf \in Nat
    <2>1. was \in RefreshRecords
        BY DEF NInv, NewsTypes
    <2> QED BY <2>1 DEF NInv, NewsTypes, RefreshRecords
<1>2. PICK n \in Nat : n = (was.page - 1) * PageSize
    BY <1>1, NewsAssumption
<1>3. was.page * PageSize = n + PageSize /\ PageSize \in Nat
    BY <1>1, <1>2, NewsAssumption
<1>4. page = {i \in 1..published : published - n - PageSize < i /\ i <= published - n}
    BY <1>1, <1>2, <1>3 DEF Page
<1>5. Cardinality(page) \in Nat /\ Cardinality(page) <= PageSize
    <2>1. page \subseteq (published - n - PageSize + 1)..(published - n)
        BY <1>1, <1>3, <1>4
    <2>2. PICK a \in Int, b \in Int : a = published - n - PageSize + 1 /\ b = published - n
        BY <1>1, <1>3
    <2>3. IsFiniteSet(a..b) /\ Cardinality(a..b) = IF a > b THEN 0 ELSE b - a + 1
        BY <2>2, FS_Interval
    <2>4. Cardinality(a..b) = PageSize
        BY <1>1, <1>3, <2>2, <2>3, NewsAssumption
    <2>5. page \subseteq a..b
        BY <2>1, <2>2
    <2> HIDE DEF page
    <2> QED BY <2>3, <2>4, <2>5, FS_Subset, FS_CardinalityType
<1>6. /\ rec.seen = was.seen \union page /\ rec.rows = was.rows + Cardinality(page)
      /\ rec.page = was.page + 1 /\ rec.at = "listing" /\ rec.asOf = was.asOf
    BY <1>1 DEF RefreshRecords, Listing
<1>7. rec \in RefreshRecords
    <2>1. was.seen \union page \in SUBSET Nat
        BY <1>1, <1>4
    <2>2. was.rows + Cardinality(page) \in Nat /\ was.page + 1 \in Nat \ {0}
        BY <1>1, <1>5
    <2> HIDE DEF page
    <2>3. rec = [was EXCEPT !.seen = was.seen \union page, !.rows = was.rows + Cardinality(page),
                            !.page = was.page + 1]
        BY DEF page
    <2> HIDE DEF was
    <2>4. [was EXCEPT !.seen = was.seen \union page, !.rows = was.rows + Cardinality(page),
                      !.page = was.page + 1] \in RefreshRecords
        BY <1>1, <2>1, <2>2, RefreshReads, Zenon
    <2> QED BY <2>3, <2>4, Zenon
<1>8. Gapless(was)
    BY DEF NInv, ListingInv, Listing
<1>9. (rec.page - 1) * PageSize = n + PageSize
    BY <1>1, <1>3, <1>6
<1>10. \A i \in 1..published : PublishedAt(i) <= rec.asOf =>
         /\ i > published - n - PageSize => i \in rec.seen
         /\ \A j \in rec.seen : j <= i => i \in rec.seen
    BY <1>1, <1>2, <1>3, <1>4, <1>6, <1>8 DEF Gapless
<1>11. Gapless(rec)
    <2>1. rec.rows <= n + PageSize
        BY <1>1, <1>2, <1>3, <1>5, <1>6, <1>8 DEF Gapless
    <2> QED BY <1>1, <1>3, <1>9, <1>10, <2>1 DEF Gapless
<1> QED BY <1>1, <1>4, <1>6, <1>7, <1>11

LEMMA ReadPageKeeps == ASSUME NInv, NEW r \in Refreshes, ReadPage(r) PROVE NInv'
<1> DEFINE rec == [refresh[r] EXCEPT !.seen = @ \union Page(refresh[r].page),
                                     !.rows = @ + Cardinality(Page(refresh[r].page)), !.page = @ + 1]
           reached == rec.seen # {} /\ Oldest(rec) <= r[2]
<1>0. /\ Listing(r) /\ UNCHANGED <<published, listed, coverage>> /\ r[2] \in Nat
      /\ published \in Nat
    BY NewsAssumption DEF ReadPage, Refreshes, NInv, NewsTypes
<1>1. /\ rec \in RefreshRecords /\ rec.seen \subseteq 1..published /\ rec.at = "listing"
      /\ rec.asOf = refresh[r].asOf /\ Gapless(rec)
    BY <1>0, PageIsRead
<1>2. UpdateRefresh(r, CASE rec.rows >= published -> StopListing(rec, Epoch)
                         [] rec.rows < published /\ reached -> StopListing(rec, r[2])
                         [] OTHER -> rec)
    BY DEF ReadPage
<1>3. rec.rows \in Nat
    BY <1>1 DEF RefreshRecords
<1>4. Odd(rec.asOf) /\ rec.asOf <= Now
    BY <1>0, <1>1 DEF NInv, TimesInv, Listing
<1> HIDE DEF rec
<1>5. ASSUME NEW from \in Nat, UpdateRefresh(r, StopListing(rec, from)),
             (from = 0 /\ rec.rows >= published) \/ Oldest(rec) <= from
      PROVE  NInv'
    <2>1. /\ SpanSeen(StopListing(rec, from)) /\ StopListing(rec, from) \in RefreshRecords
          /\ StopListing(rec, from).at = "put" /\ StopListing(rec, from).asOf = rec.asOf
          /\ StopListing(rec, from).seen = rec.seen
        <3>1. \A i \in 1..published :
                from <= PublishedAt(i) /\ PublishedAt(i) <= rec.asOf => i \in rec.seen
            BY <1>0, <1>1, <1>4, <1>5, ListEnds
        <3>2. /\ StopListing(rec, from).from = from /\ StopListing(rec, from).asOf = rec.asOf
              /\ StopListing(rec, from).seen = rec.seen /\ StopListing(rec, from).at = "put"
              /\ StopListing(rec, from) \in RefreshRecords
            BY <1>1 DEF StopListing, RefreshRecords
        <3> QED BY <3>1, <3>2 DEF SpanSeen, Within
    <2> QED BY <1>0, <1>1, <1>4, <1>5, <2>1, QuietRefresh
<1>6. CASE rec.rows >= published
    <2>1. UpdateRefresh(r, StopListing(rec, 0))
        BY <1>0, <1>2, <1>3, <1>6 DEF Epoch
    <2> QED BY <1>5, <1>6, <2>1
<1>7. CASE rec.rows < published /\ reached
    BY <1>0, <1>2, <1>3, <1>5, <1>7 DEF NInv, NewsTypes
<1>8. CASE rec.rows < published /\ ~reached
    <2>1. UpdateRefresh(r, rec)
        BY <1>0, <1>2, <1>3, <1>8
    <2> QED BY <1>0, <1>1, <1>4, <2>1, QuietRefresh
<1> QED BY <1>0, <1>3, <1>6, <1>7, <1>8

LEMMA ListingEndsKeeps ==
  ASSUME NInv, NEW r \in Refreshes, Interrupted(r) \/ RefreshFails(r)
  PROVE  NInv'
<1> DEFINE rec == refresh[r]
           stopped == StopListing(rec, Oldest(rec))
<1>1. /\ rec \in RefreshRecords /\ rec.seen \subseteq 1..published /\ published \in Nat
      /\ rec.at = "listing" /\ Gapless(rec) /\ Odd(rec.asOf) /\ rec.asOf <= Now
      /\ UNCHANGED <<published, listed, coverage>>
    BY DEF Interrupted, RefreshFails, Listing, NInv, NewsTypes, TimesInv, ListingInv
<1>2. CASE RefreshFails(r)
    BY <1>1, <1>2, NoRefreshTyped, QuietRefresh DEF RefreshFails
<1>3. CASE Interrupted(r)
    <2>1. Oldest(rec) \in Nat
        <3>1. CASE rec.seen = {}
            BY <1>1, <3>1 DEF Oldest, RefreshRecords
        <3>2. CASE rec.seen # {}
            BY <1>1, <3>2, OldestIsSeen DEF PublishedAt
        <3> QED BY <3>1, <3>2
    <2>2. \A i \in 1..published :
            Oldest(rec) <= PublishedAt(i) /\ PublishedAt(i) <= rec.asOf => i \in rec.seen
        BY <1>1, <2>1, ListEnds
    <2>3. /\ stopped.from = Oldest(rec) /\ stopped.asOf = rec.asOf /\ stopped.seen = rec.seen
          /\ stopped.at = "put" /\ stopped \in RefreshRecords
        BY <1>1, <2>1 DEF StopListing, RefreshRecords
    <2>4. SpanSeen(stopped)
        BY <2>2, <2>3 DEF SpanSeen, Within
    <2>5. UpdateRefresh(r, stopped)
        BY <1>3 DEF Interrupted
    <2> HIDE DEF stopped
    <2> QED BY <1>1, <2>3, <2>4, <2>5, QuietRefresh
<1> QED BY <1>2, <1>3

LEMMA PutListingKeeps == ASSUME NInv, NEW r \in Refreshes, PutListing(r) PROVE NInv'
<1> DEFINE rec == [refresh[r] EXCEPT !.at = "read"]
<1>1. /\ refresh[r] \in RefreshRecords /\ refresh[r].seen \subseteq 1..published
      /\ refresh[r].at = "put" /\ SpanSeen(refresh[r])
      /\ Odd(refresh[r].asOf) /\ refresh[r].asOf <= Now
    BY DEF PutListing, NInv, NewsTypes, TimesInv, SpansInv
<1>2. /\ rec \in RefreshRecords /\ rec.at = "read" /\ rec.seen = refresh[r].seen
      /\ rec.from = refresh[r].from /\ rec.asOf = refresh[r].asOf
    BY <1>1 DEF RefreshRecords
<1>3. /\ UpdateRefresh(r, rec) /\ listed' = listed \union rec.seen
      /\ UNCHANGED <<published, coverage>>
    BY <1>2 DEF PutListing
<1>4. \A i \in 1..published : Within(i, rec.from, rec.asOf) => i \in listed'
    BY <1>1, <1>2, <1>3 DEF SpanSeen
<1>5. /\ coverage' \in SpanRecords /\ coverage'.until <= Now
      /\ listed \subseteq listed' /\ listed' \subseteq 1..published
      /\ \A i \in 1..published : Within(i, coverage'.from, coverage'.until) => i \in listed'
    BY <1>1, <1>2, <1>3 DEF NInv, NewsTypes, TimesInv, SpansInv, SpanListed
<1> HIDE DEF rec
<1> QED BY <1>1, <1>2, <1>3, <1>4, <1>5, OneRefresh

LEMMA ReadCoverageKeeps == ASSUME NInv, NEW r \in Refreshes, ReadCoverage(r) PROVE NInv'
<1> DEFINE rec == [refresh[r] EXCEPT !.at = "record", !.known = coverage]
<1>1. /\ refresh[r] \in RefreshRecords /\ refresh[r].seen \subseteq 1..published
      /\ refresh[r].at = "read" /\ SpanListed(refresh[r].from, refresh[r].asOf)
      /\ Odd(refresh[r].asOf) /\ refresh[r].asOf <= Now
      /\ coverage \in SpanRecords /\ coverage.until <= Now /\ SpanListed(coverage.from, coverage.until)
    BY DEF ReadCoverage, NInv, NewsTypes, TimesInv, SpansInv
<1>2. /\ rec \in RefreshRecords /\ rec.at = "record" /\ rec.seen = refresh[r].seen
      /\ rec.from = refresh[r].from /\ rec.asOf = refresh[r].asOf /\ rec.known = coverage
    BY <1>1 DEF RefreshRecords
<1>3. UpdateRefresh(r, rec) /\ UNCHANGED <<published, listed, coverage>>
    BY DEF ReadCoverage
<1> HIDE DEF rec
<1> QED BY <1>1, <1>2, <1>3, QuietRefresh

LEMMA RecordCoverageKeeps == ASSUME NInv, NEW r \in Refreshes, RecordCoverage(r) PROVE NInv'
<1> DEFINE rec == refresh[r]
           joined == Joined(rec.known, rec.from, rec.asOf)
<1>1. /\ rec \in RefreshRecords /\ rec.at = "record" /\ SpanListed(rec.from, rec.asOf)
      /\ rec.asOf <= Now /\ SpanListed(rec.known.from, rec.known.until)
      /\ listed \subseteq 1..published /\ published \in Nat
    BY DEF RecordCoverage, NInv, NewsTypes, TimesInv, SpansInv
<1>2. /\ rec.from \in Nat /\ rec.asOf \in Nat /\ rec.known \in SpanRecords
      /\ rec.known.from \in Nat /\ rec.known.until \in Int
    BY <1>1 DEF RefreshRecords, SpanRecords
<1> HIDE DEF rec
<1>3. joined \in SpanRecords /\ joined.until = rec.asOf
      /\ (joined.from = rec.from \/ (joined.from = rec.known.from /\ rec.from <= rec.known.until))
    BY <1>2 DEF Joined, SpanRecords
<1> HIDE DEF joined
<1>4. \A i \in 1..published : Within(i, joined.from, joined.until) => i \in listed
    BY <1>1, <1>2, <1>3 DEF SpanListed, Within, PublishedAt
<1>5. /\ coverage' = joined /\ UpdateRefresh(r, NoRefresh) /\ UNCHANGED <<published, listed>>
    BY DEF RecordCoverage, rec, joined
<1> QED BY <1>1, <1>3, <1>4, <1>5, NoRefreshTyped, OneRefresh

LEMMA SearchKeeps ==
  ASSUME NInv, NEW r \in Refreshes, NEW until, Search(r, until)
  PROVE  NInv'
<1> DEFINE rec == [NoRefresh EXCEPT !.at = "listing", !.asOf = Now]
<1>0. published \in Nat /\ Now = 2 * published + 1 /\ PageSize \in Nat
    BY NewsAssumption DEF NInv, NewsTypes, Now
<1>1. /\ rec \in RefreshRecords /\ rec.at = "listing" /\ rec.asOf = Now /\ rec.seen = {}
      /\ rec.page = 1 /\ rec.rows = 0
    <2>1. Now \in Nat
        BY <1>0
    <2>2. rec \in RefreshRecords
        BY <2>1, NoRefreshTyped DEF RefreshRecords
    <2> QED BY <2>2 DEF NoRefresh
<1>2. UpdateRefresh(r, rec) /\ UNCHANGED <<published, listed, coverage>>
    BY DEF Search
<1> HIDE DEF rec
<1>3. Gapless(rec) /\ Odd(rec.asOf) /\ rec.asOf <= Now
    BY <1>0, <1>1 DEF Gapless, Odd
<1> QED BY <1>1, <1>2, <1>3, QuietRefresh

LEMMA NewsStep == NInv /\ [NewsNext]_newsCacheVars => NInv'
<1> SUFFICES ASSUME NInv, [NewsNext]_newsCacheVars PROVE NInv'
    OBVIOUS
<1>1. CASE UNCHANGED newsCacheVars
    BY <1>1 DEF newsCacheVars, NInv, NewsTypes, TimesInv, ListingInv, SpansInv, SpanListed, SpanSeen,
                Gapless, Now
<1>2. CASE NewsNext
    BY <1>2, PublishKeeps, ReadPageKeeps, ListingEndsKeeps, PutListingKeeps, ReadCoverageKeeps,
       RecordCoverageKeeps, SearchKeeps DEF NewsNext, RefreshStep
<1> QED BY <1>1, <1>2

(* The span the database claims to cover is covered: every article of it has *)
(* a row, whatever was published while the list was read, wherever a list    *)
(* was cut short, and however refreshes of several processes interleave      *)
(* (news/collect/vietstock.py, cache.py).                                    *)
THEOREM CoverageIsTrue == NewsSpec => []CoverageIsListed
<1>1. NInv => CoverageIsListed
    BY DEF NInv, SpansInv, SpanListed, CoverageIsListed
<1> QED BY <1>1, NewsInitial, NewsStep, PTL DEF NewsSpec

-----------------------------------------------------------------------------
(* The synthesizer's choice.  Every choice is between three decisions at     *)
(* most (WrittenInv), and of two usable ones exactly one is to be preferred, *)
(* so one of three is preferred to both others.                              *)

WrittenInv ==
  /\ written \in Seq(Decisions) /\ Len(written) <= 3
  /\ synth \in {"invoke", "structured", "plain", "judge", "done"}
  /\ synth \in {"invoke", "structured", "plain"} => Len(written) <= 2
  /\ synth = "judge" => Len(written) >= 1

SInv == WrittenInv /\ BestAnswerIsKept

LEMMA DecisionCounts ==
  ASSUME NEW d \in Decisions
  PROVE  d.critical \in Nat /\ d.aspects \in Nat /\ d.layout \in Nat
BY SynthAssumption DEF Decisions, Counts

(* What `Choose` looks for: no candidate better, and better than any newer.  *)
Preferred(i, j) == ~Better(written[j], written[i]) /\ (j > i => Better(written[i], written[j]))

LEMMA PreferenceIsTotal ==
  ASSUME WrittenInv, NEW i \in DOMAIN written, NEW j \in DOMAIN written, i # j
  PROVE  Preferred(i, j) \/ Preferred(j, i)
<1>1. /\ written[i] \in Decisions /\ written[j] \in Decisions /\ i \in Nat /\ j \in Nat
    BY DEF WrittenInv
<1> QED BY <1>1, DecisionCounts DEF Preferred, Better

LEMMA PreferenceIsTransitive ==
  ASSUME WrittenInv, NEW i \in DOMAIN written, NEW j \in DOMAIN written, NEW k \in DOMAIN written,
         Preferred(i, j), Preferred(j, k), i # j, j # k, i # k
  PROVE  Preferred(i, k)
<1>1. /\ written[i] \in Decisions /\ written[j] \in Decisions /\ written[k] \in Decisions
      /\ i \in Nat /\ j \in Nat /\ k \in Nat
    BY DEF WrittenInv
<1> QED BY <1>1, DecisionCounts DEF Preferred, Better

LEMMA SomeIsPreferred ==
  ASSUME WrittenInv, Candidates # {}
  PROVE  \E i \in Candidates : \A j \in Candidates \ {i} : Preferred(i, j)
<1>1. Candidates \subseteq DOMAIN written /\ Candidates \subseteq {1, 2, 3}
    BY DEF WrittenInv, Candidates
<1>2. \A i, j \in Candidates : i # j => Preferred(i, j) \/ Preferred(j, i)
    BY <1>1, PreferenceIsTotal
<1>3. \A i, j, k \in Candidates :
        Preferred(i, j) /\ Preferred(j, k) /\ i # j /\ j # k /\ i # k => Preferred(i, k)
    BY <1>1, PreferenceIsTransitive
<1>4. PICK i \in Candidates : TRUE
    OBVIOUS
<1>5. PICK j \in Candidates : j = i \/ Preferred(j, i)
    BY <1>4
<1> HIDE DEF Candidates
<1>6. SUFFICES ASSUME \A p \in Candidates : \E q \in Candidates \ {p} : ~Preferred(p, q)
               PROVE  FALSE
    OBVIOUS
<1>7. \A p \in Candidates : \E q \in Candidates \ {p} : Preferred(q, p)
    BY <1>2, <1>6
<1>8. PICK b \in Candidates \ {i} : Preferred(b, i)
    BY <1>4, <1>7
<1>9. PICK c \in Candidates \ {b} : Preferred(c, b)
    BY <1>7, <1>8
<1>10. PICK d \in Candidates \ {c} : Preferred(d, c)
    BY <1>7, <1>9
<1> QED BY <1>1, <1>2, <1>3, <1>6, <1>8, <1>9, <1>10

LEMMA ChooseKeeps == ASSUME SInv, Choose PROVE SInv'
<1>1. WrittenInv'
    BY DEF SInv, WrittenInv, Choose
<1>2. ASSUME NEW i \in DOMAIN written, written[i].usable
      PROVE  /\ written[accepted'].usable
             /\ written[accepted'].critical <= written[i].critical
             /\ written[accepted'].critical = written[i].critical
                  => written[accepted'].aspects <= written[i].aspects
    <2>1. i \in Candidates
        BY <1>2 DEF Candidates
    <2>2. accepted' = CHOOSE c \in Candidates :
                        \A j \in Candidates \ {c} :
                          /\ ~Better(written[j], written[c])
                          /\ j > c => Better(written[c], written[j])
        BY <2>1 DEF Choose
    <2>3. accepted' \in Candidates /\ \A j \in Candidates \ {accepted'} : ~Better(written[j], written[accepted'])
        BY <2>1, <2>2, SomeIsPreferred DEF SInv, Preferred
    <2>4. /\ accepted' \in DOMAIN written /\ written[accepted'].usable
          /\ i = accepted' \/ ~Better(written[i], written[accepted'])
        BY <2>1, <2>3 DEF Candidates
    <2>5. written[accepted'] \in Decisions /\ written[i] \in Decisions
        BY <2>4 DEF SInv, WrittenInv
    <2>6. /\ written[accepted'].critical \in Nat /\ written[accepted'].aspects \in Nat
          /\ written[i].critical \in Nat /\ written[i].aspects \in Nat
        BY <2>5, DecisionCounts
    <2> QED BY <2>4, <2>6 DEF Better
<1>3. BestAnswerIsKept'
    BY <1>2 DEF BestAnswerIsKept, Choose
<1> QED BY <1>1, <1>3 DEF SInv

LEMMA AcceptInitialKeeps == ASSUME SInv, AcceptInitial PROVE SInv'
<1>1. WrittenInv' /\ DOMAIN written = {1} /\ accepted' = 1 /\ UNCHANGED written
    BY DEF SInv, WrittenInv, AcceptInitial
<1>2. written[1].critical \in Nat /\ written[1].aspects \in Nat
    BY <1>1, DecisionCounts DEF SInv, WrittenInv
<1>3. BestAnswerIsKept'
    BY <1>1, <1>2 DEF BestAnswerIsKept
<1> QED BY <1>1, <1>3 DEF SInv

LEMMA SynthInitial == SynthInit => SInv
BY DEF SynthInit, SInv, WrittenInv, BestAnswerIsKept

LEMMA SynthStep == SInv /\ [SynthNext]_synthVars => SInv'
<1> SUFFICES ASSUME SInv, [SynthNext]_synthVars PROVE SInv'
    OBVIOUS
<1>1. CASE UNCHANGED synthVars
    BY <1>1 DEF synthVars, SInv, WrittenInv, BestAnswerIsKept
<1>2. CASE StructuredReply \/ PlainReply \/ RequestFails
    <2>1. PICK d \in Decisions : written' = Append(written, d)
        BY <1>2 DEF StructuredReply, PlainReply, RequestFails
    <2>2. synth \in {"structured", "plain"} /\ synth' = "judge"
        BY <1>2 DEF StructuredReply, PlainReply, RequestFails, Requested
    <2> QED BY <2>1, <2>2 DEF SInv, WrittenInv, BestAnswerIsKept
<1>3. CASE Invoke \/ StructuredRefused \/ OthersLearn
    <2>1. UNCHANGED written /\ synth' # "done"
        BY <1>3 DEF Invoke, StructuredRefused, OthersLearn, Requested
    <2>2. WrittenInv'
        BY <1>3 DEF Invoke, StructuredRefused, OthersLearn, Requested, SInv, WrittenInv
    <2> QED BY <2>1, <2>2 DEF SInv, BestAnswerIsKept
<1>4. CASE Repair
    <2>1. UNCHANGED written /\ synth' = "invoke" /\ (Len(written) = 1 \/ Len(written) = 2)
        BY <1>4, Zenon DEF Repair, AspectRegression
    <2>2. WrittenInv'
        <3>0. written \in Seq(Decisions)
            BY DEF SInv, WrittenInv
        <3>1. Len(written) <= 2
            BY <2>1
        <3>2. /\ written' \in Seq(Decisions) /\ Len(written') <= 2 /\ Len(written') <= 3
              /\ synth' = "invoke"
            BY <2>1, <3>0, <3>1
        <3> QED BY <3>2 DEF WrittenInv
    <2>3. BestAnswerIsKept'
        BY <2>1 DEF BestAnswerIsKept
    <2> QED BY <2>2, <2>3 DEF SInv
<1> QED BY <1>1, <1>2, <1>3, <1>4, ChooseKeeps, AcceptInitialKeeps DEF SynthNext

(* A repair never makes the answer worse: whichever calls failed and however *)
(* many repairs were made, the decision the synthesizer goes on with is      *)
(* usable if any was, and no usable one had fewer wrong or falsely missing   *)
(* claims, or as few and more of the required sections                       *)
(* (agents/synth_runner.py).                                                 *)
THEOREM RepairsNeverLose == SynthSpec => []BestAnswerIsKept
<1>1. SInv => BestAnswerIsKept
    BY DEF SInv
<1> QED BY <1>1, SynthInitial, SynthStep, PTL DEF SynthSpec

-----------------------------------------------------------------------------
(* Storage migration.  What the migration copied of an item that cannot      *)
(* change under it is the item as it is (CopiesInv); when the record is due, *)
(* all that was planned is copied, and nothing else is there (PlanInv).      *)

MigrationTypes ==
  /\ old \in [Items -> Nat] /\ copy \in [Items -> Nat] /\ noted \in [Items -> Nat]
  /\ lock \in [Locks -> {"none", "free", "old", "migration"}]
  /\ run \in [phase : {"idle", "plan", "copy", "verify", "check", "record"},
              plan : SUBSET Items, frozen : SUBSET Databases, checked : SUBSET Items]

Copying == run.phase \in {"copy", "verify", "check", "record"}

CopyOK(i) ==
  /\ noted[i] # Absent => copy[i] # Absent
  /\ copy[i] # Absent => i \in run.plan
  /\ HeldStill(i) => copy[i] \in {Absent, old[i]}

CopiesInv ==
  /\ run.phase = "plan" => copy = NothingCopied
  /\ Copying => \A i \in Items : CopyOK(i)

PlanInv ==
  /\ run.phase \in {"verify", "check", "record"} => \A i \in run.plan : noted[i] # Absent
  /\ run.phase = "record" => \A i \in Items \ run.plan : HeldStill(i) => old[i] = Absent

MInv == MigrationTypes /\ CopiesInv /\ PlanInv

LEMMA MigrationInitial == MigrationInit => MInv
BY DEF MigrationInit, MInv, MigrationTypes, NoRun, NothingCopied, Absent, CopiesInv, PlanInv,
       Copying

(* An old process takes or leaves a lock file the migration does not hold.   *)
LEMMA OldLocksKeep ==
  ASSUME MInv, NEW l \in Locks, TakeLock(l) \/ LeaveLock(l)
  PROVE  MInv'
<1>1. /\ lock[l] # "migration" /\ UNCHANGED <<old, copy, noted, run, record>>
      /\ \E s \in {"old", "free"} : lock' = [lock EXCEPT ![l] = s]
    BY DEF TakeLock, LeaveLock
<1>2. MigrationTypes'
    BY <1>1 DEF MInv, MigrationTypes
<1>3. \A m \in Locks : lock'[m] = "migration" <=> lock[m] = "migration"
    BY <1>1 DEF MInv, MigrationTypes
<1>4. ASSUME NEW i \in Items PROVE HeldStill(i)' <=> HeldStill(i)
    BY <1>1, <1>3, MigrationAssumption DEF HeldStill, Items
<1>5. CopiesInv'
    BY <1>1, <1>4 DEF MInv, CopiesInv, Copying, CopyOK
<1>6. PlanInv'
    BY <1>1, <1>4 DEF MInv, PlanInv, MigrationTypes
<1> QED BY <1>2, <1>5, <1>6 DEF MInv

(* What may change under the migration is not held still.                    *)
LEMMA OldWritesKeep ==
  ASSUME MInv, NEW j \in Items, Changed(j), ~HeldStill(j),
         UNCHANGED <<lock, copy, noted, run, record>>
  PROVE  MInv'
<1>0. PICK v \in Contents : old' = [old EXCEPT ![j] = v]
    BY DEF Changed
<1>1. v \in Nat /\ old' = [old EXCEPT ![j] = v]
    BY <1>0, MigrationAssumption DEF Contents, Absent
<1>2. MigrationTypes'
    BY <1>1 DEF MInv, MigrationTypes
<1>3. ASSUME NEW i \in Items PROVE HeldStill(i)' <=> HeldStill(i)
    BY DEF HeldStill
<1>4. ASSUME NEW i \in Items, HeldStill(i) PROVE old'[i] = old[i]
    BY <1>1, <1>4 DEF MInv, MigrationTypes
<1>5. CopiesInv'
    BY <1>3, <1>4 DEF MInv, CopiesInv, Copying, CopyOK
<1>6. PlanInv'
    BY <1>3, <1>4 DEF MInv, PlanInv
<1> QED BY <1>2, <1>5, <1>6 DEF MInv

LEMMA WriteFileKeeps ==
  ASSUME MInv, NEW f \in Files, WriteFile(f)
  PROVE  MInv'
<1>1. f \in Items /\ ~HeldStill(f)
    BY MigrationAssumption DEF Items, HeldStill, WriteFile
<1> QED BY <1>1, OldWritesKeep DEF WriteFile

LEMMA CommitKeeps ==
  ASSUME MInv, NEW d \in Databases, Commit(d)
  PROVE  MInv'
<1>1. d \in Items /\ ~HeldStill(d)
    BY DEF Items, HeldStill, Commit
<1> QED BY <1>1, OldWritesKeep DEF Commit

LEMMA BuildPlanKeeps ==
  ASSUME MInv, BuildPlan
  PROVE  MInv'
<1>1. /\ run' = [phase |-> "plan", plan |-> Exists, frozen |-> {}, checked |-> {}]
      /\ copy = NothingCopied /\ UNCHANGED <<old, lock, copy, noted, record>>
    BY DEF BuildPlan, NoRun
<1>2. Exists \subseteq Items
    BY DEF Exists
<1> QED BY <1>1, <1>2 DEF MInv, MigrationTypes, CopiesInv, PlanInv, Copying, NothingCopied

LEMMA FreezeKeeps ==
  ASSUME MInv, FreezeOldStore
  PROVE  MInv'
<1>1. /\ run' = [run EXCEPT !.phase = "copy", !.frozen = run.plan \intersect Databases]
      /\ noted' = NothingCopied /\ UNCHANGED <<old, copy, record>>
      /\ lock' = [l \in Locks |-> IF lock[l] = "free" THEN "migration" ELSE lock[l]]
      /\ copy = NothingCopied
    BY DEF FreezeOldStore, MInv, CopiesInv
<1>2. MigrationTypes'
    BY <1>1 DEF MInv, MigrationTypes, NothingCopied, Absent
<1>3. run'.phase = "copy"
    BY <1>1 DEF MInv, MigrationTypes
<1>4. ASSUME NEW i \in Items PROVE CopyOK(i)'
    BY <1>1 DEF CopyOK, NothingCopied, Absent
<1> QED BY <1>2, <1>3, <1>4 DEF MInv, CopiesInv, PlanInv, Copying

LEMMA CopyItemKeeps ==
  ASSUME MInv, NEW j \in Items, CopyItem(j)
  PROVE  MInv'
<1>1. /\ run.phase = "copy" /\ j \in run.plan /\ old[j] # Absent
      /\ copy' = [copy EXCEPT ![j] = old[j]]
      /\ noted' = noted \/ noted' = [noted EXCEPT ![j] = old[j]]
      /\ UNCHANGED <<old, lock, run, record>>
    BY DEF CopyItem, Exists
<1>2. MigrationTypes'
    BY <1>1 DEF MInv, MigrationTypes
<1>3. ASSUME NEW i \in Items PROVE CopyOK(i)'
  <2>1. CopyOK(i) /\ (HeldStill(i)' <=> HeldStill(i))
    BY <1>1 DEF MInv, CopiesInv, Copying, HeldStill
  <2>2. CASE i = j
    BY <1>1, <2>2 DEF CopyOK, MInv, MigrationTypes
  <2>3. CASE i # j
    BY <1>1, <2>1, <2>3 DEF CopyOK, MInv, MigrationTypes
  <2> QED BY <2>2, <2>3
<1> QED BY <1>1, <1>2, <1>3 DEF MInv, CopiesInv, PlanInv

LEMMA NoteFileKeeps ==
  ASSUME MInv, NEW f \in Files, NoteFile(f)
  PROVE  MInv'
<1>1. /\ run.phase = "copy" /\ copy[f] # Absent /\ f \in Items
      /\ noted' = [noted EXCEPT ![f] = old[f]]
      /\ UNCHANGED <<old, lock, copy, run, record>>
    BY DEF NoteFile, Items
<1>2. MigrationTypes'
    BY <1>1 DEF MInv, MigrationTypes
<1>3. ASSUME NEW i \in Items PROVE CopyOK(i)'
  <2>1. CopyOK(i) /\ (HeldStill(i)' <=> HeldStill(i))
    BY <1>1 DEF MInv, CopiesInv, Copying, HeldStill
  <2> QED BY <1>1, <2>1 DEF CopyOK, MInv, MigrationTypes
<1> QED BY <1>1, <1>2, <1>3 DEF MInv, CopiesInv, PlanInv

(* A step to the next phase, over what has been copied.                      *)
LEMMA PhasesKeep ==
  ASSUME MInv, CopyEnds \/ VerifyWithAppCode
  PROVE  MInv'
<1>1. /\ \/ /\ run.phase = "copy" /\ run'.phase = "verify"
            /\ \A i \in run.plan : noted[i] # Absent
         \/ run.phase = "verify" /\ run'.phase = "check"
      /\ run'.plan = run.plan /\ run'.frozen = run.frozen /\ run'.checked = run.checked
      /\ UNCHANGED <<old, lock, copy, noted, record>>
    BY DEF CopyEnds, VerifyWithAppCode, Phase, MInv, MigrationTypes
<1>2. MigrationTypes'
    BY DEF CopyEnds, VerifyWithAppCode, Phase, MInv, MigrationTypes
<1>3. ASSUME NEW i \in Items PROVE CopyOK(i)'
    BY <1>1 DEF MInv, CopiesInv, Copying, HeldStill, CopyOK
<1> QED BY <1>1, <1>2, <1>3 DEF MInv, CopiesInv, PlanInv, Copying

LEMMA CheckUnchangedKeeps ==
  ASSUME MInv, NEW j \in Items, CheckUnchanged(j)
  PROVE  MInv'
<1>1. /\ run.phase = "check" /\ run'.phase = "check"
      /\ run'.plan = run.plan /\ run'.frozen = run.frozen
      /\ UNCHANGED <<old, lock, copy, noted, record>>
    BY DEF CheckUnchanged, MInv, MigrationTypes
<1>2. MigrationTypes'
    BY DEF CheckUnchanged, MInv, MigrationTypes
<1>3. ASSUME NEW i \in Items PROVE CopyOK(i)'
    BY <1>1 DEF MInv, CopiesInv, Copying, HeldStill, CopyOK
<1> QED BY <1>1, <1>2, <1>3 DEF MInv, CopiesInv, PlanInv, Copying

LEMMA CheckNewFilesKeeps ==
  ASSUME MInv, CheckNewFiles
  PROVE  MInv'
<1>1. /\ run.phase = "check" /\ run'.phase = "record" /\ Exists \subseteq run.plan
      /\ run'.plan = run.plan /\ run'.frozen = run.frozen
      /\ UNCHANGED <<old, lock, copy, noted, record>>
    BY DEF CheckNewFiles, Phase, MInv, MigrationTypes
<1>2. MigrationTypes'
    BY DEF CheckNewFiles, Phase, MInv, MigrationTypes
<1>3. ASSUME NEW i \in Items PROVE CopyOK(i)'
    BY <1>1 DEF MInv, CopiesInv, Copying, HeldStill, CopyOK
<1>4. ASSUME NEW i \in Items \ run.plan PROVE old[i] = Absent
    BY <1>1 DEF Exists
<1> QED BY <1>1, <1>2, <1>3, <1>4 DEF MInv, CopiesInv, PlanInv, Copying

LEMMA EndsKeep ==
  ASSUME MInv, WriteRecord \/ MigrationEnds
  PROVE  MInv'
<1>1. run' = NoRun /\ lock' = Released /\ UNCHANGED <<old, copy, noted>>
    BY DEF WriteRecord, MigrationEnds
<1> QED BY <1>1 DEF MInv, MigrationTypes, CopiesInv, PlanInv, Copying, NoRun, Released

LEMMA MoveLeftoversKeeps ==
  ASSUME MInv, MoveLeftovers
  PROVE  MInv'
BY DEF MoveLeftovers, MInv, MigrationTypes, CopiesInv, PlanInv, Copying, NothingCopied, Absent

LEMMA MigrationStep == MInv /\ [MigrationNext]_migrationVars => MInv'
<1> SUFFICES ASSUME MInv, [MigrationNext]_migrationVars PROVE MInv'
    OBVIOUS
<1>1. CASE UNCHANGED migrationVars
    BY <1>1 DEF migrationVars, MInv, MigrationTypes, CopiesInv, PlanInv, Copying, CopyOK, HeldStill
<1>2. CASE MigrationNext
    BY <1>2, OldLocksKeep, WriteFileKeeps, NoteFileKeeps, CommitKeeps, CopyItemKeeps,
       CheckUnchangedKeeps, BuildPlanKeeps, FreezeKeeps, PhasesKeep, CheckNewFilesKeeps, EndsKeep,
       MoveLeftoversKeeps DEF MigrationNext
<1> QED BY <1>1, <1>2

(* Whatever programs of the old layout write, and however often a run was    *)
(* killed: the record that lets the app start is written over a copy that is *)
(* the old store, item for item, as far as anything holds it still           *)
(* (datasets/storage_migration.py).                                          *)
THEOREM RecordIsOverACopy == MigrationSpec => RecordIsFaithful
<1>1. ASSUME MInv, MigrationNext, record' # record, NEW i \in Items, HeldStill(i)
      PROVE  copy[i] = old[i]
  <2>1. run.phase = "record"
    BY <1>1 DEF MigrationNext, TakeLock, LeaveLock, WriteFile, NoteFile, Commit, CopyItem,
          CheckUnchanged, BuildPlan, FreezeOldStore, CopyEnds, VerifyWithAppCode, CheckNewFiles,
          WriteRecord, MigrationEnds, MoveLeftovers
  <2>2. CopyOK(i)
    BY <1>1, <2>1 DEF MInv, CopiesInv, Copying
  <2>3. CASE i \in run.plan
    BY <1>1, <2>1, <2>2, <2>3 DEF MInv, PlanInv, CopyOK
  <2>4. CASE i \notin run.plan
    BY <1>1, <2>1, <2>2, <2>4 DEF MInv, PlanInv, CopyOK
  <2> QED BY <2>3, <2>4
<1>2. MInv /\ [MigrationNext]_migrationVars =>
        [record' # record => \A i \in Items : HeldStill(i) => copy[i] = old[i]]_migrationVars
    BY <1>1
<1> QED BY <1>2, MigrationInitial, MigrationStep, PTL DEF MigrationSpec, RecordIsFaithful

-----------------------------------------------------------------------------
(* The evidence cache: the keys of a part of it, and of two parts put         *)
(* together.                                                                 *)
LEMMA PartKeys ==
  ASSUME NEW c \in Seq(Keys), NEW m \in 1..(Len(c) + 1), NEW n \in 0..Len(c)
  PROVE  SubSeq(c, m, n) \in Seq(Keys) /\ ToSet(SubSeq(c, m, n)) \subseteq ToSet(c)
<1>1. SubSeq(c, m, n) \in Seq(Keys)
    OBVIOUS
<1>2. ASSUME NEW j \in DOMAIN SubSeq(c, m, n)
      PROVE  \E i \in DOMAIN c : SubSeq(c, m, n)[j] = c[i]
  <2>1. m + j - 1 \in DOMAIN c /\ SubSeq(c, m, n)[j] = c[m + j - 1]
      OBVIOUS
  <2> QED BY <2>1
<1> QED BY <1>1, <1>2 DEF ToSet

LEMMA JoinedKeys ==
  ASSUME NEW a \in Seq(Keys), NEW b \in Seq(Keys)
  PROVE  a \o b \in Seq(Keys) /\ ToSet(a \o b) \subseteq ToSet(a) \union ToSet(b)
<1>1. a \o b \in Seq(Keys)
    OBVIOUS
<1>2. ASSUME NEW j \in DOMAIN (a \o b)
      PROVE  (a \o b)[j] \in ToSet(a) \union ToSet(b)
  <2>1. CASE j <= Len(a)
    <3>1. j \in DOMAIN a /\ (a \o b)[j] = a[j]
        BY <2>1
    <3> QED BY <3>1 DEF ToSet
  <2>2. CASE ~ (j <= Len(a))
    <3>1. j - Len(a) \in DOMAIN b /\ (a \o b)[j] = b[j - Len(a)]
        BY <2>2
    <3> QED BY <3>1 DEF ToSet
  <2> QED BY <2>1, <2>2
<1>3. ASSUME NEW x \in ToSet(a \o b) PROVE x \in ToSet(a) \union ToSet(b)
    BY <1>2 DEF ToSet
<1> QED BY <1>1, <1>3

(* Removing an entry, using it, storing it.                                  *)
LEMMA RemovedKeys ==
  ASSUME NEW c \in Seq(Keys), NEW k \in Keys
  PROVE  /\ RemoveFirst(c, k) \in Seq(Keys)
         /\ ToSet(RemoveFirst(c, k)) \subseteq ToSet(c)
<1>1. CASE \E i \in 1..Len(c) : c[i] = k
  <2> DEFINE I == {i \in 1..Len(c) : c[i] = k}
  <2>1. PICK i \in I : \A j \in I : i <= j
    <3>1. I \subseteq Nat /\ I # {}
        BY <1>1
    <3> HIDE DEF I
    <3> QED BY <3>1, LeastNumber
  <2>2. Min(I) \in I
    <3> HIDE DEF I
    <3> QED BY <2>1 DEF Min
  <2>3. PICK m \in 1..Len(c) : RemoveFirst(c, k) = RemoveAt(c, m)
      BY <1>1, <2>2 DEF RemoveFirst, SelectInSeq
  <2> DEFINE before == SubSeq(c, 1, m - 1)
             after == SubSeq(c, m + 1, Len(c))
  <2>4. before \in Seq(Keys) /\ ToSet(before) \subseteq ToSet(c)
    <3>1. 1 \in 1..(Len(c) + 1) /\ m - 1 \in 0..Len(c)
        OBVIOUS
    <3> QED BY <3>1, PartKeys
  <2>5. after \in Seq(Keys) /\ ToSet(after) \subseteq ToSet(c)
    <3>1. m + 1 \in 1..(Len(c) + 1) /\ Len(c) \in 0..Len(c)
        OBVIOUS
    <3> QED BY <3>1, PartKeys
  <2>6. RemoveAt(c, m) = before \o after
      BY DEF RemoveAt
  <2> HIDE DEF before, after
  <2>7. before \o after \in Seq(Keys) /\ ToSet(before \o after) \subseteq ToSet(c)
      BY <2>4, <2>5, JoinedKeys
  <2> QED BY <2>3, <2>6, <2>7
<1>2. CASE ~ \E i \in 1..Len(c) : c[i] = k
    BY <1>2 DEF RemoveFirst
<1> QED BY <1>1, <1>2

LEMMA AppendedKeys ==
  ASSUME NEW c \in Seq(Keys), NEW k \in Keys
  PROVE  /\ Append(c, k) \in Seq(Keys)
         /\ ToSet(Append(c, k)) = ToSet(c) \union {k}
<1>1. /\ Append(c, k) \in Seq(Keys) /\ DOMAIN Append(c, k) = 1..(Len(c) + 1)
      /\ Append(c, k)[Len(c) + 1] = k
      /\ \A i \in 1..Len(c) : Append(c, k)[i] = c[i]
    OBVIOUS
<1>2. DOMAIN c = 1..Len(c) /\ Len(c) \in Nat
    OBVIOUS
<1>3. ToSet(Append(c, k)) \subseteq ToSet(c) \union {k}
    BY <1>1, <1>2 DEF ToSet
<1>4. ToSet(c) \union {k} \subseteq ToSet(Append(c, k))
    BY <1>1, <1>2 DEF ToSet
<1> QED BY <1>1, <1>3, <1>4

LEMMA TouchedKeys ==
  ASSUME NEW c \in Seq(Keys), NEW k \in Keys
  PROVE  /\ Touched(c, k) \in Seq(Keys)
         /\ ToSet(Touched(c, k)) \subseteq ToSet(c)
<1>1. CASE k \in ToSet(c)
    BY <1>1, RemovedKeys, AppendedKeys DEF Touched
<1>2. CASE k \notin ToSet(c)
    BY <1>2 DEF Touched
<1> QED BY <1>1, <1>2

LEMMA StoredKeys ==
  ASSUME NEW c \in Seq(Keys), NEW k \in Keys
  PROVE  /\ Stored(c, k) \in Seq(Keys)
         /\ ToSet(Stored(c, k)) \subseteq ToSet(c) \union {k}
<1> DEFINE with == Append(RemoveFirst(c, k), k)
<1>1. /\ with \in Seq(Keys) /\ with # << >>
      /\ ToSet(with) \subseteq ToSet(c) \union {k}
  <2>1. RemoveFirst(c, k) \in Seq(Keys) /\ ToSet(RemoveFirst(c, k)) \subseteq ToSet(c)
      BY RemovedKeys
  <2>2. ToSet(with) = ToSet(RemoveFirst(c, k)) \union {k} /\ with \in Seq(Keys)
      BY <2>1, AppendedKeys
  <2>3. with # << >>
      BY <2>1
  <2> QED BY <2>1, <2>2, <2>3
<1> HIDE DEF with
<1>2. Tail(with) \in Seq(Keys) /\ ToSet(Tail(with)) \subseteq ToSet(with)
  <2>1. Tail(with) \in Seq(Keys) /\ Len(Tail(with)) = Len(with) - 1 /\ Len(with) \in Nat \ {0}
      BY <1>1
  <2>2. ASSUME NEW i \in 1..Len(Tail(with))
        PROVE  i + 1 \in 1..Len(with) /\ Tail(with)[i] = with[i + 1]
      BY <1>1, <2>1
  <2> QED BY <1>1, <2>1, <2>2 DEF ToSet
<1>3. Stored(c, k) = with \/ Stored(c, k) = Tail(with)
    BY DEF Stored, with
<1> QED BY <1>1, <1>2, <1>3

(* The entries of a plan, one after the other, leave a cache of keys.        *)
LEMMA AllTouched ==
  ASSUME NEW c \in Seq(Keys), NEW s \in Seq(Keys)
  PROVE  FoldLeft(Touched, c, s) \in Seq(Keys)
<1> DEFINE S == DOMAIN s
           next(F, t) == Touched(F[t \ {Max(t)}], s[Max(t)])
           last == [t \in (SUBSET S) \ {{}} |-> Max(t)]
           g == [p \in Seq(Keys) \X S |-> Touched(p[1], s[p[2]])]
<1>1. S = 1..Len(s) /\ IsFiniteSet(S) /\ \A i \in S : s[i] \in Keys
    BY FS_Interval
<1>2. ASSUME NEW t \in (SUBSET S) \ {{}} PROVE Max(t) \in t
  <2>1. Len(s) \in Nat /\ t \in SUBSET (1..Len(s)) /\ t # {}
      BY <1>1
  <2> QED BY <2>1, LastPosition
<1> HIDE DEF S
<1>3. Chooses(last, S) /\ \A t \in (SUBSET S) \ {{}} : last[t] = Max(t)
    BY <1>2 DEF Chooses
<1>4. g \in [Seq(Keys) \X S -> Seq(Keys)]
    BY <1>1, TouchedKeys
<1>5. \E F : F = [t \in SUBSET S |-> IF t = {} THEN c ELSE next(F, t)]
  <2>1. PICK h \in [SUBSET S -> Seq(Keys)] : IsFoldOf(h, g, c, last, S)
    <3> HIDE DEF last, g
    <3> QED BY <1>1, <1>3, <1>4, FoldExists
  <2>2. ASSUME NEW t \in SUBSET S PROVE h[t] = IF t = {} THEN c ELSE next(h, t)
    <3>1. CASE t = {}
        BY <2>1, <3>1 DEF IsFoldOf
    <3>2. CASE t # {}
      <4>1. h[t \ {Max(t)}] \in Seq(Keys) /\ Max(t) \in S /\ last[t] = Max(t)
          BY <1>3, <3>2 DEF Chooses
      <4>2. h[t] = g[<<h[t \ {Max(t)}], Max(t)>>]
          BY <2>1, <3>2, <4>1 DEF IsFoldOf
      <4> QED BY <3>2, <4>1, <4>2
    <3> QED BY <3>1, <3>2
  <2>3. h = [t \in SUBSET S |-> IF t = {} THEN c ELSE next(h, t)]
      BY <2>2
  <2> QED BY <2>3
<1>6. PICK F : /\ F = [t \in SUBSET S |-> IF t = {} THEN c ELSE next(F, t)]
               /\ FoldLeft(Touched, c, s) = F[S]
  <2>1. FoldLeft(Touched, c, s) =
          (CHOOSE F : F = [t \in SUBSET S |-> IF t = {} THEN c ELSE next(F, t)])[S]
      BY DEF FoldLeft, MapThenFoldSet, S
  <2> QED BY <1>5, <2>1
<1>7. F[{}] \in Seq(Keys)
    BY <1>6
<1>8. ASSUME NEW t \in (SUBSET S) \ {{}}, F[t \ {last[t]}] \in Seq(Keys)
      PROVE  F[t] \in Seq(Keys)
  <2>1. F[t] = Touched(F[t \ {Max(t)}], s[Max(t)])
      BY <1>6
  <2>2. F[t \ {Max(t)}] \in Seq(Keys) /\ s[Max(t)] \in Keys
      BY <1>1, <1>3, <1>8 DEF Chooses
  <2>3. Touched(F[t \ {Max(t)}], s[Max(t)]) \in Seq(Keys)
      BY <2>2, TouchedKeys
  <2> QED BY <2>1, <2>3
<1>9. \A t \in SUBSET S : F[t] \in Seq(Keys)
  <2> HIDE DEF last
  <2> QED BY <1>1, <1>3, <1>7, <1>8, FoldStays
<1> QED BY <1>6, <1>9

LEMMA AllStored ==
  ASSUME NEW c \in Seq(Keys), NEW s \in Seq(Keys)
  PROVE  FoldLeft(Stored, c, s) \in Seq(Keys)
<1> DEFINE S == DOMAIN s
           next(F, t) == Stored(F[t \ {Max(t)}], s[Max(t)])
           last == [t \in (SUBSET S) \ {{}} |-> Max(t)]
           g == [p \in Seq(Keys) \X S |-> Stored(p[1], s[p[2]])]
<1>1. S = 1..Len(s) /\ IsFiniteSet(S) /\ \A i \in S : s[i] \in Keys
    BY FS_Interval
<1>2. ASSUME NEW t \in (SUBSET S) \ {{}} PROVE Max(t) \in t
  <2>1. Len(s) \in Nat /\ t \in SUBSET (1..Len(s)) /\ t # {}
      BY <1>1
  <2> QED BY <2>1, LastPosition
<1> HIDE DEF S
<1>3. Chooses(last, S) /\ \A t \in (SUBSET S) \ {{}} : last[t] = Max(t)
    BY <1>2 DEF Chooses
<1>4. g \in [Seq(Keys) \X S -> Seq(Keys)]
    BY <1>1, StoredKeys
<1>5. \E F : F = [t \in SUBSET S |-> IF t = {} THEN c ELSE next(F, t)]
  <2>1. PICK h \in [SUBSET S -> Seq(Keys)] : IsFoldOf(h, g, c, last, S)
    <3> HIDE DEF last, g
    <3> QED BY <1>1, <1>3, <1>4, FoldExists
  <2>2. ASSUME NEW t \in SUBSET S PROVE h[t] = IF t = {} THEN c ELSE next(h, t)
    <3>1. CASE t = {}
        BY <2>1, <3>1 DEF IsFoldOf
    <3>2. CASE t # {}
      <4>1. h[t \ {Max(t)}] \in Seq(Keys) /\ Max(t) \in S /\ last[t] = Max(t)
          BY <1>3, <3>2 DEF Chooses
      <4>2. h[t] = g[<<h[t \ {Max(t)}], Max(t)>>]
          BY <2>1, <3>2, <4>1 DEF IsFoldOf
      <4> QED BY <3>2, <4>1, <4>2
    <3> QED BY <3>1, <3>2
  <2>3. h = [t \in SUBSET S |-> IF t = {} THEN c ELSE next(h, t)]
      BY <2>2
  <2> QED BY <2>3
<1>6. PICK F : /\ F = [t \in SUBSET S |-> IF t = {} THEN c ELSE next(F, t)]
               /\ FoldLeft(Stored, c, s) = F[S]
  <2>1. FoldLeft(Stored, c, s) =
          (CHOOSE F : F = [t \in SUBSET S |-> IF t = {} THEN c ELSE next(F, t)])[S]
      BY DEF FoldLeft, MapThenFoldSet, S
  <2> QED BY <1>5, <2>1
<1>7. F[{}] \in Seq(Keys)
    BY <1>6
<1>8. ASSUME NEW t \in (SUBSET S) \ {{}}, F[t \ {last[t]}] \in Seq(Keys)
      PROVE  F[t] \in Seq(Keys)
  <2>1. F[t] = Stored(F[t \ {Max(t)}], s[Max(t)])
      BY <1>6
  <2>2. F[t \ {Max(t)}] \in Seq(Keys) /\ s[Max(t)] \in Keys
      BY <1>1, <1>3, <1>8 DEF Chooses
  <2>3. Stored(F[t \ {Max(t)}], s[Max(t)]) \in Seq(Keys)
      BY <2>2, StoredKeys
  <2> QED BY <2>1, <2>3
<1>9. \A t \in SUBSET S : F[t] \in Seq(Keys)
  <2> HIDE DEF last
  <2> QED BY <1>1, <1>3, <1>7, <1>8, FoldStays
<1> QED BY <1>6, <1>9

(* The keys of a plan, or of its results, in some order.                     *)
LEMMA OrdersAreKeys ==
  ASSUME CacheAssumption, NEW S \in SUBSET Keys, NEW s \in SetToSeqs(S)
  PROVE  s \in Seq(Keys)
<1>1. IsFiniteSet(S) /\ Cardinality(S) \in Nat
    BY FS_Subset, FS_CardinalityType DEF CacheAssumption
<1> QED BY <1>1 DEF SetToSeqs

-----------------------------------------------------------------------------
(* Shared searches.  A flight is an owner's, and no two own one future; a     *)
(* future is pending just while its owner searches (OwnersInv, FlightsInv).  *)
(* Hence who waits on a pending future waits for an owner that searches      *)
(* (WaitersInv), and what is fetched is in nobody's cache (FetchInv), since   *)
(* only its own owner stores it and no stage runs meanwhile (RestInv).       *)

Ends == {"pending", "item", "error"}
CallRecords ==
  [at : {"idle", "missed", "waiting", "owner", "fetching", "stored", "closing"},
   key : Keys \union {CHOOSE k \in Keys : TRUE}, future : Nat]
Stages == [phase : {"idle", "primary", "notes", "agents"},
           chain : [Keys -> {"none", "hit", "run", "found", "broken"}]]

CacheTypes ==
  /\ cache \in Seq(Keys) /\ futures \in Seq(Ends)
  /\ flight \in [Keys -> Nat] /\ call \in [Callers -> CallRecords]
  /\ \A a \in Callers : call[a].at # "idle" => call[a].key \in Keys
  /\ stage \in Stages

Searching(a) == call[a].at \in {"owner", "fetching", "stored"}
Owning(a) == Searching(a) \/ call[a].at = "closing"

OwnersInv ==
  \A a \in Callers : Owning(a) =>
    /\ call[a].future \in 1..Len(futures) /\ flight[call[a].key] = call[a].future
    /\ Searching(a) <=> futures[call[a].future] = "pending"
    /\ \A b \in Callers : b # a /\ Owning(b) => call[b].future # call[a].future

FlightsInv ==
  \A k \in Keys : flight[k] # 0 => \E a \in Callers : Owning(a) /\ call[a].key = k

WaitersInv ==
  \A a \in Callers : call[a].at = "waiting" =>
    /\ call[a].future \in 1..Len(futures)
    /\ futures[call[a].future] = "pending" =>
         \E b \in Callers : Searching(b) /\ call[b].future = call[a].future

FetchInv == \A a \in Callers : call[a].at = "fetching" => call[a].key \notin Cached
RestInv == stage.phase # "agents" => AgentsRest

CInv == CacheTypes /\ OwnersInv /\ FlightsInv /\ WaitersInv /\ FetchInv /\ RestInv

LEMMA CacheInitial == CacheInit => CInv
<1> SUFFICES ASSUME CacheInit PROVE CInv
    OBVIOUS
<1>1. AgentsRest /\ futures = << >> /\ cache = << >> /\ flight = [k \in Keys |-> 0]
    BY DEF CacheInit, AgentsRest
<1>2. CacheTypes
    BY <1>1 DEF CacheInit, CacheTypes, CallRecords, Stages, NoChains, Ends
<1>3. ASSUME NEW a \in Callers PROVE call[a].at = "idle"
    BY <1>1 DEF AgentsRest
<1> QED BY <1>1, <1>2, <1>3
       DEF CInv, OwnersInv, FlightsInv, WaitersInv, FetchInv, RestInv, Owning, Searching

(* While no agent is at work the cache may become what it will.              *)
LEMMA StageKeeps ==
  ASSUME CInv, AgentsRest, cache' \in Seq(Keys), stage' \in Stages,
         UNCHANGED <<flight, futures, call>>
  PROVE  CInv'
<1>1. CacheTypes' /\ AgentsRest'
    BY DEF CInv, CacheTypes, AgentsRest
<1>2. OwnersInv' /\ FlightsInv' /\ WaitersInv'
    BY DEF CInv, OwnersInv, FlightsInv, WaitersInv, Owning, Searching
<1>3. FetchInv' /\ RestInv'
    BY <1>1 DEF FetchInv, RestInv, AgentsRest
<1> QED BY <1>1, <1>2, <1>3 DEF CInv

LEMMA ChainsStarted ==
  ASSUME CacheAssumption, NEW phase \in {"primary", "notes"}, NEW wanted \in SUBSET Keys, NEW known,
         NEW before \in Seq(Keys), StartChains(phase, wanted, known, before)
  PROVE  stage' \in Stages /\ cache' \in Seq(Keys)
<1>1. stage' \in Stages
    BY DEF StartChains, Stages
<1>2. PICK order \in SetToSeqs(wanted \ known) : cache' = FoldLeft(Touched, before, order)
    BY DEF StartChains
<1>3. order \in Seq(Keys)
    BY OrdersAreKeys
<1> QED BY <1>1, <1>2, <1>3, AllTouched

LEMMA BuildEvidencePackKeeps ==
  ASSUME CacheAssumption, CInv, NEW wanted \in SUBSET Keys, NEW known,
         BuildEvidencePack(wanted, known)
  PROVE  CInv'
<1>1. /\ AgentsRest /\ StartChains("primary", wanted, known, cache)
      /\ UNCHANGED <<flight, futures, call>>
    BY DEF BuildEvidencePack
<1>2. cache \in Seq(Keys)
    BY DEF CInv, CacheTypes
<1> QED BY <1>1, <1>2, ChainsStarted, StageKeeps

LEMMA ChainKeeps ==
  ASSUME CInv, NEW k \in Keys, Chain(k)
  PROVE  CInv'
<1>1. PICK end \in {"found", "broken", "none"} :
        /\ stage' = [stage EXCEPT !.chain = [stage.chain EXCEPT ![k] = end]]
        /\ UNCHANGED <<cache, flight, futures, call>>
    BY DEF Chain
<1>2. stage' \in Stages /\ stage'.phase = stage.phase
  <2>1. stage \in Stages
      BY DEF CInv, CacheTypes
  <2>2. [stage.chain EXCEPT ![k] = end] \in [Keys -> {"none", "hit", "run", "found", "broken"}]
      BY <2>1 DEF Stages
  <2> QED BY <1>1, <2>1, <2>2 DEF Stages
<1>3. CacheTypes'
    BY <1>1, <1>2 DEF CInv, CacheTypes
<1>4. OwnersInv' /\ FlightsInv' /\ WaitersInv'
    BY <1>1 DEF CInv, OwnersInv, FlightsInv, WaitersInv, Owning, Searching
<1>5. FetchInv' /\ RestInv'
    BY <1>1, <1>2 DEF CInv, FetchInv, RestInv, AgentsRest, Cached
<1> QED BY <1>3, <1>4, <1>5 DEF CInv

LEMMA FailChainsKeeps == ASSUME CInv, FailChains PROVE CInv'
<1>1. /\ stage.phase \in {"primary", "notes"} /\ stage' = NoChains
      /\ UNCHANGED <<cache, flight, futures, call>>
    BY DEF FailChains, ChainsEnded
<1>2. AgentsRest /\ cache' \in Seq(Keys) /\ stage' \in Stages
    BY <1>1 DEF CInv, RestInv, CacheTypes, Stages, NoChains
<1> QED BY <1>1, <1>2, StageKeeps

LEMMA MergePrimaryKeeps ==
  ASSUME CacheAssumption, CInv, NEW notes \in SUBSET Keys, MergePrimary(notes)
  PROVE  CInv'
<1>1. AgentsRest /\ UNCHANGED <<flight, futures, call>>
    BY DEF MergePrimary, ChainsEnded, CInv, RestInv
<1>2. PICK order \in SetToSeqs(Ended("found")) :
        StartChains("notes", notes, kept', FoldLeft(Stored, cache, order))
    BY DEF MergePrimary
<1>3. order \in Seq(Keys)
  <2>1. Ended("found") \in SUBSET Keys
      BY DEF Ended
  <2> QED BY <2>1, OrdersAreKeys
<1>4. FoldLeft(Stored, cache, order) \in Seq(Keys)
    BY <1>3, AllStored DEF CInv, CacheTypes
<1> QED BY <1>1, <1>2, <1>4, ChainsStarted, StageKeeps

LEMMA MergeNotesKeeps == ASSUME CacheAssumption, CInv, MergeNotes PROVE CInv'
<1>1. AgentsRest /\ UNCHANGED <<flight, futures, call>>
    BY DEF MergeNotes, ChainsEnded, CInv, RestInv
<1>2. PICK order \in SetToSeqs(Ended("found")) : cache' = FoldLeft(Stored, cache, order)
    BY DEF MergeNotes
<1>3. order \in Seq(Keys)
  <2>1. Ended("found") \in SUBSET Keys
      BY DEF Ended
  <2> QED BY <2>1, OrdersAreKeys
<1>4. FoldLeft(Stored, cache, order) \in Seq(Keys)
    BY <1>3, AllStored DEF CInv, CacheTypes
<1>5. stage' \in Stages
    BY DEF MergeNotes, NoChains, Stages
<1> QED BY <1>1, <1>2, <1>4, <1>5, StageKeeps

(* A lookup moves an entry to the end, or begins a call.                     *)
LEMMA LookUpKeeps ==
  ASSUME CInv, NEW a \in Callers, NEW k \in Keys, LookUp(a, k)
  PROVE  CInv'
<1>1. /\ cache' \in Seq(Keys) /\ ToSet(cache') \subseteq ToSet(cache)
      /\ UNCHANGED <<flight, futures, stage>> /\ stage.phase = "agents" /\ call[a].at = "idle"
      /\ call' = call \/ call' = [call EXCEPT ![a] = [at |-> "missed", key |-> k, future |-> 0]]
    BY TouchedKeys DEF LookUp, CInv, CacheTypes
<1>2. CacheTypes' /\ \A b \in Callers : call'[b] = call[b] \/ (b = a /\ call'[b].at = "missed")
  <2> DEFINE missed == [at |-> "missed", key |-> k, future |-> 0]
  <2>1. call \in [Callers -> CallRecords]
      BY DEF CInv, CacheTypes
  <2>2. missed \in CallRecords /\ missed.at = "missed" /\ missed.key = k
      BY DEF CallRecords
  <2>3. call' = call \/ call' = [call EXCEPT ![a] = missed]
      BY <1>1
  <2> HIDE DEF missed
  <2>4. /\ call' \in [Callers -> CallRecords]
        /\ \A b \in Callers : call'[b] = call[b] \/ (b = a /\ call'[b] = missed)
    <3>1. CASE call' = call
        BY <2>1, <3>1
    <3>2. CASE call' = [call EXCEPT ![a] = missed]
        BY <2>1, <2>2, <3>2
    <3> QED BY <2>3, <3>1, <3>2
  <2>5. \A b \in Callers : call'[b].at # "idle" => call'[b].key \in Keys
      BY <2>2, <2>4 DEF CInv, CacheTypes
  <2>6. futures' \in Seq(Ends) /\ flight' \in [Keys -> Nat] /\ stage' \in Stages
      BY <1>1 DEF CInv, CacheTypes
  <2> QED BY <1>1, <2>2, <2>4, <2>5, <2>6 DEF CacheTypes
<1>3. \A b \in Callers : /\ Owning(b)' <=> Owning(b)
                         /\ Searching(b)' <=> Searching(b)
                         /\ call'[b].at \in {"waiting", "fetching"} => call'[b] = call[b]
                         /\ Owning(b) => call'[b] = call[b]
    BY <1>1, <1>2 DEF Owning, Searching, CInv, CacheTypes, CallRecords
<1>4. OwnersInv'
    BY <1>1, <1>3 DEF CInv, OwnersInv
<1>5. FlightsInv'
    BY <1>1, <1>3 DEF CInv, FlightsInv
<1>6. WaitersInv'
    BY <1>1, <1>3 DEF CInv, WaitersInv, Owning
<1>7. FetchInv'
    BY <1>1, <1>3 DEF CInv, FetchInv, Cached
<1>8. RestInv'
    BY <1>1 DEF RestInv
<1> QED BY <1>2, <1>4, <1>5, <1>6, <1>7, <1>8 DEF CInv

MovesTo(a, where, f) == call' = [call EXCEPT ![a] = [@ EXCEPT !.at = where, !.future = f]]

(* A step of a call moves it alone, while the agents are at work.            *)
LEMMA CallMoves ==
  ASSUME CInv, NEW a \in Callers, call[a].at # "idle",
         NEW where \in {"idle", "waiting", "owner", "fetching", "stored", "closing"}, NEW f \in Nat,
         MovesTo(a, where, f)
  PROVE  /\ call' \in [Callers -> CallRecords] /\ call[a].key \in Keys
         /\ \A b \in Callers : call'[b].at # "idle" => call'[b].key \in Keys
         /\ \A b \in Callers \ {a} : call'[b] = call[b]
         /\ call'[a].at = where /\ call'[a].key = call[a].key /\ call'[a].future = f
         /\ stage.phase = "agents"
<1>1. call \in [Callers -> CallRecords] /\ call[a].key \in Keys
    BY DEF CInv, CacheTypes
<1>2. /\ [call[a] EXCEPT !.at = where, !.future = f] \in CallRecords
      /\ [call[a] EXCEPT !.at = where, !.future = f].at = where
      /\ [call[a] EXCEPT !.at = where, !.future = f].key = call[a].key
      /\ [call[a] EXCEPT !.at = where, !.future = f].future = f
    BY <1>1 DEF CallRecords
<1>3. stage.phase = "agents"
    BY DEF CInv, RestInv, AgentsRest
<1>4. call' \in [Callers -> CallRecords] /\ \A b \in Callers \ {a} : call'[b] = call[b]
    BY <1>1, <1>2 DEF MovesTo
<1>5. call'[a] = [call[a] EXCEPT !.at = where, !.future = f]
    BY <1>1 DEF MovesTo
<1> QED BY <1>1, <1>2, <1>3, <1>4, <1>5 DEF CInv, CacheTypes

LEMMA CallGoes ==
  ASSUME CInv, NEW a \in Callers, call[a].at # "idle",
         NEW where \in {"idle", "waiting", "owner", "fetching", "stored", "closing"}, GoTo(a, where)
  PROVE  MovesTo(a, where, call[a].future)
<1>1. call \in [Callers -> CallRecords]
    BY DEF CInv, CacheTypes
<1>2. [call[a] EXCEPT !.at = where] = [call[a] EXCEPT !.at = where, !.future = call[a].future]
    BY <1>1 DEF CallRecords
<1>3. call' = [call EXCEPT ![a] = [call[a] EXCEPT !.at = where]]
    BY DEF GoTo
<1> QED BY <1>2, <1>3 DEF MovesTo

(* Who finds a flight waits on the future of its owner.                      *)
LEMMA ClaimWaits ==
  ASSUME CInv, NEW a \in Callers, Claim(a), flight[call[a].key] # 0
  PROVE  CInv'
<1>1. /\ call[a].at = "missed" /\ UNCHANGED <<cache, flight, futures, stage>>
      /\ MovesTo(a, "waiting", flight[call[a].key])
    BY DEF Claim, MovesTo
<1>2. call[a].key \in Keys /\ flight[call[a].key] \in Nat
    BY <1>1 DEF CInv, CacheTypes
<1>3. /\ call' \in [Callers -> CallRecords] /\ stage.phase = "agents"
      /\ \A b \in Callers : call'[b].at # "idle" => call'[b].key \in Keys
      /\ \A b \in Callers \ {a} : call'[b] = call[b]
      /\ call'[a].at = "waiting" /\ call'[a].future = flight[call[a].key]
    BY <1>1, <1>2, CallMoves
<1>4. \A b \in Callers : /\ Owning(b)' <=> Owning(b)
                         /\ Searching(b)' <=> Searching(b)
                         /\ Owning(b) => b # a
    BY <1>1, <1>3 DEF Owning, Searching
<1>5. PICK o \in Callers : Owning(o) /\ call[o].key = call[a].key
    BY <1>2 DEF CInv, FlightsInv
<1>6. /\ flight[call[a].key] = call[o].future /\ call[o].future \in 1..Len(futures)
      /\ Searching(o) <=> futures[call[o].future] = "pending"
    BY <1>5 DEF CInv, OwnersInv
<1>7. CacheTypes' /\ OwnersInv' /\ FlightsInv'
    BY <1>1, <1>3, <1>4 DEF CInv, CacheTypes, OwnersInv, FlightsInv
<1>8. WaitersInv'
  <2> SUFFICES ASSUME NEW b \in Callers, call'[b].at = "waiting"
               PROVE  /\ call'[b].future \in 1..Len(futures)
                      /\ futures[call'[b].future] = "pending" =>
                           \E d \in Callers : Searching(d) /\ call[d].future = call'[b].future
      BY <1>1, <1>3, <1>4 DEF WaitersInv, Owning
  <2>1. CASE b = a
      BY <1>3, <1>5, <1>6, <2>1
  <2>2. CASE b # a
      BY <1>3, <2>2 DEF CInv, WaitersInv
  <2> QED BY <2>1, <2>2
<1>9. FetchInv' /\ RestInv'
    BY <1>1, <1>3 DEF CInv, FetchInv, RestInv, Cached
<1> QED BY <1>7, <1>8, <1>9 DEF CInv

(* Who finds none makes a future of its own.                                 *)
LEMMA ClaimOwns ==
  ASSUME CInv, NEW a \in Callers, Claim(a), flight[call[a].key] = 0
  PROVE  CInv'
<1> DEFINE n == Len(futures) + 1
<1>1. /\ futures \in Seq(Ends) /\ Len(futures) \in Nat /\ n \in Nat
      /\ futures' \in Seq(Ends) /\ Len(futures') = n /\ futures'[n] = "pending"
      /\ \A i \in 1..Len(futures) : futures'[i] = futures[i]
  <2>1. futures \in Seq(Ends) /\ futures' = Append(futures, "pending") /\ "pending" \in Ends
      BY DEF Claim, CInv, CacheTypes, Ends
  <2> QED BY <2>1
<1>2. /\ call[a].at = "missed" /\ UNCHANGED <<cache, stage>>
      /\ flight' = [flight EXCEPT ![call[a].key] = n]
      /\ MovesTo(a, "owner", n)
    BY <1>1 DEF Claim, MovesTo
<1>3. /\ call' \in [Callers -> CallRecords] /\ stage.phase = "agents" /\ call[a].key \in Keys
      /\ \A b \in Callers : call'[b].at # "idle" => call'[b].key \in Keys
      /\ \A b \in Callers \ {a} : call'[b] = call[b]
      /\ call'[a].at = "owner" /\ call'[a].future = n /\ call'[a].key = call[a].key
    BY <1>1, <1>2, CallMoves
<1> HIDE DEF n
<1>4. /\ \A b \in Callers \ {a} : (Owning(b)' <=> Owning(b)) /\ (Searching(b)' <=> Searching(b))
      /\ ~ Owning(a) /\ Owning(a)' /\ Searching(a)'
    BY <1>2, <1>3 DEF Owning, Searching
<1>5. CacheTypes'
    BY <1>1, <1>2, <1>3 DEF CInv, CacheTypes
<1>6. flight'[call[a].key] = n /\ \A k \in Keys \ {call[a].key} : flight'[k] = flight[k]
    BY <1>2, <1>3 DEF CInv, CacheTypes
<1>7. ASSUME NEW b \in Callers, Owning(b)
      PROVE  call[b].key \in Keys /\ call[b].key # call[a].key
    BY <1>1, <1>7 DEF CInv, OwnersInv, CacheTypes, Owning, Searching
<1>8. OwnersInv'
  <2> SUFFICES ASSUME NEW b \in Callers, Owning(b)'
               PROVE  /\ call'[b].future \in 1..n /\ flight'[call'[b].key] = call'[b].future
                      /\ Searching(b)' <=> futures'[call'[b].future] = "pending"
                      /\ \A d \in Callers : d # b /\ Owning(d)' => call'[d].future # call'[b].future
      BY <1>1 DEF OwnersInv
  <2>1. ASSUME NEW d \in Callers \ {a}, Owning(d)'
        PROVE  /\ call'[d].future \in 1..Len(futures) /\ call'[d].future # n
               /\ flight'[call'[d].key] = call'[d].future
               /\ Searching(d)' <=> futures'[call'[d].future] = "pending"
    <3>1. /\ Owning(d) /\ call'[d] = call[d] /\ call[d].future \in 1..Len(futures)
          /\ flight[call[d].key] = call[d].future
          /\ Searching(d) <=> futures[call[d].future] = "pending"
        BY <1>3, <1>4, <2>1 DEF CInv, OwnersInv
    <3>2. flight'[call[d].key] = flight[call[d].key]
        BY <1>6, <1>7, <3>1
    <3>3. ~ (Len(futures) + 1 \in 1..Len(futures))
        BY <1>1
    <3> QED BY <1>1, <1>4, <3>1, <3>2, <3>3 DEF n
  <2>2. CASE b = a
      BY <1>1, <1>3, <1>4, <1>6, <2>1, <2>2 DEF n
  <2>3. CASE b # a
    <3>1. call'[b].future \in 1..n
        BY <1>1, <2>1, <2>3 DEF n
    <3>2. ASSUME NEW d \in Callers, d # b, Owning(d)' PROVE call'[d].future # call'[b].future
      <4>1. CASE d = a
          BY <1>3, <2>1, <2>3, <4>1
      <4>2. CASE d # a
          BY <1>3, <1>4, <2>3, <3>2, <4>2 DEF CInv, OwnersInv
      <4> QED BY <4>1, <4>2
    <3> QED BY <2>1, <2>3, <3>1, <3>2
  <2> QED BY <2>2, <2>3
<1>9. FlightsInv'
  <2> SUFFICES ASSUME NEW k \in Keys, flight'[k] # 0
               PROVE  \E b \in Callers : Owning(b)' /\ call'[b].key = k
      BY DEF FlightsInv
  <2>1. CASE k = call[a].key
      BY <1>3, <1>4, <2>1
  <2>2. CASE k # call[a].key
    <3>1. PICK b \in Callers : Owning(b) /\ call[b].key = k
        BY <1>6, <2>2 DEF CInv, FlightsInv
    <3> QED BY <1>3, <1>4, <3>1
  <2> QED BY <2>1, <2>2
<1>10. WaitersInv'
  <2> SUFFICES ASSUME NEW b \in Callers, call'[b].at = "waiting"
               PROVE  /\ call'[b].future \in 1..n
                      /\ futures'[call'[b].future] = "pending" =>
                           \E d \in Callers : Searching(d)' /\ call'[d].future = call'[b].future
      BY <1>1 DEF WaitersInv
  <2>1. /\ call'[b] = call[b] /\ call[b].future \in 1..Len(futures)
        /\ futures[call[b].future] = "pending" =>
             \E d \in Callers : Searching(d) /\ call[d].future = call[b].future
      BY <1>3 DEF CInv, WaitersInv
  <2>2. \A d \in Callers : Searching(d) => Searching(d)' /\ call'[d] = call[d]
      BY <1>3, <1>4 DEF Owning
  <2> QED BY <1>1, <2>1, <2>2 DEF n
<1>11. FetchInv' /\ RestInv'
    BY <1>2, <1>3 DEF CInv, FetchInv, RestInv, Cached
<1> QED BY <1>5, <1>8, <1>9, <1>10, <1>11 DEF CInv

(* Its owner gives a future an end.                                          *)
LEMMA ResolveKeeps ==
  ASSUME CInv, NEW a \in Callers, Searching(a), NEW end \in {"item", "error"},
         Resolve(a, end), GoTo(a, "closing"), UNCHANGED <<flight, stage>>,
         cache' \in Seq(Keys), ToSet(cache') \subseteq ToSet(cache)
  PROVE  CInv'
<1>1. call[a].at # "idle" /\ Owning(a) /\ call[a].future \in Nat
    BY DEF Searching, Owning, CInv, CacheTypes, CallRecords
<1>2. /\ call' \in [Callers -> CallRecords] /\ stage.phase = "agents"
      /\ \A b \in Callers : call'[b].at # "idle" => call'[b].key \in Keys
      /\ \A b \in Callers \ {a} : call'[b] = call[b]
      /\ call'[a].at = "closing" /\ call'[a].future = call[a].future /\ call'[a].key = call[a].key
  <2>1. MovesTo(a, "closing", call[a].future)
      BY <1>1, CallGoes
  <2> QED BY <1>1, <2>1, CallMoves
<1>3. /\ call[a].future \in 1..Len(futures) /\ futures \in Seq(Ends)
      /\ \A b \in Callers : b # a /\ Owning(b) => call[b].future # call[a].future
    BY <1>1 DEF CInv, OwnersInv, CacheTypes
<1>4. /\ futures' \in Seq(Ends) /\ Len(futures') = Len(futures)
      /\ futures'[call[a].future] # "pending"
      /\ \A i \in 1..Len(futures) : i # call[a].future => futures'[i] = futures[i]
    BY <1>3 DEF Resolve, Ends
<1>5. /\ \A b \in Callers \ {a} : (Owning(b)' <=> Owning(b)) /\ (Searching(b)' <=> Searching(b))
      /\ Owning(a)' /\ ~ Searching(a)'
    BY <1>2 DEF Owning, Searching
<1>6. CacheTypes'
    BY <1>2, <1>4 DEF CInv, CacheTypes
<1>7. OwnersInv'
  <2> SUFFICES ASSUME NEW b \in Callers, Owning(b)'
               PROVE  /\ call'[b].future \in 1..Len(futures) /\ flight[call'[b].key] = call'[b].future
                      /\ Searching(b)' <=> futures'[call'[b].future] = "pending"
                      /\ \A d \in Callers : d # b /\ Owning(d)' => call'[d].future # call'[b].future
      BY <1>4 DEF OwnersInv
  <2>1. Owning(b) /\ call'[b].future = call[b].future /\ call'[b].key = call[b].key
      BY <1>1, <1>2, <1>5
  <2>2. ASSUME NEW d \in Callers, d # b, Owning(d)' PROVE call'[d].future # call'[b].future
    <3>1. Owning(d) /\ call'[d].future = call[d].future
        BY <1>1, <1>2, <1>5, <2>2
    <3> QED BY <2>1, <2>2, <3>1 DEF CInv, OwnersInv
  <2>3. call[b].future \in 1..Len(futures) /\ flight[call[b].key] = call[b].future
      BY <2>1 DEF CInv, OwnersInv
  <2>4. Searching(b)' <=> futures'[call[b].future] = "pending"
    <3>1. CASE b = a
        BY <1>4, <1>5, <3>1
    <3>2. CASE b # a
        BY <1>3, <1>4, <1>5, <2>1, <2>3, <3>2 DEF CInv, OwnersInv
    <3> QED BY <3>1, <3>2
  <2> QED BY <2>1, <2>2, <2>3, <2>4
<1>8. FlightsInv'
    BY <1>1, <1>2, <1>5 DEF CInv, FlightsInv
<1>9. WaitersInv'
  <2> SUFFICES ASSUME NEW b \in Callers, call'[b].at = "waiting"
               PROVE  /\ call'[b].future \in 1..Len(futures)
                      /\ futures'[call'[b].future] = "pending" =>
                           \E d \in Callers : Searching(d)' /\ call'[d].future = call'[b].future
      BY <1>4 DEF WaitersInv
  <2>1. /\ call'[b] = call[b] /\ call[b].future \in 1..Len(futures)
        /\ futures[call[b].future] = "pending" =>
             \E d \in Callers : Searching(d) /\ call[d].future = call[b].future
      BY <1>2 DEF CInv, WaitersInv
  <2>2. CASE futures'[call[b].future] = "pending"
    <3>1. futures[call[b].future] = "pending" /\ call[b].future # call[a].future
        BY <1>4, <2>1, <2>2
    <3>2. PICK d \in Callers : Searching(d) /\ call[d].future = call[b].future
        BY <2>1, <3>1
    <3> QED BY <1>2, <1>5, <2>1, <3>1, <3>2
  <2> QED BY <2>1, <2>2
<1>10. FetchInv'
    BY <1>2 DEF CInv, FetchInv, Cached
<1>11. RestInv'
    BY <1>2 DEF RestInv
<1> QED BY <1>6, <1>7, <1>8, <1>9, <1>10, <1>11 DEF CInv

LEMMA RecheckKeeps == ASSUME CInv, NEW a \in Callers, Recheck(a) PROVE CInv'
<1>1. call[a].at = "owner" /\ call[a].key \in Keys /\ UNCHANGED <<flight, stage>>
    BY DEF Recheck, CInv, CacheTypes
<1>2. CASE call[a].key \in Cached
  <2>1. /\ Resolve(a, "item") /\ GoTo(a, "closing") /\ Searching(a)
        /\ cache' \in Seq(Keys) /\ ToSet(cache') \subseteq ToSet(cache)
      BY <1>1, <1>2, TouchedKeys DEF Recheck, Searching, CInv, CacheTypes
  <2> QED BY <1>1, <2>1, ResolveKeeps
<1>3. CASE call[a].key \notin Cached
  <2>1. GoTo(a, "fetching") /\ UNCHANGED <<cache, futures>>
      BY <1>3 DEF Recheck
  <2>2. call[a].future \in Nat
      BY DEF CInv, CacheTypes, CallRecords
  <2>3. /\ call' \in [Callers -> CallRecords]
        /\ \A b \in Callers : call'[b].at # "idle" => call'[b].key \in Keys
        /\ \A b \in Callers \ {a} : call'[b] = call[b]
        /\ call'[a].at = "fetching" /\ call'[a].future = call[a].future
        /\ call'[a].key = call[a].key
    <3>1. MovesTo(a, "fetching", call[a].future)
        BY <1>1, <2>1, CallGoes
    <3> QED BY <1>1, <2>2, <3>1, CallMoves
  <2>4. /\ \A b \in Callers : (Owning(b)' <=> Owning(b)) /\ (Searching(b)' <=> Searching(b))
        /\ \A b \in Callers : call'[b].future = call[b].future /\ call'[b].key = call[b].key
        /\ \A b \in Callers : call'[b].at = "waiting" <=> call[b].at = "waiting"
      BY <1>1, <2>3 DEF Owning, Searching
  <2>5. CacheTypes'
      BY <1>1, <2>1, <2>3 DEF CInv, CacheTypes
  <2>6. OwnersInv' /\ FlightsInv' /\ WaitersInv'
      BY <1>1, <2>1, <2>4 DEF CInv, OwnersInv, FlightsInv, WaitersInv
  <2>7. FetchInv'
      BY <1>3, <2>1, <2>3 DEF CInv, FetchInv, Cached
  <2>8. RestInv'
      BY <1>1 DEF CInv, RestInv, AgentsRest
  <2> QED BY <2>5, <2>6, <2>7, <2>8 DEF CInv
<1> QED BY <1>2, <1>3

(* What is stored is in nobody else's hands.                                 *)
LEMMA FetchKeeps == ASSUME CInv, NEW a \in Callers, Fetch(a) PROVE CInv'
<1>1. /\ call[a].at = "fetching" /\ call[a].key \in Keys /\ call[a].future \in Nat
      /\ GoTo(a, "stored") /\ UNCHANGED <<flight, futures, stage>>
    BY DEF Fetch, CInv, CacheTypes, CallRecords
<1>2. cache' \in Seq(Keys) /\ ToSet(cache') \subseteq ToSet(cache) \union {call[a].key}
    BY <1>1, StoredKeys DEF Fetch, CInv, CacheTypes
<1>3. /\ call' \in [Callers -> CallRecords] /\ stage.phase = "agents"
      /\ \A b \in Callers : call'[b].at # "idle" => call'[b].key \in Keys
      /\ \A b \in Callers \ {a} : call'[b] = call[b]
      /\ call'[a].at = "stored" /\ call'[a].future = call[a].future
      /\ call'[a].key = call[a].key
  <2>1. MovesTo(a, "stored", call[a].future)
      BY <1>1, CallGoes
  <2> QED BY <1>1, <2>1, CallMoves
<1>4. /\ \A b \in Callers : (Owning(b)' <=> Owning(b)) /\ (Searching(b)' <=> Searching(b))
      /\ \A b \in Callers : call'[b].future = call[b].future /\ call'[b].key = call[b].key
      /\ \A b \in Callers : call'[b].at = "waiting" <=> call[b].at = "waiting"
    BY <1>1, <1>3 DEF Owning, Searching
<1>5. CacheTypes'
    BY <1>1, <1>2, <1>3 DEF CInv, CacheTypes
<1>6. OwnersInv' /\ FlightsInv' /\ WaitersInv'
    BY <1>1, <1>4 DEF CInv, OwnersInv, FlightsInv, WaitersInv
<1>7. ASSUME NEW b \in Callers, call'[b].at = "fetching" PROVE call'[b].key \notin ToSet(cache')
  <2>1. b # a /\ call'[b] = call[b] /\ Owning(a) /\ Owning(b)
      BY <1>1, <1>3, <1>7 DEF Owning, Searching
  <2>2. call[b].key # call[a].key
      BY <2>1 DEF CInv, OwnersInv
  <2>3. call[b].key \notin ToSet(cache)
      BY <1>7, <2>1 DEF CInv, FetchInv, Cached
  <2> QED BY <1>2, <2>1, <2>2, <2>3
<1>8. FetchInv' /\ RestInv'
    BY <1>1, <1>3, <1>7 DEF FetchInv, RestInv, Cached
<1> QED BY <1>5, <1>6, <1>8 DEF CInv

LEMMA AnswerKeeps ==
  ASSUME CInv, NEW a \in Callers, Answer(a) \/ FetchFails(a)
  PROVE  CInv'
<1>1. PICK end \in {"item", "error"} : Resolve(a, end)
    BY DEF Answer, FetchFails
<1>2. Searching(a) /\ GoTo(a, "closing") /\ UNCHANGED <<flight, stage, cache>>
    BY DEF Answer, FetchFails, Searching
<1>3. cache' \in Seq(Keys) /\ ToSet(cache') \subseteq ToSet(cache)
    BY <1>2 DEF CInv, CacheTypes
<1> QED BY <1>1, <1>2, <1>3, ResolveKeeps

(* The flight an owner removes is its own.                                   *)
LEMMA CloseKeeps == ASSUME CInv, NEW a \in Callers, Close(a) PROVE CInv'
<1>1. /\ call[a].at = "closing" /\ call[a].key \in Keys /\ call[a].future \in Nat
      /\ GoTo(a, "idle") /\ UNCHANGED <<cache, futures, stage>> /\ Owning(a) /\ ~ Searching(a)
    BY DEF Close, CInv, CacheTypes, CallRecords, Owning, Searching
<1>2. flight[call[a].key] = call[a].future
    BY <1>1 DEF CInv, OwnersInv
<1>3. flight' = [flight EXCEPT ![call[a].key] = 0]
    BY <1>2 DEF Close
<1>4. /\ call' \in [Callers -> CallRecords] /\ stage.phase = "agents"
      /\ \A b \in Callers : call'[b].at # "idle" => call'[b].key \in Keys
      /\ \A b \in Callers \ {a} : call'[b] = call[b]
      /\ call'[a].at = "idle"
  <2>1. MovesTo(a, "idle", call[a].future)
      BY <1>1, CallGoes
  <2> QED BY <1>1, <2>1, CallMoves
<1>5. /\ \A b \in Callers \ {a} : (Owning(b)' <=> Owning(b)) /\ (Searching(b)' <=> Searching(b))
      /\ ~ Owning(a)' /\ ~ Searching(a)'
    BY <1>4 DEF Owning, Searching
<1>6. CacheTypes'
    BY <1>1, <1>3, <1>4 DEF CInv, CacheTypes
<1>7. flight'[call[a].key] = 0 /\ \A k \in Keys \ {call[a].key} : flight'[k] = flight[k]
    BY <1>1, <1>3 DEF CInv, CacheTypes
<1>8. ASSUME NEW b \in Callers, Owning(b)'
      PROVE  b # a /\ Owning(b) /\ call'[b] = call[b] /\ call[b].key \in Keys
    BY <1>4, <1>5, <1>8 DEF CInv, CacheTypes, Owning, Searching
<1>9. ASSUME NEW b \in Callers, Owning(b)' PROVE call[b].key # call[a].key
    BY <1>1, <1>2, <1>8, <1>9 DEF CInv, OwnersInv
<1>10. OwnersInv'
  <2> SUFFICES ASSUME NEW b \in Callers, Owning(b)'
               PROVE  /\ call'[b].future \in 1..Len(futures) /\ flight'[call'[b].key] = call'[b].future
                      /\ Searching(b)' <=> futures[call'[b].future] = "pending"
                      /\ \A d \in Callers : d # b /\ Owning(d)' => call'[d].future # call'[b].future
      BY <1>1 DEF OwnersInv
  <2>1. flight'[call[b].key] = flight[call[b].key]
      BY <1>7, <1>8, <1>9
  <2>2. Searching(b)' <=> Searching(b)
      BY <1>5, <1>8
  <2>3. ASSUME NEW d \in Callers, d # b, Owning(d)' PROVE call'[d].future # call'[b].future
      BY <1>8, <2>3 DEF CInv, OwnersInv
  <2>4. /\ call[b].future \in 1..Len(futures) /\ flight[call[b].key] = call[b].future
        /\ Searching(b) <=> futures[call[b].future] = "pending"
      BY <1>8 DEF CInv, OwnersInv
  <2> QED BY <1>8, <2>1, <2>2, <2>3, <2>4
<1>11. FlightsInv'
  <2> SUFFICES ASSUME NEW k \in Keys, flight'[k] # 0
               PROVE  \E b \in Callers : Owning(b)' /\ call'[b].key = k
      BY DEF FlightsInv
  <2>1. k # call[a].key /\ flight[k] # 0
      BY <1>7
  <2>2. PICK b \in Callers : Owning(b) /\ call[b].key = k
      BY <2>1 DEF CInv, FlightsInv
  <2> QED BY <1>4, <1>5, <2>1, <2>2
<1>12. WaitersInv'
  <2> SUFFICES ASSUME NEW b \in Callers, call'[b].at = "waiting"
               PROVE  /\ call'[b].future \in 1..Len(futures)
                      /\ futures[call'[b].future] = "pending" =>
                           \E d \in Callers : Searching(d)' /\ call'[d].future = call'[b].future
      BY <1>1 DEF WaitersInv
  <2>1. /\ call'[b] = call[b] /\ call[b].future \in 1..Len(futures)
        /\ futures[call[b].future] = "pending" =>
             \E d \in Callers : Searching(d) /\ call[d].future = call[b].future
      BY <1>4 DEF CInv, WaitersInv
  <2>2. \A d \in Callers : Searching(d) => Searching(d)' /\ call'[d] = call[d]
      BY <1>1, <1>4, <1>5
  <2> QED BY <2>1, <2>2
<1>13. FetchInv'
    BY <1>1, <1>4 DEF CInv, FetchInv, Cached
<1>14. RestInv'
    BY <1>1, <1>4 DEF RestInv
<1> QED BY <1>6, <1>10, <1>11, <1>12, <1>13, <1>14 DEF CInv

LEMMA CoalesceKeeps == ASSUME CInv, NEW a \in Callers, Coalesce(a) PROVE CInv'
<1>1. /\ call[a].at = "waiting" /\ call[a].future \in Nat
      /\ GoTo(a, "idle") /\ UNCHANGED <<cache, flight, futures, stage>>
    BY DEF Coalesce, CInv, CacheTypes, CallRecords
<1>2. /\ call' \in [Callers -> CallRecords] /\ stage.phase = "agents"
      /\ \A b \in Callers : call'[b].at # "idle" => call'[b].key \in Keys
      /\ \A b \in Callers \ {a} : call'[b] = call[b]
      /\ call'[a].at = "idle"
  <2>1. MovesTo(a, "idle", call[a].future)
      BY <1>1, CallGoes
  <2> QED BY <1>1, <2>1, CallMoves
<1>3. \A b \in Callers : /\ (Owning(b)' <=> Owning(b)) /\ (Searching(b)' <=> Searching(b))
                         /\ Owning(b) => call'[b] = call[b]
                         /\ call'[b].at \in {"waiting", "fetching"} => call'[b] = call[b]
    BY <1>1, <1>2 DEF Owning, Searching
<1>4. CacheTypes'
    BY <1>1, <1>2 DEF CInv, CacheTypes
<1>5. OwnersInv'
    BY <1>1, <1>3 DEF CInv, OwnersInv
<1>6. FlightsInv'
    BY <1>1, <1>3 DEF CInv, FlightsInv
<1>7. WaitersInv'
    BY <1>1, <1>3 DEF CInv, WaitersInv, Owning
<1>8. FetchInv'
    BY <1>1, <1>3 DEF CInv, FetchInv, Cached
<1>9. RestInv'
    BY <1>1, <1>2 DEF RestInv
<1> QED BY <1>4, <1>5, <1>6, <1>7, <1>8, <1>9 DEF CInv

LEMMA RestKeeps ==
  ASSUME CInv, UNCHANGED <<cache, flight, futures, call, stage>>
  PROVE  CInv'
BY DEF CInv, CacheTypes, OwnersInv, FlightsInv, WaitersInv, FetchInv, RestInv, AgentsRest,
       Owning, Searching, Cached

LEMMA CacheStep ==
  ASSUME CacheAssumption
  PROVE  CInv /\ [CacheNext]_cacheVars => CInv'
<1> SUFFICES ASSUME CInv, [CacheNext]_cacheVars PROVE CInv'
    OBVIOUS
<1>1. CASE UNCHANGED cacheVars
    BY <1>1, RestKeeps DEF cacheVars
<1>2. CASE CacheNext
  <2>1. CASE \E wanted \in SUBSET Keys, known \in {{}, Merged} : BuildEvidencePack(wanted, known)
      BY <2>1, BuildEvidencePackKeeps
  <2>2. CASE \E k \in Keys : Chain(k)
      BY <2>2, ChainKeeps
  <2>3. CASE FailChains
      BY <2>3, FailChainsKeeps
  <2>4. CASE \E notes \in SUBSET Keys : MergePrimary(notes)
      BY <2>4, MergePrimaryKeeps
  <2>5. CASE MergeNotes
      BY <2>5, MergeNotesKeeps
  <2>6. CASE \E a \in Callers, k \in Keys : LookUp(a, k)
      BY <2>6, LookUpKeeps
  <2>7. CASE \E a \in Callers : Thread(a)
      BY <2>7, ClaimWaits, ClaimOwns, RecheckKeeps, FetchKeeps, AnswerKeeps, CloseKeeps,
         CoalesceKeeps DEF Thread
  <2>8. CASE SuperstepEnds
      BY <2>8, RestKeeps DEF SuperstepEnds
  <2> QED BY <1>2, <2>1, <2>2, <2>3, <2>4, <2>5, <2>6, <2>7, <2>8 DEF CacheNext
<1> QED BY <1>1, <1>2

(* However the threads of a superstep interleave their lookups, claims and   *)
(* stores, and however small the cache: no key is searched twice at once or   *)
(* while it is cached, and nobody waits on a search that none makes          *)
(* (agents/tools/tool_runner.py, agents/tools/evidence.py).                  *)
THEOREM SearchesAreShared == CacheSpec => []SearchIsShared
<1>1. CInv => SearchIsShared
  <2> SUFFICES ASSUME CInv PROVE SearchIsShared
      OBVIOUS
  <2>1. ASSUME NEW a \in Callers, NEW b \in Callers \ {a},
               call[a].at = "fetching", call[b].at = "fetching"
        PROVE  call[b].key # call[a].key
    <3>1. Owning(a) /\ Owning(b)
        BY <2>1 DEF Owning, Searching
    <3> QED BY <3>1 DEF CInv, OwnersInv
  <2> QED BY <2>1 DEF SearchIsShared, CInv, FetchInv, WaitersInv, Searching
<1>2. CInv /\ [CacheNext]_cacheVars => CInv'
    BY CacheAssumption, CacheStep
<1> QED BY <1>1, <1>2, CacheInitial, PTL DEF CacheSpec

-----------------------------------------------------------------------------
(* A sum of no more, over no more, is no greater.                            *)
LEMMA SumGrows ==
  ASSUME NEW S, IsFiniteSet(S), NEW f \in [S -> Nat], NEW g \in [S -> Nat],
         NEW B \in SUBSET S, NEW A \in SUBSET B, \A x \in A : f[x] <= g[x]
  PROVE  /\ SumFunctionOnSet(f, A) \in Nat /\ SumFunctionOnSet(g, B) \in Nat
         /\ SumFunctionOnSet(f, A) <= SumFunctionOnSet(g, B)
<1>0. Nat \in {Nat, Int}
    OBVIOUS
<1>1. PICK h : IsSum(Nat, h, f, S)
    BY <1>0, SumExists
<1>2. PICK k : IsSum(Nat, k, g, S)
    BY <1>0, SumExists
<1> DEFINE Good == {t \in SUBSET B : h[t \intersect A] <= k[t]}
<1>3. ASSUME NEW t \in SUBSET B, \A x \in t : t \ {x} \in Good
      PROVE  t \in Good
  <2>1. CASE t = {}
      BY <1>1, <1>2, <2>1 DEF IsSum
  <2>2. CASE t # {}
    <3>1. PICK x : x \in t
        BY <2>2
    <3> DEFINE u == t \ {x}
               p == h[u \intersect A]
               q == k[u]
    <3>2. p \in Nat /\ q \in Nat /\ p <= q
        BY <1>1, <1>2, <1>3, <3>1 DEF IsSum
    <3>3. k[t] = g[x] + q /\ g[x] \in Nat
        BY <1>2, <3>1 DEF IsSum
    <3>4. CASE x \in A
      <4>1. (t \intersect A) \ {x} = u \intersect A /\ x \in t \intersect A
          BY <3>1, <3>4
      <4>2. h[t \intersect A] = f[x] + p /\ f[x] \in Nat /\ f[x] <= g[x]
          BY <1>1, <3>4, <4>1 DEF IsSum
      <4> HIDE DEF p, q
      <4> QED BY <3>2, <3>3, <4>2
    <3>5. CASE x \notin A
      <4>1. t \intersect A = u \intersect A
          BY <3>5
      <4> QED BY <3>2, <3>3, <4>1
    <3> QED BY <3>4, <3>5
  <2> QED BY <2>1, <2>2
<1>4. IsFiniteSet(B)
    BY FS_Subset
<1>5. \A t \in SUBSET B : t \in Good
  <2> HIDE DEF Good
  <2> QED BY <1>3, <1>4, AllSubsets
<1>6. h[A] <= k[B] /\ h[A] \in Nat /\ k[B] \in Nat
  <2>1. B \in Good /\ B \intersect A = A
      BY <1>5
  <2> QED BY <1>1, <1>2, <2>1 DEF IsSum
<1>7. SumFunctionOnSet(f, A) = h[A] /\ SumFunctionOnSet(g, B) = k[B]
    BY <1>0, <1>1, <1>2, SumIsTheSum
<1> QED BY <1>6, <1>7

(* A sum with one other summand.                                             *)
LEMMA SumOfOneMore ==
  ASSUME NEW S, IsFiniteSet(S), NEW f \in [S -> Nat], NEW g \in [S -> Nat], NEW i \in S,
         \A x \in S \ {i} : g[x] = f[x]
  PROVE  SumFunctionOnSet(g, S) <= SumFunctionOnSet(f, S) + g[i]
<1>0. Nat \in {Nat, Int}
    OBVIOUS
<1>1. PICK k : IsSum(Nat, k, g, S)
    BY <1>0, SumExists
<1>2. k[S] = g[i] + k[S \ {i}] /\ k[S \ {i}] \in Nat /\ g[i] \in Nat
    BY <1>1 DEF IsSum
<1>3. SumFunctionOnSet(g, S) = k[S] /\ SumFunctionOnSet(g, S \ {i}) = k[S \ {i}]
    BY <1>0, <1>1, SumIsTheSum
<1>4. /\ SumFunctionOnSet(g, S \ {i}) <= SumFunctionOnSet(f, S)
      /\ SumFunctionOnSet(f, S) \in Nat
  <2>1. \A x \in S \ {i} : g[x] <= f[x]
      OBVIOUS
  <2> QED BY <2>1, SumGrows
<1> QED BY <1>2, <1>3, <1>4

-----------------------------------------------------------------------------
(* The import budget.  What admission holds against an import never grows     *)
(* after it was admitted (RowOK), and is no less than what the provider        *)
(* charged for it this month (BillOK); so what is committed stays under the  *)
(* lock, and with it what each month was charged (LockInv, MonthsInv).        *)

Rows == [owner : Owners \union {Nil},
         status : {"none"} \union Waiting \union Processing \union Over,
         reserved : Nat, billed : Nat, pending : {"no", "own", "other"}, updated : Nat]

BudgetTypes ==
  /\ month \in Nat \ {0}
  /\ row \in [Imports -> Rows] /\ pages \in [Imports -> Nat]
  /\ parse \in [Imports -> {"none", "submitted", "lost", "settled"}]
  /\ payer \in [Imports -> Imports \union {Nil}]
  /\ charge \in [Imports -> [credits : Nat, month : Nat]]

Unsettled(i) == parse[i] \in {"submitted", "lost"}

RowOK(i) ==
  /\ row[i].status \notin Over => row[i].pending = "no" /\ row[i].billed = 0
  /\ row[i].status = "none" => row[i].reserved = 0
  /\ row[i].status \in {"none", "held"} => parse[i] = "none"
  /\ row[i].status # "none" => pages[i] <= row[i].reserved
  /\ row[i].status = "parsing" \/ parse[i] # "none" => row[i].reserved = pages[i]
  /\ row[i].billed <= row[i].reserved
  /\ row[i].status \in Over /\ Unsettled(i) => row[i].pending = "own"

ChargeOK(i) ==
  /\ parse[i] = "none" => charge[i] = NoCharge
  /\ charge[i].credits <= row[i].reserved /\ charge[i].month <= month

BillOK(i) ==
  charge[i].month = month /\ row[i].status \in Over /\ row[i].pending = "no" =>
    row[i].updated = month /\ row[i].billed = charge[i].credits

RowsInv == \A i \in Imports : RowOK(i) /\ ChargeOK(i) /\ BillOK(i)

LockInv == Committed > 0 => Committed < TrialLock
MonthsInv == \A m \in 1..(month - 1) : Charged(m) > 0 => Charged(m) < TrialLock
SlotsInv == \A o \in Owners : Cardinality(Blocking(o)) <= Concurrency

BInv == BudgetTypes /\ RowsInv /\ LockInv /\ MonthsInv /\ SlotsInv

LEMMA MaxOfTwo ==
  ASSUME NEW a \in Nat, NEW b \in Nat
  PROVE  Max({a, b}) \in {a, b} /\ Max({a, b}) >= a /\ Max({a, b}) >= b
<1>1. \E x \in {a, b} : \A y \in {a, b} : x >= y
    OBVIOUS
<1> QED BY <1>1 DEF Max

(* What an import is held to cost, by the state of its row.                  *)
LEMMA CostOf ==
  ASSUME NEW r \in Rows
  PROVE  /\ CommittedFor(r) \in Nat
         /\ r.pending # "no" => CommittedFor(r) >= r.reserved /\ CommittedFor(r) >= r.billed
                                  /\ CommittedFor(r) \in {r.reserved, r.billed}
         /\ r.status \notin Over /\ r.pending = "no" => CommittedFor(r) = r.reserved
         /\ r.status \in Over /\ r.pending = "no" =>
              /\ CommittedFor(r) <= r.billed
              /\ ~(r.updated < month) => CommittedFor(r) = r.billed
<1>1. r.reserved \in Nat /\ r.billed \in Nat
    BY DEF Rows
<1>2. /\ Max({r.reserved, r.billed}) \in {r.reserved, r.billed}
      /\ Max({r.reserved, r.billed}) >= r.reserved /\ Max({r.reserved, r.billed}) >= r.billed
    BY <1>1, MaxOfTwo
<1> QED BY <1>1, <1>2 DEF CommittedFor, OfAnEarlierMonth

Costs == [i \in Imports |-> CommittedFor(row[i])]
Credits == [i \in Imports |-> charge[i].credits]

SumsHold ==
  /\ Costs \in [Imports -> Nat] /\ Credits \in [Imports -> Nat]
  /\ Committed = SumFunctionOnSet(Costs, Imports)
  /\ \A m \in Nat : Charged(m) = SumFunctionOnSet(Credits, {i \in Imports : charge[i].month = m})

LEMMA BudgetSums == BudgetTypes => SumsHold
<1> SUFFICES ASSUME BudgetTypes PROVE SumsHold
    OBVIOUS
<1>1. Costs \in [Imports -> Nat]
    BY CostOf DEF BudgetTypes, Costs
<1>2. Credits \in [Imports -> Nat]
    BY DEF BudgetTypes, Credits
<1>3. Committed = SumFunctionOnSet(Costs, Imports)
  <2>1. DOMAIN Costs = Imports
      BY DEF Costs
  <2>2. Committed = SumFunctionOnSet(Costs, DOMAIN Costs)
      BY DEF Committed, SumFunction, Costs
  <2> QED BY <2>1, <2>2
<1> QED BY <1>1, <1>2, <1>3 DEF SumsHold, Charged, Credits

LEMMA BudgetSumsNext == BudgetTypes' => SumsHold'
<1> QED BY BudgetSums, PTL

(* What this month was charged is committed.                                 *)
LEMMA ChargesAreCommitted ==
  ASSUME BInv
  PROVE  Charged(month) > 0 => Charged(month) < TrialLock
<1> DEFINE A == {i \in Imports : charge[i].month = month}
<1>1. IsFiniteSet(Imports) /\ TrialLock \in Nat
    BY BudgetAssumption
<1>2. /\ Costs \in [Imports -> Nat] /\ Credits \in [Imports -> Nat]
      /\ Committed = SumFunctionOnSet(Costs, Imports)
      /\ Charged(month) = SumFunctionOnSet(Credits, A)
  <2>1. SumsHold /\ month \in Nat
      BY BudgetSums DEF BInv, BudgetTypes
  <2> QED BY <2>1 DEF SumsHold
<1>3. ASSUME NEW i \in A PROVE Credits[i] <= Costs[i]
  <2>1. row[i] \in Rows /\ charge[i].credits \in Nat /\ month \in Nat
      BY DEF BInv, BudgetTypes
  <2>2. /\ charge[i].credits <= row[i].reserved
        /\ row[i].status \in Over /\ row[i].pending = "no" =>
             row[i].updated = month /\ row[i].billed = charge[i].credits
      BY DEF BInv, RowsInv, ChargeOK, BillOK
  <2>3. row[i].reserved \in Nat /\ row[i].billed \in Nat /\ CommittedFor(row[i]) \in Nat
      BY <2>1, CostOf DEF Rows
  <2>4. charge[i].credits <= CommittedFor(row[i])
    <3>1. CASE row[i].pending # "no"
        BY <2>1, <2>2, <2>3, <3>1, CostOf
    <3>2. CASE row[i].pending = "no" /\ row[i].status \notin Over
        BY <2>1, <2>2, <2>3, <3>2, CostOf
    <3>3. CASE row[i].pending = "no" /\ row[i].status \in Over
        BY <2>1, <2>2, <2>3, <3>3, CostOf
    <3> QED BY <3>1, <3>2, <3>3
  <2> QED BY <2>4 DEF Credits, Costs
<1> DEFINE due == Committed
           paid == Charged(month)
<1>4. paid \in Nat /\ due \in Nat /\ paid <= due
  <2> HIDE DEF A
  <2>1. A \in SUBSET Imports
      BY DEF A
  <2>2. /\ SumFunctionOnSet(Credits, A) \in Nat /\ SumFunctionOnSet(Costs, Imports) \in Nat
        /\ SumFunctionOnSet(Credits, A) <= SumFunctionOnSet(Costs, Imports)
      BY <1>1, <1>2, <1>3, <2>1, SumGrows
  <2> QED BY <1>2, <2>2
<1>5. due > 0 => due < TrialLock
    BY DEF BInv, LockInv
<1> HIDE DEF due, paid
<1>6. paid > 0 => paid < TrialLock
    BY <1>1, <1>4, <1>5
<1> QED BY <1>6 DEF paid

LEMMA BudgetInitial == BudgetInit => BInv
<1> SUFFICES ASSUME BudgetInit PROVE BInv
    OBVIOUS
<1>1. NewImport \in Rows /\ NewImport.status = "none" /\ NewImport.owner = Nil
      /\ NewImport.pending = "no" /\ NewImport.reserved = 0 /\ NewImport.billed = 0
    BY DEF NewImport, Rows
<1>2. NoCharge \in [credits : Nat, month : Nat] /\ NoCharge.credits = 0 /\ NoCharge.month = 0
    BY DEF NoCharge
<1>3. BudgetTypes
    BY <1>1, <1>2 DEF BudgetInit, BudgetTypes
<1>4. RowsInv
    BY <1>1, <1>2 DEF BudgetInit, RowsInv, RowOK, ChargeOK, BillOK, Unsettled, Over
<1>5. LockInv
  <2> DEFINE Nothings == [i \in Imports |-> 0]
  <2>1. \A i \in Imports : CommittedFor(row[i]) = 0
      BY <1>1, CostOf DEF BudgetInit, Over
  <2>2. Costs = Nothings
      BY <2>1 DEF Costs
  <2>3. PICK h : IsSum(Nat, h, Nothings, Imports)
    <3>1. Nothings \in [Imports -> Nat] /\ IsFiniteSet(Imports) /\ Nat \in {Nat, Int}
        BY BudgetAssumption
    <3> HIDE DEF Nothings
    <3> QED BY <3>1, SumExists
  <2> DEFINE Good == {t \in SUBSET Imports : h[t] = 0}
  <2>4. ASSUME NEW t \in SUBSET Imports, \A x \in t : t \ {x} \in Good
        PROVE  t \in Good
    <3>1. CASE t = {}
        BY <2>3, <3>1 DEF IsSum
    <3>2. CASE t # {}
      <4>1. PICK x \in t : TRUE
          BY <3>2
      <4>2. h[t] = Nothings[x] + h[t \ {x}] /\ h[t \ {x}] = 0
          BY <2>3, <2>4, <4>1 DEF IsSum
      <4> QED BY <4>2
    <3> QED BY <3>1, <3>2
  <2>5. \A t \in SUBSET Imports : t \in Good
    <3> HIDE DEF Good
    <3> QED BY <2>4, BudgetAssumption, AllSubsets
  <2>6. Committed = h[Imports]
    <3>1. /\ Nothings \in [Imports -> Nat] /\ IsFiniteSet(Imports)
          /\ Imports \in SUBSET Imports /\ Nat \in {Nat, Int}
        BY BudgetAssumption
    <3>2. Committed = SumFunctionOnSet(Nothings, Imports)
        BY <1>3, <2>2, BudgetSums DEF SumsHold
    <3> HIDE DEF Nothings
    <3> QED BY <2>3, <3>1, <3>2, SumIsTheSum
  <2>7. Committed = 0
      BY <2>5, <2>6
  <2> QED BY <2>7 DEF LockInv
<1>6. MonthsInv
    BY DEF BudgetInit, MonthsInv
<1>7. SlotsInv
  <2>1. ASSUME NEW o \in Owners PROVE Blocking(o) = {}
      BY <1>1, BudgetAssumption DEF BudgetInit, Blocking, ImportsOf
  <2> QED BY <2>1, FS_EmptySet, BudgetAssumption DEF SlotsInv
<1> QED BY <1>3, <1>4, <1>5, <1>6, <1>7 DEF BInv

-----------------------------------------------------------------------------
(* A step that writes one row only, and lets it cost and block no more.      *)
Blocks(r) == r.status \in Waiting \union Processing \/ r.pending = "own"

LEMMA PutRow ==
  ASSUME BudgetTypes, NEW i \in Imports, NEW r \in Rows, Put(i, r)
  PROVE  /\ row' \in [Imports -> Rows] /\ row'[i] \in Rows
         /\ row'[i].owner = r.owner /\ row'[i].status = r.status
         /\ row'[i].reserved = r.reserved /\ row'[i].billed = r.billed
         /\ row'[i].pending = r.pending /\ row'[i].updated = month
         /\ \A j \in Imports \ {i} : row'[j] = row[j]
<1>1. month \in Nat /\ row \in [Imports -> Rows]
    BY DEF BudgetTypes
<1> DEFINE s == [r EXCEPT !.updated = month]
<1>2. /\ s \in Rows /\ s.owner = r.owner /\ s.status = r.status /\ s.reserved = r.reserved
      /\ s.billed = r.billed /\ s.pending = r.pending /\ s.updated = month
    BY <1>1 DEF Rows
<1>3. row' = [row EXCEPT ![i] = s]
    BY DEF Put
<1> HIDE DEF s
<1> QED BY <1>1, <1>2, <1>3

LEMMA SameCharges ==
  ASSUME BudgetTypes, BudgetTypes', charge' = charge
  PROVE  \A m \in Nat : Charged(m)' = Charged(m)
<1>1. SumsHold /\ SumsHold'
    BY BudgetSums, BudgetSumsNext
<1>2. Credits' = Credits
    BY DEF Credits
<1> SUFFICES ASSUME NEW m \in Nat PROVE Charged(m)' = Charged(m)
    OBVIOUS
<1> DEFINE A == {i \in Imports : charge[i].month = m}
           B == {i \in Imports : charge'[i].month = m}
<1>3. A = B
    OBVIOUS
<1>4. /\ Charged(m) = SumFunctionOnSet(Credits, A)
      /\ Charged(m)' = SumFunctionOnSet(Credits', B)
    BY <1>1 DEF SumsHold
<1> HIDE DEF A, B
<1> QED BY <1>2, <1>3, <1>4

(* Nothing costs more, so no more is committed.                              *)
LEMMA LockIsKept ==
  ASSUME BudgetTypes, BudgetTypes', LockInv, \A i \in Imports : Costs'[i] <= Costs[i]
  PROVE  LockInv'
<1>1. SumsHold /\ SumsHold' /\ IsFiniteSet(Imports) /\ TrialLock \in Nat
    BY BudgetSums, BudgetSumsNext, BudgetAssumption
<1>2. /\ Costs \in [Imports -> Nat] /\ Costs' \in [Imports -> Nat]
      /\ Committed = SumFunctionOnSet(Costs, Imports)
      /\ Committed' = SumFunctionOnSet(Costs', Imports)
    BY <1>1 DEF SumsHold
<1> DEFINE f == Costs'
           g == Costs
<1>3. f \in [Imports -> Nat] /\ g \in [Imports -> Nat] /\ \A i \in Imports : f[i] <= g[i]
    BY <1>2
<1> HIDE DEF f, g
<1>4. /\ SumFunctionOnSet(f, Imports) \in Nat /\ SumFunctionOnSet(g, Imports) \in Nat
      /\ SumFunctionOnSet(f, Imports) <= SumFunctionOnSet(g, Imports)
    BY <1>1, <1>3, SumGrows
<1>5. Committed' \in Nat /\ Committed \in Nat /\ Committed' <= Committed
    BY <1>2, <1>4 DEF f, g
<1> DEFINE u == Committed
           v == Committed'
<1>6. u > 0 => u < TrialLock
    BY DEF LockInv
<1>7. v \in Nat /\ u \in Nat /\ v <= u
    BY <1>5
<1> HIDE DEF u, v
<1>8. v > 0 => v < TrialLock
    BY <1>1, <1>6, <1>7
<1> QED BY <1>8 DEF v, LockInv

LEMMA FewerBlock ==
  ASSUME NEW o, NEW A, A \subseteq Blocking(o), Cardinality(Blocking(o)) <= Concurrency
  PROVE  Cardinality(A) <= Concurrency
<1>1. IsFiniteSet(Blocking(o))
  <2>1. Blocking(o) \subseteq Imports
      BY DEF Blocking, ImportsOf
  <2> QED BY <2>1, BudgetAssumption, FS_Subset
<1>2. IsFiniteSet(A) /\ Cardinality(A) <= Cardinality(Blocking(o))
    BY <1>1, FS_Subset
<1>3. Cardinality(A) \in Nat /\ Cardinality(Blocking(o)) \in Nat /\ Concurrency \in Nat
    BY <1>1, <1>2, FS_CardinalityType, BudgetAssumption
<1> QED BY <1>2, <1>3

LEMMA RowStep ==
  ASSUME BInv, NEW i \in Imports, NEW r \in Rows, Put(i, r), OnlyTheRow,
         RowOK(i)', ChargeOK(i)', BillOK(i)',
         CommittedFor(row'[i]) <= CommittedFor(row[i]),
         r.owner = row[i].owner, Blocks(r) => Blocks(row[i])
  PROVE  BInv'
<1>1. /\ BudgetTypes /\ RowsInv /\ LockInv /\ MonthsInv /\ SlotsInv
      /\ month' = month /\ pages' = pages /\ parse' = parse /\ payer' = payer /\ charge' = charge
    BY DEF BInv, OnlyTheRow
<1>2. /\ row' \in [Imports -> Rows] /\ row'[i] \in Rows
      /\ row'[i].owner = r.owner /\ row'[i].status = r.status /\ row'[i].pending = r.pending
      /\ \A j \in Imports \ {i} : row'[j] = row[j]
    BY <1>1, PutRow
<1>3. BudgetTypes'
    BY <1>1, <1>2 DEF BudgetTypes
<1>4. RowsInv'
  <2> SUFFICES ASSUME NEW j \in Imports, j # i
               PROVE  (RowOK(j) /\ ChargeOK(j) /\ BillOK(j))'
      BY DEF RowsInv
  <2>1. RowOK(j) /\ ChargeOK(j) /\ BillOK(j) /\ row'[j] = row[j]
      BY <1>1, <1>2 DEF RowsInv
  <2> QED BY <1>1, <2>1 DEF RowOK, ChargeOK, BillOK, Unsettled
<1>5. LockInv'
  <2>1. ASSUME NEW j \in Imports PROVE Costs'[j] <= Costs[j]
    <3>1. Costs'[j] = CommittedFor(row'[j]) /\ Costs[j] = CommittedFor(row[j])
        BY <1>1 DEF Costs, CommittedFor, OfAnEarlierMonth
    <3>2. CommittedFor(row[j]) \in Nat
        BY <1>1, CostOf DEF BudgetTypes
    <3> QED BY <1>2, <3>1, <3>2
  <2> QED BY <1>1, <1>3, <2>1, LockIsKept
<1>6. MonthsInv'
  <2>1. ASSUME NEW m \in 1..(month - 1) PROVE Charged(m)' = Charged(m)
      BY <1>1, <1>3, SameCharges DEF BudgetTypes
  <2> QED BY <1>1, <2>1 DEF MonthsInv
<1>7. SlotsInv'
  <2> SUFFICES ASSUME NEW o \in Owners PROVE Cardinality(Blocking(o)') <= Concurrency
      BY DEF SlotsInv
  <2>1. Blocking(o)' \subseteq Blocking(o)
      BY <1>1, <1>2 DEF Blocking, ImportsOf, Blocks
  <2> QED BY <1>1, <2>1, FewerBlock DEF SlotsInv
<1> QED BY <1>3, <1>4, <1>5, <1>6, <1>7 DEF BInv

(* So does one that reserves no more, and bills within it what was charged.   *)
RowFits(i, r) ==
  /\ r.status \notin {"none", "held"}
  /\ r.status \notin Over => r.pending = "no" /\ r.billed = 0
  /\ pages[i] <= r.reserved
  /\ r.status = "parsing" \/ parse[i] # "none" => r.reserved = pages[i]
  /\ r.billed <= r.reserved
  /\ r.status \in Over /\ Unsettled(i) => r.pending = "own"
  /\ charge[i].credits <= r.reserved
  /\ charge[i].month = month /\ r.status \in Over /\ r.pending = "no" =>
       r.billed = charge[i].credits

LEMMA RowRewritten ==
  ASSUME BInv, NEW i \in Imports, NEW r \in Rows, Put(i, r), OnlyTheRow, RowFits(i, r),
         row[i].status \notin Over \/ row[i].pending # "no",
         r.owner = row[i].owner, r.reserved <= row[i].reserved, Blocks(r) => Blocks(row[i])
  PROVE  BInv'
<1>1. /\ BudgetTypes /\ RowOK(i) /\ ChargeOK(i)
      /\ month' = month /\ pages' = pages /\ parse' = parse /\ charge' = charge
    BY DEF BInv, OnlyTheRow, RowsInv
<1>2. /\ row'[i] \in Rows /\ row'[i].status = r.status
      /\ row'[i].reserved = r.reserved /\ row'[i].billed = r.billed
      /\ row'[i].pending = r.pending /\ row'[i].updated = month
    BY <1>1, PutRow
<1>3. RowOK(i)'
    BY <1>1, <1>2 DEF RowFits, RowOK, Unsettled
<1>4. ChargeOK(i)'
    BY <1>1, <1>2 DEF RowFits, ChargeOK
<1>5. BillOK(i)'
    BY <1>1, <1>2 DEF RowFits, BillOK
<1>6. CommittedFor(row'[i]) <= CommittedFor(row[i])
  <2> DEFINE s == row'[i]
             w == row[i]
             a == CommittedFor(s)
             b == CommittedFor(w)
  <2>1. w \in Rows /\ s \in Rows
      BY <1>1, <1>2 DEF BudgetTypes
  <2>2. /\ w.reserved \in Nat /\ s.reserved \in Nat /\ s.billed \in Nat
        /\ s.reserved <= w.reserved /\ s.billed <= s.reserved
    <3> HIDE DEF s, w
    <3>1. w.reserved \in Nat /\ s.reserved \in Nat /\ s.billed \in Nat
        BY <2>1 DEF Rows
    <3>2. s.reserved <= w.reserved /\ s.billed <= s.reserved
        BY <1>2 DEF RowFits, s, w
    <3> QED BY <3>1, <3>2
  <2>3. (w.status \notin Over /\ w.pending = "no") \/ w.pending # "no"
      BY <1>1 DEF RowOK
  <2> HIDE DEF s, w
  <2>4. b \in Nat /\ b >= w.reserved
      BY <2>1, <2>2, <2>3, CostOf
  <2>5. a \in Nat /\ a <= s.reserved
    <3>1. CASE s.pending # "no"
        BY <2>1, <2>2, <3>1, CostOf
    <3>2. CASE s.pending = "no" /\ s.status \notin Over
        BY <2>1, <2>2, <3>2, CostOf
    <3>3. CASE s.pending = "no" /\ s.status \in Over
        BY <2>1, <2>2, <3>3, CostOf
    <3> QED BY <3>1, <3>2, <3>3
  <2> HIDE DEF a, b
  <2>6. a <= b
      BY <2>2, <2>4, <2>5
  <2> QED BY <2>6 DEF a, b, s, w
<1> QED BY <1>2, <1>3, <1>4, <1>5, <1>6, RowStep

(* What a row is rewritten to, but for its bill.                             *)
LEMMA StatusOnly ==
  ASSUME NEW r \in Rows, NEW status \in Waiting \union Processing \union Over
  PROVE  LET s == [r EXCEPT !.status = status]
         IN  /\ s \in Rows /\ s.owner = r.owner /\ s.status = status /\ s.reserved = r.reserved
             /\ s.billed = r.billed /\ s.pending = r.pending
<1> QED BY DEF Rows

LEMMA BillOf ==
  ASSUME NEW i \in Imports, NEW r \in Rows, BudgetTypes
  PROVE  LET s == Billed(i, r)
         IN  /\ s \in Rows /\ s.owner = r.owner /\ s.status = r.status /\ s.reserved = r.reserved
             /\ s.pending = "own" <=> Unsettled(i)
             /\ s.billed \in {0, charge[i].credits}
             /\ s.pending = "no" /\ parse[i] = "settled" => s.billed = charge[i].credits
<1>1. charge[i].credits \in Nat
    BY DEF BudgetTypes
<1> QED BY <1>1 DEF Billed, Rows, Unsettled

(* The row of an import, with its bounds, before a step that writes it.       *)
LEMMA RowBefore ==
  ASSUME BInv, NEW i \in Imports
  PROVE  /\ BudgetTypes /\ RowOK(i) /\ ChargeOK(i) /\ BillOK(i)
         /\ row[i] \in Rows /\ row[i].reserved \in Nat /\ row[i].billed \in Nat
         /\ pages[i] \in Nat /\ charge[i].credits \in Nat /\ month \in Nat \ {0}
         /\ parse[i] = "none" => charge[i].credits = 0 /\ charge[i].month = 0
<1>1. BudgetTypes /\ RowOK(i) /\ ChargeOK(i) /\ BillOK(i)
    BY DEF BInv, RowsInv
<1>2. NoCharge.credits = 0 /\ NoCharge.month = 0
    BY DEF NoCharge
<1> QED BY <1>1, <1>2 DEF BudgetTypes, Rows, ChargeOK

LEMMA QueuedRows ==
  ASSUME BInv, NEW i \in Imports,
         ReleaseHold(i) \/ CancelHeld(i) \/ ClaimJob(i) \/ Download(i)
  PROVE  BInv'
<1>1. /\ BudgetTypes /\ RowOK(i) /\ ChargeOK(i) /\ BillOK(i)
      /\ row[i] \in Rows /\ row[i].reserved \in Nat /\ row[i].billed \in Nat
      /\ pages[i] \in Nat /\ charge[i].credits \in Nat /\ month \in Nat \ {0}
      /\ parse[i] = "none" => charge[i].credits = 0 /\ charge[i].month = 0
    BY RowBefore
<1>2. CASE ReleaseHold(i)
  <2> DEFINE s == [row[i] EXCEPT !.status = "queued"]
  <2>1. /\ s \in Rows /\ s.owner = row[i].owner /\ s.status = "queued"
        /\ s.reserved = row[i].reserved /\ s.billed = row[i].billed /\ s.pending = row[i].pending
      BY <1>1, StatusOnly DEF Waiting
  <2>2. Put(i, s) /\ OnlyTheRow /\ row[i].status = "held"
      BY <1>2 DEF ReleaseHold
  <2> HIDE DEF s
  <2>3. RowFits(i, s)
      BY <1>1, <2>1, <2>2 DEF RowFits, RowOK, ChargeOK, Over, Unsettled
  <2> QED BY <1>1, <2>1, <2>2, <2>3, RowRewritten DEF Blocks, Waiting, Over, RowOK
<1>3. CASE CancelHeld(i)
  <2> DEFINE s == [row[i] EXCEPT !.status = "failed"]
  <2>1. /\ s \in Rows /\ s.owner = row[i].owner /\ s.status = "failed"
        /\ s.reserved = row[i].reserved /\ s.billed = row[i].billed /\ s.pending = row[i].pending
      BY <1>1, StatusOnly DEF Over
  <2>2. Put(i, s) /\ OnlyTheRow /\ row[i].status = "held"
      BY <1>3 DEF CancelHeld
  <2> HIDE DEF s
  <2>3. RowFits(i, s)
      BY <1>1, <2>1, <2>2 DEF RowFits, RowOK, ChargeOK, Over, Unsettled
  <2> QED BY <1>1, <2>1, <2>2, <2>3, RowRewritten DEF Blocks, Waiting, Over, RowOK
<1>4. CASE ClaimJob(i)
  <2> DEFINE s == [row[i] EXCEPT !.status = "downloading"]
  <2>1. /\ s \in Rows /\ s.owner = row[i].owner /\ s.status = "downloading"
        /\ s.reserved = row[i].reserved /\ s.billed = row[i].billed /\ s.pending = row[i].pending
      BY <1>1, StatusOnly DEF Processing
  <2>2. Put(i, s) /\ OnlyTheRow /\ row[i].status = "queued"
      BY <1>4 DEF ClaimJob
  <2> HIDE DEF s
  <2>3. RowFits(i, s)
      BY <1>1, <2>1, <2>2 DEF RowFits, RowOK, ChargeOK, Over, Unsettled
  <2> QED BY <1>1, <2>1, <2>2, <2>3, RowRewritten DEF Blocks, Waiting, Over, RowOK
<1>5. CASE Download(i)
  <2> DEFINE s == [row[i] EXCEPT !.status = "parsing", !.reserved = pages[i]]
  <2>1. /\ s \in Rows /\ s.owner = row[i].owner /\ s.status = "parsing"
        /\ s.reserved = pages[i] /\ s.billed = row[i].billed /\ s.pending = row[i].pending
      BY <1>1 DEF Rows, Processing
  <2>2. Put(i, s) /\ OnlyTheRow /\ row[i].status = "downloading"
      BY <1>5 DEF Download
  <2> HIDE DEF s
  <2>3. charge[i].credits <= pages[i] /\ pages[i] <= row[i].reserved /\ row[i].billed = 0
      BY <1>1, <2>2 DEF RowOK, ChargeOK, Over
  <2>4. RowFits(i, s)
      BY <1>1, <2>1, <2>2, <2>3 DEF RowFits, RowOK, Over, Unsettled
  <2> QED BY <1>1, <2>1, <2>2, <2>3, <2>4, RowRewritten DEF Blocks, Processing, Over, RowOK
<1> QED BY <1>2, <1>3, <1>4, <1>5

(* A bill fits: it is what was charged, or waits for that.                   *)
LEMMA BillFits ==
  ASSUME BInv, NEW i \in Imports, NEW r \in Rows, r.status \in Over,
         r.reserved = row[i].reserved, row[i].status \notin {"none", "held"}
  PROVE  RowFits(i, Billed(i, r))
<1>1. /\ BudgetTypes /\ RowOK(i) /\ ChargeOK(i)
      /\ row[i].reserved \in Nat /\ pages[i] \in Nat /\ charge[i].credits \in Nat
      /\ parse[i] = "none" => charge[i].credits = 0 /\ charge[i].month = 0
      /\ month \in Nat \ {0}
      /\ parse[i] \in {"none", "submitted", "lost", "settled"}
    BY RowBefore DEF BudgetTypes
<1> DEFINE s == Billed(i, r)
<1>2. /\ s.status \in Over /\ s.reserved = row[i].reserved
      /\ s.pending = "own" <=> Unsettled(i)
      /\ s.billed \in {0, charge[i].credits}
      /\ s.pending = "no" /\ parse[i] = "settled" => s.billed = charge[i].credits
    BY <1>1, BillOf
<1> HIDE DEF s
<1>3. RowFits(i, s)
    BY <1>1, <1>2 DEF RowFits, RowOK, ChargeOK, Over, Unsettled
<1> QED BY <1>3 DEF s

LEMMA BilledRows ==
  ASSUME BInv, NEW i \in Imports, RunEnds(i) \/ RecoverImport(i) \/ Reconcile(i)
  PROVE  BInv'
<1>1. /\ BudgetTypes /\ RowOK(i) /\ ChargeOK(i) /\ BillOK(i)
      /\ row[i] \in Rows /\ row[i].reserved \in Nat /\ row[i].billed \in Nat
      /\ pages[i] \in Nat /\ charge[i].credits \in Nat /\ month \in Nat \ {0}
    BY RowBefore
<1>2. ASSUME NEW status \in Over, row[i].status \in Processing, OnlyTheRow,
             Put(i, Billed(i, [row[i] EXCEPT !.status = status]))
      PROVE  BInv'
  <2> DEFINE r == [row[i] EXCEPT !.status = status]
             s == Billed(i, r)
  <2>1. r \in Rows /\ r.owner = row[i].owner /\ r.status = status /\ r.reserved = row[i].reserved
      BY <1>1, StatusOnly
  <2>2. Put(i, s)
      BY <1>2
  <2>3. row[i].status \notin {"none", "held"} /\ row[i].status \notin Over /\ Blocks(row[i])
      BY <1>2 DEF Processing, Over, Blocks
  <2> HIDE DEF r
  <2>4. RowFits(i, s)
      BY <2>1, <2>3, BillFits
  <2>5. s \in Rows /\ s.owner = row[i].owner /\ s.reserved = row[i].reserved
      BY <1>1, <2>1, BillOf
  <2> HIDE DEF s
  <2> QED BY <1>1, <1>2, <2>2, <2>3, <2>4, <2>5, RowRewritten
<1>3. CASE RunEnds(i)
    BY <1>2, <1>3 DEF RunEnds, Over
<1>4. CASE RecoverImport(i)
  <2>1. row[i].status \in Processing /\ OnlyTheRow
      BY <1>4 DEF RecoverImport
  <2>2. row[i].status \notin {"none", "held"} /\ row[i].status \notin Over /\ Blocks(row[i])
      BY <2>1 DEF Processing, Over, Blocks
  <2>3. CASE parse[i] = "lost"
    <3> DEFINE s == [row[i] EXCEPT !.status = "failed", !.pending = "own", !.billed = 0]
    <3>1. /\ s \in Rows /\ s.owner = row[i].owner /\ s.status = "failed"
          /\ s.reserved = row[i].reserved /\ s.billed = 0 /\ s.pending = "own"
        BY <1>1 DEF Rows, Over
    <3>2. Put(i, s)
        BY <1>4, <2>3 DEF RecoverImport
    <3> HIDE DEF s
    <3>3. RowFits(i, s)
        BY <1>1, <2>2, <3>1 DEF RowFits, RowOK, ChargeOK, Over
    <3> QED BY <1>1, <2>1, <2>2, <3>1, <3>2, <3>3, RowRewritten
  <2>4. CASE parse[i] # "lost"
    <3> DEFINE s == [row[i] EXCEPT !.status = "queued"]
    <3>1. /\ s \in Rows /\ s.owner = row[i].owner /\ s.status = "queued"
          /\ s.reserved = row[i].reserved /\ s.billed = row[i].billed /\ s.pending = row[i].pending
        BY <1>1, StatusOnly DEF Waiting
    <3>2. Put(i, s)
        BY <1>4, <2>4 DEF RecoverImport
    <3> HIDE DEF s
    <3>3. RowFits(i, s)
        BY <1>1, <2>2, <3>1 DEF RowFits, RowOK, ChargeOK, Over
    <3> QED BY <1>1, <2>1, <2>2, <3>1, <3>2, <3>3, RowRewritten
  <2> QED BY <2>3, <2>4
<1>5. CASE Reconcile(i)
  <2> DEFINE s == Billed(i, row[i])
  <2>1. row[i].status \in Over /\ row[i].pending # "no" /\ OnlyTheRow /\ Put(i, s)
      BY <1>5 DEF Reconcile
  <2>2. RowFits(i, s)
      BY <1>1, <2>1, BillFits DEF Over
  <2>3. /\ s \in Rows /\ s.owner = row[i].owner /\ s.status = row[i].status
        /\ s.reserved = row[i].reserved
        /\ s.pending = "own" <=> Unsettled(i)
      BY <1>1, BillOf
  <2> HIDE DEF s
  <2>4. Blocks(s) => Blocks(row[i])
      BY <1>1, <2>1, <2>3 DEF Blocks, RowOK, Over, Waiting, Processing
  <2> QED BY <1>1, <2>1, <2>2, <2>3, <2>4, RowRewritten
<1> QED BY <1>3, <1>4, <1>5

(* The ledger and the provider leave the rows, and what is committed, alone.  *)
LEMMA SameRows ==
  ASSUME BInv, BudgetTypes', month' = month, row' = row
  PROVE  LockInv' /\ SlotsInv'
<1>1. Costs' = Costs
    BY DEF Costs, CommittedFor, OfAnEarlierMonth
<1>2. LockInv'
  <2>1. SumsHold /\ SumsHold' /\ LockInv
      BY BudgetSums, BudgetSumsNext DEF BInv
  <2>2. Committed' = Committed
      BY <1>1, <2>1 DEF SumsHold
  <2> QED BY <2>1, <2>2 DEF LockInv
<1>3. \A o \in Owners : Blocking(o)' = Blocking(o)
    BY DEF Blocking, ImportsOf
<1> QED BY <1>2, <1>3 DEF BInv, SlotsInv

LEMMA LedgerSteps ==
  ASSUME BInv, NEW i \in Imports, Submit(i) \/ NoteUsage(i)
  PROVE  BInv'
<1>1. /\ BudgetTypes /\ RowOK(i) /\ ChargeOK(i) /\ BillOK(i) /\ RowsInv /\ MonthsInv
      /\ month \in Nat \ {0}
      /\ parse[i] = "none" => charge[i].credits = 0 /\ charge[i].month = 0
    BY RowBefore DEF BInv
<1>2. /\ month' = month /\ row' = row /\ pages' = pages /\ charge' = charge
      /\ \A j \in Imports \ {i} : parse'[j] = parse[j]
    BY <1>1 DEF Submit, NoteUsage, BudgetTypes
<1>3. BudgetTypes'
    BY <1>1, <1>2 DEF Submit, NoteUsage, BudgetTypes
<1>4. RowsInv'
  <2>1. ASSUME NEW j \in Imports, j # i PROVE (RowOK(j) /\ ChargeOK(j) /\ BillOK(j))'
    <3>1. RowOK(j) /\ ChargeOK(j) /\ BillOK(j)
        BY <1>1 DEF RowsInv
    <3> QED BY <1>2, <2>1, <3>1 DEF RowOK, ChargeOK, BillOK, Unsettled
  <2>2. (RowOK(i) /\ ChargeOK(i) /\ BillOK(i))'
    <3>1. CASE Submit(i)
      <4>1. row[i].status = "parsing" /\ parse[i] = "none"
          BY <3>1 DEF Submit
      <4> QED BY <1>1, <1>2, <4>1 DEF RowOK, ChargeOK, BillOK, Unsettled, Over
    <3>2. CASE NoteUsage(i)
      <4>1. parse[i] = "submitted" /\ parse'[i] = "settled"
          BY <1>1, <3>2 DEF NoteUsage, BudgetTypes
      <4> QED BY <1>1, <1>2, <4>1 DEF RowOK, ChargeOK, BillOK, Unsettled
    <3> QED BY <3>1, <3>2
  <2> QED BY <2>1, <2>2 DEF RowsInv
<1>5. LockInv' /\ SlotsInv'
    BY <1>2, <1>3, SameRows
<1>6. MonthsInv'
  <2>1. ASSUME NEW m \in 1..(month - 1) PROVE Charged(m)' = Charged(m)
      BY <1>1, <1>2, <1>3, SameCharges
  <2> QED BY <1>1, <1>2, <2>1 DEF MonthsInv
<1> QED BY <1>3, <1>4, <1>5, <1>6 DEF BInv

LEMMA Charging ==
  ASSUME BInv, NEW i \in Imports, ProviderCharges(i)
  PROVE  BInv'
<1>1. /\ BudgetTypes /\ RowOK(i) /\ ChargeOK(i) /\ RowsInv /\ MonthsInv
      /\ month \in Nat \ {0} /\ row[i].reserved \in Nat /\ Unsettled(i)
      /\ month' = month /\ row' = row /\ pages' = pages /\ parse' = parse /\ payer' = payer
    BY RowBefore DEF BInv, ProviderCharges, Unsettled
<1>2. PICK n \in 0..row[i].reserved :
        charge' = [charge EXCEPT ![i] = [credits |-> n, month |-> month]]
    BY DEF ProviderCharges
<1>3. /\ charge'[i].credits = n /\ charge'[i].month = month
      /\ n \in Nat /\ n <= row[i].reserved
      /\ \A j \in Imports \ {i} : charge'[j] = charge[j]
    BY <1>1, <1>2 DEF BudgetTypes
<1>4. BudgetTypes'
    BY <1>1, <1>2 DEF BudgetTypes
<1>5. RowsInv'
  <2>1. ASSUME NEW j \in Imports, j # i PROVE (RowOK(j) /\ ChargeOK(j) /\ BillOK(j))'
    <3>1. RowOK(j) /\ ChargeOK(j) /\ BillOK(j)
        BY <1>1 DEF RowsInv
    <3> QED BY <1>1, <1>3, <2>1, <3>1 DEF RowOK, ChargeOK, BillOK, Unsettled
  <2>2. (RowOK(i) /\ ChargeOK(i) /\ BillOK(i))'
      BY <1>1, <1>3 DEF RowOK, ChargeOK, BillOK, Unsettled
  <2> QED BY <2>1, <2>2 DEF RowsInv
<1>6. LockInv' /\ SlotsInv'
    BY <1>1, <1>4, SameRows
<1>7. MonthsInv'
  <2> SUFFICES ASSUME NEW m \in 1..(month - 1)
               PROVE  Charged(m)' > 0 => Charged(m)' < TrialLock
      BY <1>1 DEF MonthsInv
  <2> DEFINE f == Credits'
             A == {j \in Imports : charge'[j].month = m}
  <2>1. /\ Credits \in [Imports -> Nat] /\ f \in [Imports -> Nat]
        /\ Charged(m) = SumFunctionOnSet(Credits, {j \in Imports : charge[j].month = m})
        /\ Charged(m)' = SumFunctionOnSet(f, A)
    <3>1. SumsHold /\ SumsHold' /\ m \in Nat
        BY <1>1, <1>4, BudgetSums, BudgetSumsNext
    <3> QED BY <3>1 DEF SumsHold
  <2>2. A \subseteq {j \in Imports : charge[j].month = m} /\ i \notin A
      BY <1>1, <1>3
  <2>3. \A j \in A : f[j] <= Credits[j]
    <3> SUFFICES ASSUME NEW j \in A PROVE f[j] <= Credits[j]
        OBVIOUS
    <3>1. f[j] = Credits[j] /\ Credits[j] \in Nat
        BY <1>3, <2>1, <2>2 DEF Credits
    <3> QED BY <3>1
  <2> HIDE DEF f, A
  <2>4. Charged(m)' \in Nat /\ Charged(m) \in Nat /\ Charged(m)' <= Charged(m)
      BY <2>1, <2>2, <2>3, SumGrows, BudgetAssumption
  <2>5. Charged(m) > 0 => Charged(m) < TrialLock
      BY <1>1 DEF MonthsInv
  <2> DEFINE u == Charged(m)
             v == Charged(m)'
  <2>6. v \in Nat /\ u \in Nat /\ v <= u /\ (u > 0 => u < TrialLock) /\ TrialLock \in Nat
      BY <2>4, <2>5, BudgetAssumption
  <2> HIDE DEF u, v
  <2>7. v > 0 => v < TrialLock
      BY <2>6
  <2> QED BY <2>7 DEF v
<1> QED BY <1>4, <1>5, <1>6, <1>7 DEF BInv

(* An import is admitted within both limits.                                 *)
LEMMA Admitting ==
  ASSUME BInv, NEW i \in Imports, NEW o \in Owners, AdmitJob(i, o)
  PROVE  BInv'
<1>1. /\ BudgetTypes /\ RowOK(i) /\ ChargeOK(i) /\ RowsInv /\ MonthsInv /\ SlotsInv
      /\ month \in Nat \ {0}
      /\ parse[i] = "none" => charge[i].credits = 0 /\ charge[i].month = 0
    BY RowBefore DEF BInv
<1>2. /\ row[i].status = "none" /\ MaySlot(o)
      /\ month' = month /\ parse' = parse /\ payer' = payer /\ charge' = charge
    BY DEF AdmitJob
<1>3. PICK n \in 1..PageLimit, status \in Waiting :
         \E reserved \in {n, PageLimit} :
           /\ MayReserve(reserved)
           /\ Put(i, [NewImport EXCEPT !.owner = o, !.status = status, !.reserved = reserved])
           /\ pages' = [pages EXCEPT ![i] = n]
    BY DEF AdmitJob
<1>4. PICK reserved \in {n, PageLimit} :
        /\ MayReserve(reserved)
        /\ Put(i, [NewImport EXCEPT !.owner = o, !.status = status, !.reserved = reserved])
        /\ pages' = [pages EXCEPT ![i] = n]
    BY <1>3
<1> DEFINE r == [NewImport EXCEPT !.owner = o, !.status = status, !.reserved = reserved]
<1>5. PageLimit \in Nat /\ TrialLock \in Nat /\ Concurrency \in Nat
    BY BudgetAssumption
<1>6. n \in Nat /\ reserved \in Nat /\ n <= reserved
    BY <1>4, <1>5
<1>7. /\ r \in Rows /\ r.owner = o /\ r.status = status /\ r.reserved = reserved
      /\ r.billed = 0 /\ r.pending = "no"
    BY <1>6 DEF NewImport, Rows
<1>8. Put(i, r)
    BY <1>4
<1> HIDE DEF r
<1>9. /\ row' \in [Imports -> Rows] /\ row'[i] \in Rows
      /\ row'[i].owner = o /\ row'[i].status = status
      /\ row'[i].reserved = reserved /\ row'[i].billed = 0
      /\ row'[i].pending = "no" /\ row'[i].updated = month
      /\ \A j \in Imports \ {i} : row'[j] = row[j]
    BY <1>1, <1>7, <1>8, PutRow
<1>10. pages'[i] = n /\ \A j \in Imports \ {i} : pages'[j] = pages[j]
    BY <1>1, <1>4 DEF BudgetTypes
<1>11. BudgetTypes'
    BY <1>1, <1>2, <1>4, <1>6, <1>9 DEF BudgetTypes
<1>12. RowsInv'
  <2>1. ASSUME NEW j \in Imports, j # i PROVE (RowOK(j) /\ ChargeOK(j) /\ BillOK(j))'
    <3>1. RowOK(j) /\ ChargeOK(j) /\ BillOK(j) /\ row'[j] = row[j] /\ pages'[j] = pages[j]
        BY <1>1, <1>9, <1>10, <2>1 DEF RowsInv
    <3> QED BY <1>2, <3>1 DEF RowOK, ChargeOK, BillOK, Unsettled
  <2>2. status \notin Over /\ status \notin {"none", "parsing"} /\ parse[i] = "none"
      BY <1>1, <1>2 DEF Waiting, Over, RowOK
  <2>3. (RowOK(i) /\ ChargeOK(i) /\ BillOK(i))'
      BY <1>1, <1>2, <1>6, <1>9, <1>10, <2>2 DEF RowOK, ChargeOK, BillOK, Unsettled
  <2> QED BY <2>1, <2>3 DEF RowsInv
<1>13. LockInv'
  <2> DEFINE g == Costs'
  <2>1. /\ Costs \in [Imports -> Nat] /\ g \in [Imports -> Nat]
        /\ Committed = SumFunctionOnSet(Costs, Imports)
        /\ Committed' = SumFunctionOnSet(g, Imports)
      BY <1>1, <1>11, BudgetSums, BudgetSumsNext DEF SumsHold
  <2>2. \A j \in Imports : g[j] = CommittedFor(row'[j])
      BY <1>2 DEF Costs, CommittedFor, OfAnEarlierMonth
  <2>3. g[i] = reserved
    <3>1. status \notin Over
        BY DEF Waiting, Over
    <3> QED BY <1>9, <2>2, <3>1, CostOf
  <2>4. \A j \in Imports \ {i} : g[j] = Costs[j]
      BY <1>9, <2>2 DEF Costs
  <2> HIDE DEF g
  <2>5. SumFunctionOnSet(g, Imports) <= SumFunctionOnSet(Costs, Imports) + g[i]
      BY <2>1, <2>4, SumOfOneMore, BudgetAssumption
  <2>6. SumFunctionOnSet(g, Imports) \in Nat /\ SumFunctionOnSet(Costs, Imports) \in Nat
    <3>1. \A j \in Imports : g[j] <= g[j] /\ Costs[j] <= Costs[j]
        BY <2>1
    <3>2. Imports \in SUBSET Imports /\ IsFiniteSet(Imports)
        BY BudgetAssumption
    <3>3. SumFunctionOnSet(g, Imports) \in Nat
        BY <2>1, <3>1, <3>2, SumGrows
    <3>4. SumFunctionOnSet(Costs, Imports) \in Nat
        BY <2>1, <3>1, <3>2, SumGrows
    <3> QED BY <3>3, <3>4
  <2>7. SumFunctionOnSet(Costs, Imports) + reserved < TrialLock
      BY <1>4, <2>1 DEF MayReserve
  <2> DEFINE u == SumFunctionOnSet(Costs, Imports)
             v == SumFunctionOnSet(g, Imports)
  <2>8. u \in Nat /\ v \in Nat /\ v <= u + reserved /\ u + reserved < TrialLock
      BY <2>3, <2>5, <2>6, <2>7
  <2> HIDE DEF u, v
  <2>9. v < TrialLock
      BY <1>5, <1>6, <2>8
  <2> QED BY <2>1, <2>9 DEF v, LockInv
<1>14. MonthsInv'
  <2>1. ASSUME NEW m \in 1..(month - 1) PROVE Charged(m)' = Charged(m)
      BY <1>1, <1>2, <1>11, SameCharges
  <2> QED BY <1>1, <1>2, <2>1 DEF MonthsInv
<1>15. SlotsInv'
  <2> SUFFICES ASSUME NEW p \in Owners PROVE Cardinality(Blocking(p)') <= Concurrency
      BY DEF SlotsInv
  <2>1. CASE p # o
    <3>1. Blocking(p)' \subseteq Blocking(p)
        BY <1>2, <1>9, <2>1 DEF Blocking, ImportsOf
    <3> QED BY <1>1, <3>1, FewerBlock DEF SlotsInv
  <2>2. CASE p = o
    <3> DEFINE B == Blocking(o)
    <3>1. Blocking(o)' \subseteq B \union {i}
        BY <1>2, <1>9 DEF Blocking, ImportsOf
    <3>2. IsFiniteSet(B) /\ Cardinality(B) < Concurrency
      <4>1. B \subseteq Imports
          BY DEF Blocking, ImportsOf
      <4>2. Cardinality(B) < Concurrency
          BY <1>2 DEF MaySlot
      <4> QED BY <4>1, <4>2, FS_Subset, BudgetAssumption
    <3> HIDE DEF B
    <3>3. /\ IsFiniteSet(B \union {i}) /\ Cardinality(B) \in Nat
          /\ Cardinality(B \union {i}) \in {Cardinality(B), Cardinality(B) + 1}
        BY <3>2, FS_AddElement, FS_CardinalityType
    <3>4. /\ Cardinality(Blocking(o)') <= Cardinality(B \union {i})
          /\ Cardinality(Blocking(o)') \in Nat
        BY <3>1, <3>3, FS_Subset, FS_CardinalityType
    <3>5. Cardinality(Blocking(o)') <= Concurrency
        BY <1>5, <3>2, <3>3, <3>4
    <3> QED BY <2>2, <3>5
  <2> QED BY <2>1, <2>2
<1> QED BY <1>11, <1>12, <1>13, <1>14, <1>15 DEF BInv

(* A month that passes was charged no more than was committed in it.          *)
LEMMA Passing == ASSUME BInv, MonthPasses PROVE BInv'
<1>1. /\ BudgetTypes /\ RowsInv /\ LockInv /\ MonthsInv /\ SlotsInv /\ month \in Nat \ {0}
      /\ month' = month + 1 /\ row' = row /\ pages' = pages
      /\ parse' = parse /\ payer' = payer /\ charge' = charge
    BY DEF BInv, BudgetTypes, MonthPasses
<1>2. BudgetTypes'
    BY <1>1 DEF BudgetTypes
<1>3. RowsInv'
  <2> SUFFICES ASSUME NEW j \in Imports PROVE (RowOK(j) /\ ChargeOK(j) /\ BillOK(j))'
      BY DEF RowsInv
  <2>1. RowOK(j) /\ ChargeOK(j) /\ charge[j].month \in Nat
      BY <1>1 DEF RowsInv, BudgetTypes
  <2> QED BY <1>1, <2>1 DEF RowOK, ChargeOK, BillOK, Unsettled
<1>4. LockInv'
  <2>1. ASSUME NEW j \in Imports PROVE Costs'[j] <= Costs[j]
    <3>1. row[j] \in Rows /\ Costs[j] = CommittedFor(row[j]) /\ CommittedFor(row[j]) \in Nat
        BY <1>1, CostOf DEF BudgetTypes, Costs
    <3>2. Costs'[j] = CommittedFor(row[j])'
        BY <1>1 DEF Costs
    <3>3. CommittedFor(row[j])' \in {0, CommittedFor(row[j])}
      <4>1. row[j].updated \in Nat
          BY <3>1 DEF Rows
      <4>2. OfAnEarlierMonth(row[j]) => OfAnEarlierMonth(row[j])'
          BY <1>1, <4>1 DEF OfAnEarlierMonth
      <4> QED BY <1>1, <4>2 DEF CommittedFor
    <3> QED BY <3>1, <3>2, <3>3
  <2> QED BY <1>1, <1>2, <2>1, LockIsKept
<1>5. MonthsInv'
  <2> SUFFICES ASSUME NEW m \in 1..month PROVE (Charged(m) > 0 => Charged(m) < TrialLock)'
      BY <1>1 DEF MonthsInv
  <2>1. Charged(m)' = Charged(m)
      BY <1>1, <1>2, SameCharges
  <2>2. Charged(m) > 0 => Charged(m) < TrialLock
    <3>1. CASE m = month
        BY <3>1, ChargesAreCommitted
    <3>2. CASE m # month
        BY <1>1, <3>2 DEF MonthsInv
    <3> QED BY <3>1, <3>2
  <2> QED BY <2>1, <2>2
<1>6. \A o \in Owners : Blocking(o)' = Blocking(o)
    BY <1>1 DEF Blocking, ImportsOf
<1> QED BY <1>1, <1>2, <1>3, <1>4, <1>5, <1>6 DEF BInv, SlotsInv

LEMMA BudgetStep == BInv /\ [BudgetNext]_budgetVars => BInv'
<1> SUFFICES ASSUME BInv, [BudgetNext]_budgetVars PROVE BInv'
    OBVIOUS
<1>1. ASSUME NEW i \in Imports, NEW o \in Owners, AdmitJob(i, o) PROVE BInv'
    BY <1>1, Admitting
<1>2. ASSUME NEW i \in Imports,
             ReleaseHold(i) \/ CancelHeld(i) \/ ClaimJob(i) \/ Download(i)
      PROVE  BInv'
    BY <1>2, QueuedRows
<1>3. ASSUME NEW i \in Imports, Submit(i) \/ NoteUsage(i) PROVE BInv'
    BY <1>3, LedgerSteps
<1>4. ASSUME NEW i \in Imports, ProviderCharges(i) PROVE BInv'
    BY <1>4, Charging
<1>5. ASSUME NEW i \in Imports, RunEnds(i) \/ RecoverImport(i) \/ Reconcile(i) PROVE BInv'
    BY <1>5, BilledRows
<1>6. CASE MonthPasses
    BY <1>6, Passing
<1>7. CASE UNCHANGED budgetVars
  <2>1. /\ month' = month /\ row' = row /\ pages' = pages
        /\ parse' = parse /\ payer' = payer /\ charge' = charge
      BY <1>7 DEF budgetVars
  <2>2. BudgetTypes /\ RowsInv /\ MonthsInv
      BY DEF BInv
  <2>3. BudgetTypes'
      BY <2>1, <2>2 DEF BudgetTypes
  <2>4. RowsInv'
      BY <2>1, <2>2 DEF RowsInv, RowOK, ChargeOK, BillOK, Unsettled
  <2>5. LockInv' /\ SlotsInv'
      BY <2>1, <2>3, SameRows
  <2>6. ASSUME NEW m \in 1..(month - 1) PROVE Charged(m)' = Charged(m)
      BY <2>1, <2>2, <2>3, SameCharges DEF BudgetTypes
  <2>7. MonthsInv'
      BY <2>1, <2>2, <2>6 DEF MonthsInv
  <2> QED BY <2>3, <2>4, <2>5, <2>7 DEF BInv
<1> QED BY <1>1, <1>2, <1>3, <1>4, <1>5, <1>6, <1>7 DEF BudgetNext

LEMMA BudgetHolds == BInv => ImportsStayInBudget
<1> SUFFICES ASSUME BInv PROVE ImportsStayInBudget
    OBVIOUS
<1>1. BudgetTypes /\ RowsInv /\ MonthsInv /\ SlotsInv /\ month \in Nat \ {0}
    BY DEF BInv, BudgetTypes
<1>2. ASSUME NEW m \in 1..month PROVE Charged(m) > 0 => Charged(m) < TrialLock
  <2>1. CASE m = month
      BY <2>1, ChargesAreCommitted
  <2>2. CASE m # month
      BY <1>1, <2>2 DEF MonthsInv
  <2> QED BY <2>1, <2>2
<1>3. ASSUME NEW o \in Owners
      PROVE  Cardinality({i \in ImportsOf(o) : \/ row[i].status \in Waiting \union Processing
                                               \/ parse[i] \in {"submitted", "lost"}}) <= Concurrency
  <2> DEFINE A == {i \in ImportsOf(o) : \/ row[i].status \in Waiting \union Processing
                                        \/ parse[i] \in {"submitted", "lost"}}
  <2>1. ASSUME NEW i \in A PROVE i \in Blocking(o)
    <3>1. i \in Imports /\ i \in ImportsOf(o) /\ RowOK(i) /\ row[i] \in Rows
        BY <1>1 DEF ImportsOf, RowsInv, BudgetTypes
    <3>2. row[i].status \in {"none"} \union Waiting \union Processing \union Over
        BY <3>1 DEF Rows
    <3>3. CASE row[i].status \in Waiting \union Processing
        BY <3>1, <3>3 DEF Blocking
    <3>4. CASE row[i].status = "none"
        BY <2>1, <3>1, <3>4 DEF RowOK, Waiting, Processing
    <3>5. CASE row[i].status \in Over
      <4>1. Unsettled(i)
          BY <2>1, <3>5 DEF Unsettled, Waiting, Processing, Over
      <4> QED BY <3>1, <3>5, <4>1 DEF RowOK, Blocking
    <3> QED BY <3>2, <3>3, <3>4, <3>5
  <2> HIDE DEF A
  <2>2. Cardinality(A) <= Concurrency
      BY <1>1, <2>1, FewerBlock DEF SlotsInv
  <2> QED BY <2>2 DEF A
<1> QED BY <1>2, <1>3 DEF ImportsStayInBudget

(* However long after an import was admitted its parse is charged, reported    *)
(* or given up (quota.py, ledger.py, service.py), no month is charged what     *)
(* locks admission, and no account has more imports that run or are unsettled *)
(* than it may.                                                              *)
THEOREM ImportsAreWithinBudget == BudgetSpec => []ImportsStayInBudget
<1>1. BudgetInit => BInv
    BY BudgetInitial
<1>2. BInv /\ [BudgetNext]_budgetVars => BInv'
    BY BudgetStep
<1>3. BInv => ImportsStayInBudget
    BY BudgetHolds
<1> QED BY <1>1, <1>2, <1>3, PTL DEF BudgetSpec

-----------------------------------------------------------------------------
(* The plan of a question.  The events a narrative question names are in its  *)
(* plan from the moment it has one, whichever call wrote it (EventsKept).    *)
Coherent(p) ==
  /\ p.axes # {} => p.difficulty = "hard"
  /\ p.difficulty = "hard" => p.mode = "extractive" /\ p.premises = {}
  /\ p.mode = "grounded" => p.difficulty = "medium" /\ p.axes = {} /\ p.premises # {}

Narrated(q) == q.events /\ ~q.lineItem

EventsKept ==
  /\ question.events => question.kind = "grounded"
  /\ ready \in {"plan", "routes"} /\ Narrated(question) =>
       plan.mode = "grounded" /\ "event" \in plan.premises

RoutesInv == PlanTypeOK /\ PlanIsConsistent /\ EventsKept /\ NothingIsDropped

(* The rules after the planner: what each leaves of a plan.                  *)
LEMMA HeuristicsKept ==
  ASSUME NEW q \in Questions, NEW p \in Plans, NEW judging \in BOOLEAN
  PROVE  /\ Heuristics(q, p, judging) \in Plans
         /\ q.kind = "grounded" /\ ~q.lineItem =>
              /\ Heuristics(q, p, judging).mode = "grounded"
              /\ Heuristics(q, p, judging).difficulty = "medium"
              /\ Heuristics(q, p, judging).axes = {}
              /\ q.events => "event" \in Heuristics(q, p, judging).premises
BY DEF Heuristics, Numeric, Questions, Plans, Premises, Analyses

LEMMA ConsistentKept ==
  ASSUME NEW p \in Plans
  PROVE  /\ Consistent(p) \in Plans /\ Coherent(Consistent(p))
         /\ p.mode = "grounded" /\ p.difficulty = "medium" /\ p.axes = {} /\ p.premises # {} =>
              Consistent(p) = p
BY DEF Consistent, Coherent, DefaultPlan, Plans, Premises, Analyses

LEMMA ExpandedKept ==
  ASSUME NEW q \in Questions, NEW p \in Plans, Coherent(p)
  PROVE  /\ Expanded(q, p) \in Plans /\ Coherent(Expanded(q, p))
         /\ p.difficulty # "hard" => Expanded(q, p) = p
BY DEF Expanded, Coherent, BroadAnalyses, Plans, Analyses, Questions

(* A plan written by the rules.                                              *)
LEMMA RulesKept ==
  ASSUME NEW q \in Questions, q.events => q.kind = "grounded", NEW p \in Plans, NEW judging \in BOOLEAN,
         NEW c, c = Consistent(Heuristics(q, p, judging))
  PROVE  /\ c \in Plans /\ Coherent(c) /\ Expanded(q, c) \in Plans /\ Coherent(Expanded(q, c))
         /\ Narrated(q) => /\ c.mode = "grounded" /\ "event" \in c.premises
                           /\ Expanded(q, c) = c
<1>1. PICK h : h = Heuristics(q, p, judging)
    OBVIOUS
<1>2. /\ h \in Plans
      /\ q.kind = "grounded" /\ ~q.lineItem =>
           /\ h.mode = "grounded" /\ h.difficulty = "medium" /\ h.axes = {}
           /\ q.events => "event" \in h.premises
    BY <1>1, HeuristicsKept
<1>3. c \in Plans /\ Coherent(c)
    BY <1>1, <1>2, ConsistentKept
<1>4. Expanded(q, c) \in Plans /\ Coherent(Expanded(q, c)) /\ (c.difficulty # "hard" => Expanded(q, c) = c)
    BY <1>3, ExpandedKept
<1>5. ASSUME Narrated(q)
      PROVE  c.mode = "grounded" /\ "event" \in c.premises /\ Expanded(q, c) = c
  <2>1. h.mode = "grounded" /\ h.difficulty = "medium" /\ h.axes = {} /\ "event" \in h.premises
      BY <1>2, <1>5 DEF Narrated
  <2>2. c = h
      BY <1>1, <1>2, <2>1, ConsistentKept
  <2>3. c.difficulty # "hard"
      BY <2>1, <2>2
  <2> QED BY <1>4, <2>1, <2>2, <2>3
<1> QED BY <1>3, <1>4, <1>5

LEMMA PlannerKeepsPlan ==
  ASSUME RoutesInv, PlannerAnswers \/ PlannerFails \/ Discovery
  PROVE  RoutesInv'
<1>1. /\ question \in Questions /\ plan \in Plans /\ question' = question /\ routes' = routes
      /\ ready = "nothing" /\ (question.events => question.kind = "grounded") /\ Coherent(plan)
      /\ routes \in [agents : SUBSET Analyses, searched : SUBSET Premises,
                     news : BOOLEAN, asked : BOOLEAN]
    BY DEF RoutesInv, PlanTypeOK, EventsKept, PlannerAnswers, PlannerFails, Discovery,
           PlanIsConsistent, Coherent
<1>2. /\ plan' \in Plans /\ Coherent(plan') /\ ready' \in {"plan", "discovery"}
      /\ ready' = "plan" /\ Narrated(question) => plan'.mode = "grounded" /\ "event" \in plan'.premises
  <2>1. CASE PlannerAnswers
    <3>1. PICK p \in Plans, judging, expand \in BOOLEAN :
            plan' = LET ruled == Consistent(Heuristics(question, p, judging))
                    IN IF expand THEN Expanded(question, ruled) ELSE ruled
        BY <2>1 DEF PlannerAnswers
    <3>2. PICK c : c = Consistent(Heuristics(question, p, judging))
        OBVIOUS
    <3>3. plan' = Expanded(question, c) \/ plan' = c
        BY <3>1, <3>2
    <3>4. /\ c \in Plans /\ Coherent(c) /\ Expanded(question, c) \in Plans
          /\ Coherent(Expanded(question, c))
          /\ Narrated(question) => /\ c.mode = "grounded" /\ "event" \in c.premises
                                   /\ Expanded(question, c) = c
        BY <1>1, <3>2, RulesKept
    <3>5. ready' = "plan"
        BY <2>1 DEF PlannerAnswers
    <3> QED BY <3>3, <3>4, <3>5
  <2>2. CASE PlannerFails
    <3>1. DefaultPlan \in Plans
        BY DEF DefaultPlan, Plans
    <3>2. ready' = "plan" /\ (~Narrated(question) \/ question.kind = "grounded")
        BY <1>1, <2>2 DEF PlannerFails, Narrated
    <3>3. CASE question.kind = "grounded"
      <4>1. PICK c : c = Consistent(Heuristics(question, DefaultPlan, FALSE))
          OBVIOUS
      <4>2. plan' = Expanded(question, c)
          BY <2>2, <3>3, <4>1 DEF PlannerFails
      <4>3. /\ c \in Plans /\ Coherent(c) /\ Expanded(question, c) \in Plans
            /\ Coherent(Expanded(question, c))
            /\ Narrated(question) => /\ c.mode = "grounded" /\ "event" \in c.premises
                                     /\ Expanded(question, c) = c
          BY <1>1, <3>1, <4>1, RulesKept
      <4> QED BY <3>2, <4>2, <4>3
    <3>4. CASE question.kind # "grounded"
      <4>1. plan' = Expanded(question, Consistent(DefaultPlan))
          BY <2>2, <3>4 DEF PlannerFails
      <4>2. Consistent(DefaultPlan) \in Plans /\ Coherent(Consistent(DefaultPlan))
          BY <3>1, ConsistentKept
      <4>3. plan' \in Plans /\ Coherent(plan')
          BY <1>1, <4>1, <4>2, ExpandedKept
      <4> QED BY <3>2, <3>4, <4>3
    <3> QED BY <3>3, <3>4
  <2>3. CASE Discovery
      BY <1>1, <2>3 DEF Discovery
  <2> QED BY <2>1, <2>2, <2>3
<1>3. PlanTypeOK'
    BY <1>1, <1>2 DEF PlanTypeOK
<1>4. PlanIsConsistent'
    BY <1>2 DEF PlanIsConsistent, Coherent
<1>5. EventsKept'
    BY <1>1, <1>2 DEF EventsKept
<1>6. NothingIsDropped'
    BY <1>2 DEF NothingIsDropped
<1> QED BY <1>3, <1>4, <1>5, <1>6 DEF RoutesInv

LEMMA RouterKeepsPlan ==
  ASSUME RoutesInv, Bypass \/ RouterAnswers \/ RouterFails
  PROVE  RoutesInv'
<1>1. /\ question' = question /\ plan' = plan /\ ready = "plan" /\ ready' = "routes"
      /\ question \in Questions /\ plan \in Plans
      /\ Narrated(question) => plan.mode = "grounded" /\ "event" \in plan.premises
      /\ question.events => question.kind = "grounded"
    BY DEF RoutesInv, PlanTypeOK, EventsKept, Bypass, RouterAnswers, RouterFails
<1>2. Coherent(plan)
    BY DEF RoutesInv, PlanIsConsistent, Coherent
<1>3. /\ routes' \in [agents : SUBSET Analyses, searched : SUBSET Premises,
                      news : BOOLEAN, asked : BOOLEAN]
      /\ routes'.searched = PremiseSearches(plan)
      /\ plan.axes # {} => routes'.agents = plan.axes
      /\ routes'.asked => routes'.news
  <2>1. plan.axes \in SUBSET Analyses /\ PremiseSearches(plan) \in SUBSET Premises
      BY <1>1 DEF Plans, PremiseSearches
  <2>2. CASE Bypass
    <3>1. plan.web = "none" /\ plan.axes = {}
        BY <2>2 DEF Bypass, MayBypass
    <3>2. routes' = [agents |-> {}, searched |-> PremiseSearches(plan), news |-> FALSE, asked |-> FALSE]
        BY <2>2, <3>1 DEF Bypass, NoRoutes
    <3> QED BY <2>1, <3>1, <3>2
  <2>3. ASSUME NEW chosen \in SUBSET Analyses, NEW item \in BOOLEAN, NEW active \in BOOLEAN,
               routes' = Routed(chosen, item, active)
        PROVE  /\ routes' \in [agents : SUBSET Analyses, searched : SUBSET Premises,
                               news : BOOLEAN, asked : BOOLEAN]
               /\ routes'.searched = PremiseSearches(plan)
               /\ plan.axes # {} => routes'.agents = plan.axes
               /\ routes'.asked => routes'.news
    <3>1. PICK wants \in BOOLEAN : wants <=> (active /\ plan.web = "company_news")
        OBVIOUS
    <3>2. PICK news \in BOOLEAN : news <=> (item \/ wants)
        OBVIOUS
    <3>3. routes' = [agents |-> Targets(plan, chosen), searched |-> PremiseSearches(plan),
                     news |-> item \/ (active /\ plan.web = "company_news"),
                     asked |-> active /\ plan.web = "company_news"]
        BY <2>3 DEF Routed
    <3>4. (item \/ (active /\ plan.web = "company_news")) = news
        BY <3>1, <3>2
    <3>5. (active /\ plan.web = "company_news") = wants
        BY <3>1
    <3>6. Targets(plan, chosen) \in SUBSET Analyses /\ (plan.axes # {} => Targets(plan, chosen) = plan.axes)
        BY <1>2, <2>1 DEF Targets, Reconciled, Assigned, Coherent
    <3>7. routes' = [agents |-> Targets(plan, chosen), searched |-> PremiseSearches(plan),
                     news |-> news, asked |-> wants]
        BY <3>3, <3>4, <3>5
    <3> QED BY <2>1, <3>2, <3>6, <3>7
  <2>4. CASE RouterAnswers
      BY <2>3, <2>4 DEF RouterAnswers
  <2>5. CASE RouterFails
    <3>1. {} \in SUBSET Analyses
        OBVIOUS
    <3> QED BY <2>3, <2>5, <3>1 DEF RouterFails
  <2> QED BY <2>2, <2>4, <2>5
<1>4. PlanTypeOK'
    BY <1>1, <1>3 DEF PlanTypeOK
<1>5. PlanIsConsistent'
    BY <1>1, <1>2 DEF PlanIsConsistent, Coherent
<1>6. EventsKept'
    BY <1>1 DEF EventsKept
<1>7. Narrated(question) => "event" \in routes'.searched
    BY <1>1, <1>3 DEF PremiseSearches
<1>8. NothingIsDropped'
    BY <1>1, <1>3, <1>7 DEF NothingIsDropped, Narrated
<1> QED BY <1>4, <1>5, <1>6, <1>8 DEF RoutesInv

(* The routes serve the question as asked, whichever of the two calls failed  *)
(* and whatever the model wrote (_enforce_response_mode_invariants of        *)
(* planner_runner.py, _ensure_company_news_target of keyworder_runner.py).   *)
THEOREM PlanAlwaysCoversTheQuestion == PlanSpec => []PlanCoversTheQuestion
<1>1. PlanInit => RoutesInv
  <2> SUFFICES ASSUME PlanInit PROVE RoutesInv
      OBVIOUS
  <2>1. DefaultPlan \in Plans /\ Coherent(DefaultPlan)
      BY DEF DefaultPlan, Plans, Coherent
  <2>2. NoRoutes \in [agents : SUBSET Analyses, searched : SUBSET Premises,
                      news : BOOLEAN, asked : BOOLEAN]
      BY DEF NoRoutes
  <2> QED BY <2>1, <2>2 DEF PlanInit, RoutesInv, PlanTypeOK, PlanIsConsistent, Coherent, EventsKept,
                            NothingIsDropped
<1>2. RoutesInv /\ [PlanNext]_planVars => RoutesInv'
  <2> SUFFICES ASSUME RoutesInv, [PlanNext]_planVars PROVE RoutesInv'
      OBVIOUS
  <2>1. CASE PlannerAnswers \/ PlannerFails \/ Discovery
      BY <2>1, PlannerKeepsPlan
  <2>2. CASE Bypass \/ RouterAnswers \/ RouterFails
      BY <2>2, RouterKeepsPlan
  <2>3. CASE UNCHANGED planVars
    <3>1. question' = question /\ plan' = plan /\ routes' = routes /\ ready' = ready
        BY <2>3 DEF planVars
    <3> QED BY <3>1 DEF RoutesInv, PlanTypeOK, PlanIsConsistent, EventsKept, NothingIsDropped
  <2> QED BY <2>1, <2>2, <2>3 DEF PlanNext
<1>3. RoutesInv => PlanCoversTheQuestion
    BY DEF RoutesInv, PlanCoversTheQuestion
<1> QED BY <1>1, <1>2, <1>3, PTL DEF PlanSpec
=============================================================================

------------------------------- MODULE Accounts -------------------------------
(***************************************************************************)
(* Accounts, emailed codes and sessions: users/views.py, users/models.py,  *)
(* users/serializers.py and users/authentication.py.                       *)
(*                                                                         *)
(* No handler here runs in a transaction.  Each is two steps: it reads the *)
(* user row and the code row and decides, and later writes what it         *)
(* decided from the copies it holds in req.  Some writes name their        *)
(* columns (update_fields), some write the whole row back as it was read.  *)
(*                                                                         *)
(* A person who types a code either has the one that was mailed or has     *)
(* not; hashes, throttles per IP, mail delivery and cookies' attributes    *)
(* are left out.  Passwords are compared as values.                        *)
(***************************************************************************)
EXTENDS Naturals, Sequences, FiniteSets, FiniteSetsExt

CONSTANTS Users, Addresses, Passwords, Requests,
          MaxCodesPerDay, MaxFailedAttempts,  \* PasswordResetOTP's two limits
          MaxRows, MaxServed,                 \* bounds: codes ever created,
                                              \* requests ever served
          Nobody, Unusable

ASSUME LimitsAssumption == /\ MaxCodesPerDay \in Nat \ {0}
                           /\ MaxFailedAttempts \in Nat \ {0}
                           /\ MaxRows \in Nat /\ MaxServed \in Nat
                           /\ Unusable \notin Passwords
                           /\ IsFiniteSet(Requests)

VARIABLES user,      \* the User rows of Users
          others,    \* the addresses of every other account
          codes,     \* the PasswordResetOTP rows, in order of created_at
          tokens,    \* the refresh tokens that are neither rotated nor revoked
          issued,    \* who holds an access token, which no revocation ends
          req,       \* what each request in flight has read and decided
          served,    \* how many have begun
          proved,    \* history: <<u, a>> where u showed a code mailed to a
          standing,  \* history: the password each account was last given
          stale      \* history: accounts whose row was written back from a
                     \* copy that another request had since changed
vars == <<user, others, codes, tokens, issued, req, served, proved, standing, stale>>

Purposes == {"verify", "reset", "change_email"}
Scopes   == {"customer", "admin"}

(* entered: last_login is set.                                             *)
Row == [email : Addresses, verified : BOOLEAN, staff : BOOLEAN,
        password : Passwords \cup {Unusable}, entered : BOOLEAN]

(* grant is the column reset_token: whether a reset may be confirmed, or   *)
(* the address a change of email waits for.                                *)
Code == [u : Users, purpose : Purposes, to : Addresses, used : BOOLEAN,
         grant : {"none", "reset"} \cup Addresses, attempts : Nat,
         age : {"fresh", "expired", "old"}]

ASSUME NobodyAssumption == Nobody \notin Row

Token == [u : Users, scope : Scopes, cred : Passwords \cup {Unusable}, late : BOOLEAN]

(* A request in flight: the copies it read and what it was asked.          *)
Idle == [kind |-> "idle"]
Asked(kind, u) == [kind |-> kind, u |-> u, row |-> Nobody, code |-> 0, seen |-> 0,
                   addr |-> Nobody, pw |-> Nobody, token |-> Nobody, late |-> FALSE]
Holding(kind, u) == [Asked(kind, u) EXCEPT !.row = user[u]]

TypeOK ==
  /\ user \in [Users -> Row \cup {Nobody}]
  /\ others \subseteq Addresses
  /\ codes \in Seq(Code)
  /\ tokens \subseteq Token
  /\ issued \subseteq Users
  /\ \A r \in Requests : req[r] = Idle \/ req[r].u \in Users
  /\ served \in 0..MaxServed
  /\ proved \subseteq Users \X Addresses
  /\ standing \in [Users -> Passwords \cup {Unusable, Nobody}]
  /\ stale \subseteq Users

(* Staff are made by the owner: verified at the shell, not yet so when     *)
(* made in Django admin.                                                   *)
Init ==
  /\ user \in [Users -> Row \cup {Nobody}]
  /\ \A u \in Users : user[u] # Nobody => /\ user[u].staff /\ ~user[u].entered
                                          /\ user[u].password # Unusable
  /\ \A u, v \in Users : user[u] # Nobody /\ user[v] # Nobody /\ user[u].email = user[v].email
                         => u = v
  /\ others = {}
  /\ codes = <<>>
  /\ tokens = {}
  /\ issued = {}
  /\ req = [r \in Requests |-> Idle]
  /\ served = 0
  /\ proved = {<<u, user[u].email>> : u \in {v \in Users : user[v] # Nobody /\ user[v].verified}}
  /\ standing = [u \in Users |-> IF user[u] = Nobody THEN Nobody ELSE user[u].password]
  /\ stale = {}

(***************************************************************************)
(* Queries                                                                 *)
(***************************************************************************)
Exists(u)  == user[u] # Nobody
Owners(a)  == {u \in Users : Exists(u) /\ user[u].email = a}
Unknown(a) == Owners(a) = {} /\ a \notin others
IsStaff(u) == user[u].staff

(* As a bug would have it: only live codes are counted.                    *)
LiveCodesLeft(u, p) ==
  Cardinality({i \in DOMAIN codes : /\ codes[i].u = u /\ codes[i].purpose = p
                                    /\ codes[i].age # "old" /\ ~codes[i].used}) < MaxCodesPerDay

(* _codes_left: rows of the last day, used or not.                         *)
CodesLeft(u, p) ==
  Cardinality({i \in DOMAIN codes : /\ codes[i].u = u /\ codes[i].purpose = p
                                    /\ codes[i].age # "old"}) < MaxCodesPerDay

(* .filter(is_used=False).latest('created_at')                             *)
Unused(u, p) == {i \in DOMAIN codes : /\ codes[i].u = u /\ codes[i].purpose = p
                                      /\ ~codes[i].used}
Latest(u, p) == Max(Unused(u, p))

IsLocked(i)  == codes[i].attempts >= MaxFailedAttempts
Enterable(u, p) == /\ Unused(u, p) # {}
                   /\ codes[Latest(u, p)].age = "fresh"
                   /\ ~IsLocked(Latest(u, p))

NewAccount(a, verified, p) == [email |-> a, verified |-> verified, staff |-> FALSE,
                               password |-> p, entered |-> FALSE]

(* serializer.overwrite: every detail but the address.                     *)
Reregistered(row, p) == [row EXCEPT !.password = p]

(* As a bug would have it: whoever never logged in may be replaced.        *)
NeverEntered(u) == ~user[u].entered /\ ~IsStaff(u)

(* Registered, never proved and never in: may be registered over.          *)
IsUnclaimed(u) == ~user[u].verified /\ ~user[u].entered /\ ~IsStaff(u)

(***************************************************************************)
(* Writes                                                                  *)
(***************************************************************************)
(* A row was written, or its sessions ended: whoever else is in flight on  *)
(* the account holds an old copy, or was let in before the eviction.       *)
Overtaken(u, evicts) ==
  [q \in Requests |->
     IF req[q] # Idle /\ req[q].u = u /\ (req[q].kind = "refresh" => evicts)
     THEN [req[q] EXCEPT !.late = TRUE] ELSE req[q]]

Answered(r)         == req' = [req EXCEPT ![r] = Idle]
Wrote(r, u, evicts) == req' = [Overtaken(u, evicts) EXCEPT ![r] = Idle]

(* save(): every column, from the copy.                                    *)
SaveRow(r, row) ==
  LET u == req[r].u IN
  /\ user' = [user EXCEPT ![u] = row]
  /\ stale' = IF req[r].late THEN stale \cup {u} ELSE stale

(* _blacklist_all_for, then _reissue_session for a caller with a cookie.   *)
Evicted(u) == {t \in tokens : t.u # u}
Session(u, scope, cred) == [u |-> u, scope |-> scope, cred |-> cred, late |-> FALSE]
EvictAndReissue(u, cred) ==
  /\ \/ tokens' = Evicted(u)
     \/ tokens' = Evicted(u) \cup {Session(u, "customer", cred)}
     \/ IsStaff(u) /\ tokens' = Evicted(u) \cup {Session(u, "admin", cred)}

SetPassword(u, p) == standing' = [standing EXCEPT ![u] = p]

Spent(i, grant) == [codes EXCEPT ![i].used = TRUE, ![i].grant = grant]

(***************************************************************************)
(* The endpoints.  The first step of each.                                 *)
(***************************************************************************)
Serve == served < MaxServed /\ served' = served + 1

Begin(r, asked) ==
  /\ req[r] = Idle
  /\ Serve
  /\ req' = [req EXCEPT ![r] = asked]
  /\ UNCHANGED <<user, others, codes, tokens, issued, proved, standing, stale>>

(* UserRegistrationView.create: a new address, an unclaimed row to be      *)
(* written over, or (no change at all) a notice to the owner.              *)
Register(r, a, p) ==
  \/ /\ Unknown(a)
     /\ \E u \in {v \in Users : ~Exists(v)} :
          Begin(r, [Asked("create", u) EXCEPT !.addr = a, !.pw = p])
  \/ \E u \in Owners(a) :
       /\ IsUnclaimed(u)
       /\ Begin(r, [Holding("overwrite", u) EXCEPT !.pw = p])

(* A code of each purpose is sent by a request of its own kind.            *)
SendKind == [verify |-> "send_verify", reset |-> "send_reset", change_email |-> "send_change_email"]

(* A code within the day's quota.                                          *)
RequestCode(r, u, p, a) ==
  /\ CodesLeft(u, p)
  /\ Begin(r, [Asked(SendKind[p], u) EXCEPT !.addr = a])

ResendVerification(r, a) ==
  \E u \in Owners(a) : ~user[u].verified /\ RequestCode(r, u, "verify", a)

PasswordResetRequest(r, a) == \E u \in Owners(a) : RequestCode(r, u, "reset", a)

(* VerifyEmailConfirmView, PasswordResetVerifyView and call 2 of           *)
(* ChangeEmailView: a code is judged, with its failed attempts as read.    *)
Judge(r, u, p, right, a) ==
  LET i == Latest(u, p) IN
  /\ Enterable(u, p)
  /\ Begin(r, [(IF right THEN Holding(p, u) ELSE Asked("wrong", u))
                     EXCEPT !.code = i, !.seen = codes[i].attempts, !.addr = a])

(* The password counts as part of the code.                                *)
VerifyEmailConfirm(r, a, codeOK, p) ==
  \E u \in Owners(a) : Judge(r, u, "verify", codeOK /\ p = user[u].password, a)

PasswordResetVerify(r, a, codeOK) == \E u \in Owners(a) : Judge(r, u, "reset", codeOK, a)

PasswordResetConfirm(r, a, p) ==
  \E u \in Owners(a), i \in DOMAIN codes :
    /\ codes[i].u = u /\ codes[i].purpose = "reset" /\ codes[i].used
    /\ codes[i].grant = "reset" /\ codes[i].age = "fresh"
    /\ Begin(r, [Holding("reset_password", u)
                            EXCEPT !.code = i, !.seen = codes[i].attempts, !.pw = p])

(* An access token lives out its minutes whatever became of the session.   *)
Authenticated(u) == Exists(u) /\ u \in issued

ChangePassword(r, u, old, new) ==
  /\ Authenticated(u) /\ old = user[u].password
  /\ Begin(r, [Holding("change_password", u) EXCEPT !.pw = new])

ChangeEmailAsked(u, password, a) ==
  /\ Authenticated(u) /\ password = user[u].password
  /\ Unknown(a)

ChangeEmailCode(r, u, password, a) ==
  /\ ChangeEmailAsked(u, password, a)
  /\ RequestCode(r, u, "change_email", a)

ChangeEmailConfirm(r, u, password, a, codeOK) ==
  /\ ChangeEmailAsked(u, password, a)
  /\ Unused(u, "change_email") # {} /\ codes[Latest(u, "change_email")].grant = a
  /\ Judge(r, u, "change_email", codeOK, a)

UpdateProfile(r, u) == Authenticated(u) /\ Begin(r, Holding("profile", u))

GoogleLogin(r, a) ==
  \/ \E u \in Owners(a) : Begin(r, [Holding("google", u) EXCEPT !.addr = a])
  \/ /\ Unknown(a)
     /\ \E u \in {v \in Users : ~Exists(v)} :
          Begin(r, [Asked("google_create", u) EXCEPT !.addr = a])

(* TokenRefreshSerializer checks the blacklist and the user, then rotates. *)
Refresh(r, t) ==
  /\ t \in tokens /\ t.scope = "customer"
  /\ Begin(r, [Asked("refresh", t.u) EXCEPT !.token = t])

AdminRefresh(r, t) ==
  /\ t \in tokens /\ t.scope = "admin" /\ IsStaff(t.u)
  /\ Begin(r, [Asked("refresh", t.u) EXCEPT !.token = t])

(***************************************************************************)
(* The second step of each.                                                *)
(***************************************************************************)
Finish(r, kind) == req[r] # Idle /\ req[r].kind = kind

(* The new row; the unique index of email refuses a racing signup.  The    *)
(* code follows, in a step of its own.                                     *)
Create(r) ==
  LET u == req[r].u IN
  /\ Finish(r, "create")
  /\ IF ~Unknown(req[r].addr) \/ Exists(u)
     THEN Answered(r) /\ UNCHANGED <<user, others, standing>>
     ELSE /\ user' = [user EXCEPT ![u] = NewAccount(req[r].addr, FALSE, req[r].pw)]
          /\ SetPassword(u, req[r].pw)
          /\ req' = [req EXCEPT ![r].kind = "send_verify"]
  /\ UNCHANGED <<others, codes, tokens, issued, proved, stale, served>>

(* UserRegistrationSerializer.overwrite, then a code within the quota.     *)
Overwrite(r) ==
  LET u == req[r].u IN
  /\ Finish(r, "overwrite")
  /\ SaveRow(r, Reregistered(req[r].row, req[r].pw))
  /\ SetPassword(u, req[r].pw)
  /\ req' = [Overtaken(u, FALSE) EXCEPT
               ![r] = IF CodesLeft(u, "verify")
                      THEN [req[r] EXCEPT !.kind = "send_verify", !.addr = req[r].row.email]
                      ELSE Idle]
  /\ UNCHANGED <<others, codes, tokens, issued, proved, served>>

(* As a bug would have it: a new address is proved by its old one.         *)
CreateOtpForOldInbox(r, p) ==
  LET u == req[r].u IN
  /\ Finish(r, SendKind[p])
  /\ Len(codes) < MaxRows
  /\ codes' = Append([i \in DOMAIN codes |->
                        IF i \in Unused(u, p) THEN [codes[i] EXCEPT !.used = TRUE] ELSE codes[i]],
                     [u |-> u, purpose |-> p, to |-> user[u].email, used |-> FALSE,
                      grant |-> IF p = "change_email" THEN req[r].addr ELSE "none",
                      attempts |-> 0, age |-> "fresh"])
  /\ Answered(r)
  /\ UNCHANGED <<user, others, tokens, issued, proved, standing, stale, served>>

(* _create_email_otp: earlier codes of the purpose are used up, a new one  *)
(* is mailed.                                                              *)
CreateEmailOtp(r, p) ==
  LET u == req[r].u IN
  /\ Finish(r, SendKind[p])
  /\ Len(codes) < MaxRows
  /\ codes' = Append([i \in DOMAIN codes |->
                        IF i \in Unused(u, p) THEN [codes[i] EXCEPT !.used = TRUE] ELSE codes[i]],
                     [u |-> u, purpose |-> p, to |-> req[r].addr, used |-> FALSE,
                      grant |-> IF p = "change_email" THEN req[r].addr ELSE "none",
                      attempts |-> 0, age |-> "fresh"])
  /\ Answered(r)
  /\ UNCHANGED <<user, others, tokens, issued, proved, standing, stale, served>>

(* failed_attempts is written from the copy.                               *)
CountFailure(r) ==
  /\ Finish(r, "wrong")
  /\ codes' = [codes EXCEPT ![req[r].code].attempts = req[r].seen + 1]
  /\ Answered(r)
  /\ UNCHANGED <<user, others, tokens, issued, proved, standing, stale, served>>

Shown(u, i) == proved' = proved \cup {<<u, codes[i].to>>}

(* As a bug would have it: save() without update_fields.                   *)
MarkVerifiedRow(r) ==
  LET u == req[r].u IN
  /\ Finish(r, "verify")
  /\ codes' = Spent(req[r].code, codes[req[r].code].grant)
  /\ user' = [user EXCEPT ![u] = [req[r].row EXCEPT !.verified = TRUE]]
  /\ tokens' = Evicted(u)
  /\ Shown(u, req[r].code)
  /\ Wrote(r, u, TRUE)
  /\ UNCHANGED <<others, issued, standing, stale, served>>

MarkVerified(r) ==
  LET u == req[r].u IN
  /\ Finish(r, "verify")
  /\ codes' = Spent(req[r].code, codes[req[r].code].grant)
  /\ user' = IF req[r].row.verified THEN user ELSE [user EXCEPT ![u].verified = TRUE]
  /\ tokens' = Evicted(u)
  /\ Shown(u, req[r].code)
  /\ Wrote(r, u, TRUE)
  /\ UNCHANGED <<others, issued, standing, stale, served>>

GrantReset(r) ==
  /\ Finish(r, "reset")
  /\ codes' = Spent(req[r].code, "reset")
  /\ Answered(r)
  /\ UNCHANGED <<user, others, tokens, issued, proved, standing, stale, served>>

(* The whole row, the sessions, then the whole code row.                   *)
ResetPassword(r) ==
  LET u == req[r].u IN
  /\ Finish(r, "reset_password")
  /\ SaveRow(r, [req[r].row EXCEPT !.password = req[r].pw, !.verified = TRUE])
  /\ SetPassword(u, req[r].pw)
  /\ tokens' = Evicted(u)
  /\ codes' = [Spent(req[r].code, "none") EXCEPT ![req[r].code].attempts = req[r].seen]
  /\ Shown(u, req[r].code)
  /\ Wrote(r, u, TRUE)
  /\ UNCHANGED <<others, issued, served>>

SetNewPassword(r) ==
  LET u == req[r].u IN
  /\ Finish(r, "change_password")
  /\ SaveRow(r, [req[r].row EXCEPT !.password = req[r].pw])
  /\ SetPassword(u, req[r].pw)
  /\ EvictAndReissue(u, req[r].pw)
  /\ Wrote(r, u, TRUE)
  /\ UNCHANGED <<others, codes, issued, proved, served>>

(* The code is spent first; the unique index may still refuse the address. *)
SwapEmail(r) ==
  LET u == req[r].u
      a == req[r].addr
  IN
  /\ Finish(r, "change_email")
  /\ codes' = Spent(req[r].code, "none")
  /\ IF ~Unknown(a) /\ user[u].email # a
     THEN Answered(r) /\ UNCHANGED <<user, others, tokens, proved>>
     ELSE /\ user' = [user EXCEPT ![u].email = a, ![u].verified = TRUE]
          /\ EvictAndReissue(u, user[u].password)
          /\ Shown(u, req[r].code)
          /\ Wrote(r, u, TRUE)
  /\ UNCHANGED <<others, issued, standing, stale, served>>

SaveProfile(r) ==
  /\ Finish(r, "profile")
  /\ SaveRow(r, req[r].row)
  /\ Wrote(r, req[r].u, FALSE)
  /\ UNCHANGED <<others, codes, tokens, issued, proved, standing, served>>

(* Google vouches for the inbox.  A password that nobody proved is         *)
(* dropped, with the sessions; every write names its column.               *)
GoogleEnter(r) ==
  LET u    == req[r].u
      drop == ~req[r].row.verified /\ req[r].row.password # Unusable
      base == IF drop THEN Evicted(u) ELSE tokens
  IN
  /\ Finish(r, "google")
  /\ user' = [user EXCEPT ![u].verified = TRUE,
                          ![u].password = IF drop THEN Unusable ELSE @]
  /\ IF drop THEN SetPassword(u, Unusable) ELSE UNCHANGED standing
  /\ tokens' = base \cup {Session(u, "customer", user'[u].password)}
  /\ issued' = issued \cup {u}
  /\ proved' = proved \cup {<<u, req[r].addr>>}
  /\ Wrote(r, u, drop)
  /\ UNCHANGED <<others, codes, stale, served>>

GoogleCreate(r) ==
  LET u == req[r].u IN
  /\ Finish(r, "google_create")
  /\ IF ~Unknown(req[r].addr) \/ Exists(u)
     THEN UNCHANGED <<user, others, standing, tokens, issued, proved>>
     ELSE /\ user' = [user EXCEPT ![u] = NewAccount(req[r].addr, TRUE, Unusable)]
          /\ SetPassword(u, Unusable)
          /\ tokens' = tokens \cup {Session(u, "customer", Unusable)}
          /\ issued' = issued \cup {u}
          /\ proved' = proved \cup {<<u, req[r].addr>>}
  /\ Answered(r)
  /\ UNCHANGED <<others, codes, stale, served>>

(* The old token is blacklisted whether or not it was meanwhile, and a new *)
(* one recorded.                                                           *)
Rotate(r) ==
  /\ Finish(r, "refresh")
  /\ tokens' = (tokens \ {req[r].token}) \cup {[req[r].token EXCEPT !.late = @ \/ req[r].late]}
  /\ Answered(r)
  /\ UNCHANGED <<user, others, codes, issued, proved, standing, stale, served>>

(***************************************************************************)
(* One step each.                                                          *)
(***************************************************************************)
(* The right password stamps last_login even where the session is then     *)
(* refused.                                                                *)
Entered(u, p) ==
  /\ Serve
  /\ p = user[u].password
  /\ user' = [user EXCEPT ![u].entered = TRUE]
  /\ req' = Overtaken(u, FALSE)
  /\ UNCHANGED <<others, codes, proved, standing, stale>>

SignedIn(u, scope) ==
  /\ tokens' = tokens \cup {Session(u, scope, user[u].password)}
  /\ issued' = issued \cup {u}

Login(a, p) ==
  \E u \in Owners(a) :
    /\ Entered(u, p)
    /\ IF user[u].verified THEN SignedIn(u, "customer") ELSE UNCHANGED <<tokens, issued>>

AdminLogin(a, p) ==
  \E u \in Owners(a) :
    /\ Entered(u, p)
    /\ IF IsStaff(u) /\ user[u].verified THEN SignedIn(u, "admin")
       ELSE UNCHANGED <<tokens, issued>>

(* For staff who exist; no row is changed, not even email_verified.        *)
AdminGoogleLogin(a) ==
  \E u \in {v \in Owners(a) : IsStaff(v)} :
    /\ Serve
    /\ SignedIn(u, "admin")
    /\ proved' = proved \cup {<<u, a>>}
    /\ UNCHANGED <<user, others, codes, req, standing, stale>>

(* A logout ends the one token of its own cookie.                          *)
Blacklisted(t) ==
  /\ tokens' = tokens \ {t}
  /\ UNCHANGED <<user, others, codes, issued, req, served, proved, standing, stale>>
Logout(t)      == t \in tokens /\ t.scope = "customer" /\ Blacklisted(t)
AdminLogout(t) == t \in tokens /\ t.scope = "admin" /\ Blacklisted(t)

(* Any other account may take an address, and by the same endpoints.       *)
OtherAccount(a) ==
  /\ Unknown(a)
  /\ others' = others \cup {a}
  /\ UNCHANGED <<user, codes, tokens, issued, req, served, proved, standing, stale>>

(* Ten minutes, and a day.                                                 *)
Ages(from, to) ==
  /\ \E i \in DOMAIN codes : codes[i].age = from
  /\ codes' = [i \in DOMAIN codes |->
                 IF codes[i].age = from THEN [codes[i] EXCEPT !.age = to] ELSE codes[i]]
  /\ UNCHANGED <<user, others, tokens, issued, req, served, proved, standing, stale>>
CodesExpire == Ages("fresh", "expired")
DayPasses   == Ages("expired", "old")

Arrive(r) ==
  \/ \E a \in Addresses, p \in Passwords : Register(r, a, p)
  \/ \E a \in Addresses : ResendVerification(r, a) \/ PasswordResetRequest(r, a)
  \/ \E a \in Addresses, ok \in BOOLEAN, p \in Passwords : VerifyEmailConfirm(r, a, ok, p)
  \/ \E a \in Addresses, ok \in BOOLEAN : PasswordResetVerify(r, a, ok)
  \/ \E a \in Addresses, p \in Passwords : PasswordResetConfirm(r, a, p)
  \/ \E u \in Users, old, new \in Passwords : ChangePassword(r, u, old, new)
  \/ \E u \in Users, p \in Passwords, a \in Addresses : ChangeEmailCode(r, u, p, a)
  \/ \E u \in Users, p \in Passwords, a \in Addresses, ok \in BOOLEAN :
       ChangeEmailConfirm(r, u, p, a, ok)
  \/ \E u \in Users : UpdateProfile(r, u)
  \/ \E a \in Addresses : GoogleLogin(r, a)
  \/ \E t \in tokens : Refresh(r, t) \/ AdminRefresh(r, t)

Write(r) ==
  \/ Create(r) \/ Overwrite(r) \/ CountFailure(r) \/ MarkVerified(r) \/ GrantReset(r)
  \/ \E p \in Purposes : CreateEmailOtp(r, p)
  \/ ResetPassword(r) \/ SetNewPassword(r) \/ SwapEmail(r) \/ SaveProfile(r)
  \/ GoogleEnter(r) \/ GoogleCreate(r) \/ Rotate(r)

Next ==
  \/ \E r \in Requests : Arrive(r) \/ Write(r)
  \/ \E a \in Addresses, p \in Passwords : Login(a, p) \/ AdminLogin(a, p)
  \/ \E a \in Addresses : AdminGoogleLogin(a) \/ OtherAccount(a)
  \/ \E t \in tokens : Logout(t) \/ AdminLogout(t)
  \/ CodesExpire \/ DayPasses

Spec == Init /\ [][Next]_vars

(***************************************************************************)
(* Properties                                                              *)
(***************************************************************************)
(* An address counts as verified only for an account that showed a code    *)
(* mailed to that very address, or that Google vouched for: through        *)
(* registration over an unclaimed row, resets, changes of email and stale  *)
(* write-backs alike.                                                      *)
VerifiedProven ==
  \A u \in Users : Exists(u) /\ user[u].verified => <<u, user[u].email>> \in proved

(* The password an account was last given is the one it has, whatever      *)
(* other requests are in flight, unless one of them wrote back a whole row *)
(* it had read before (profile, change and reset of the password,          *)
(* registration over a row: save() without update_fields).                 *)
PasswordStands ==
  \A u \in Users : Exists(u) /\ u \notin stale => user[u].password = standing[u]

(* users/views.py:918 "A VERIFIED account keeps its password": but for its *)
(* owner's change or reset, it is changed only by a request that had read  *)
(* the row before it changed.                                              *)
VerifiedKeepsPassword ==
  [][\A u \in Users :
       Exists(u) /\ user[u].verified /\ user'[u].password # user[u].password
         => \E r \in Requests :
              /\ req[r] # Idle /\ req'[r] # req[r]
              /\ req[r].kind \in {"change_password", "reset_password"} \/ req[r].late]_vars

(* users/views.py:73: a change or reset of the password, a change of email *)
(* and a verification leave no refresh token of before.  Beside a stale    *)
(* row, the one exception is a rotation that had passed its check when the *)
(* tokens were revoked (late).                                             *)
EvictedStaysOut ==
  \A t \in tokens : \/ t.late \/ t.u \in stale
                    \/ t.cred = user[t.u].password

(* Nobody holds a session for an account whose address was never proved.   *)
SessionsProved == \A t \in tokens : <<t.u, user[t.u].email>> \in proved

(* An account is mailed at most MAX_CODES_PER_DAY codes of a kind a day,   *)
(* and one more for each further request that counted before either wrote. *)
CodeQuota ==
  \A u \in Users, p \in Purposes :
    Cardinality({i \in DOMAIN codes : codes[i].u = u /\ codes[i].purpose = p
                                      /\ codes[i].age # "old"})
      <= MaxCodesPerDay + Cardinality(Requests) - 1

(* Whoever counts as verified, or holds a session, has proved the address. *)
AccountProved == TypeOK /\ VerifiedProven /\ SessionsProved

(* What the owner last did stands: the password, and who was put out.      *)
OwnerStands == PasswordStands /\ EvictedStaysOut

=============================================================================

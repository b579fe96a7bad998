--------------------------- MODULE Accounts_proofs ---------------------------
(***************************************************************************)
(* Accounts, for any users, addresses, passwords and requests.  Handlers   *)
(* write what they decided from copies, so each layer says what the copies *)
(* of a request in flight still have to do with the rows:                  *)
(*                                                                         *)
(*   1. Typed       what a request carries exists;                         *)
(*   2. AddressInv  once an account had a session, every address it has    *)
(*                  had is proved, those in the copies included; before,   *)
(*                  its address never changed;                             *)
(*   3. OwnerInv    a copy nobody overtook is the row as it is;            *)
(*   4. QuotaInv    codes on their way count as codes sent.                *)
(***************************************************************************)
EXTENDS Accounts, NumberFacts, SequenceTheorems

-----------------------------------------------------------------------------
(***************************************************************************)
(* Layer 1.  What a request in flight carries.                             *)
(***************************************************************************)
RowKinds  == {"overwrite", "verify", "reset", "change_email", "reset_password", "change_password",
              "profile", "google"}
CodeKinds == {"wrong", "verify", "reset", "change_email", "reset_password"}
AddrKinds == {"create", "google_create", "google", "send_verify", "send_reset", "send_change_email",
              "change_email"}
PwKinds   == {"create", "overwrite", "reset_password", "change_password"}
Kinds     == RowKinds \cup CodeKinds \cup AddrKinds \cup PwKinds \cup {"refresh"}

Flight == [kind : Kinds, u : Users, row : Row \cup {Nobody}, code : Nat, seen : Nat,
           addr : Addresses \cup {Nobody}, pw : Passwords \cup {Nobody},
           token : Token \cup {Nobody}, late : BOOLEAN]

InFlight(q) == req[q] # Idle

Carries(f) ==
  /\ f \in Flight
  /\ f.kind \notin {"create", "google_create"} => Exists(f.u)
  /\ f.kind \in RowKinds  => f.row \in Row
  /\ f.kind \in CodeKinds => f.code \in DOMAIN codes
  /\ f.kind \in AddrKinds => f.addr \in Addresses
  /\ f.kind \in PwKinds   => f.pw \in Passwords
  /\ f.kind = "refresh"   => f.token \in Token /\ f.token.u = f.u

Flights == /\ DOMAIN req = Requests
           /\ \A q \in Requests : InFlight(q) => Carries(req[q])

Typed == TypeOK /\ Flights

(* What the other requests see of a step: at most, that they are late.     *)
Kept(q) == \/ req'[q] = req[q]
           \/ InFlight(q) /\ req'[q] = [req[q] EXCEPT !.late = TRUE]

(* The step is of the request r, if of any.                                *)
OthersKept(r) == DOMAIN req' = Requests /\ \A q \in Requests : q # r => Kept(q)

(* Codes stay, and accounts do.                                            *)
Remains == /\ DOMAIN codes \subseteq DOMAIN codes'
           /\ \A u \in Users : Exists(u) => Exists(u)'

LEMMA FlightNotIdle == ASSUME NEW f \in Flight PROVE f # Idle /\ f.kind \in Kinds
<1>1. f.kind \in Kinds /\ Idle.kind = "idle"
  BY DEF Flight, Idle
<1> QED
  BY <1>1 DEF Kinds, RowKinds, CodeKinds, AddrKinds, PwKinds

LEMMA KeptFields ==
  ASSUME Flights, NEW q \in Requests, Kept(q)
  PROVE  /\ InFlight(q)' <=> InFlight(q)
         /\ InFlight(q) =>
              /\ req'[q].kind = req[q].kind /\ req'[q].u = req[q].u /\ req'[q].row = req[q].row
              /\ req'[q].code = req[q].code /\ req'[q].seen = req[q].seen
              /\ req'[q].addr = req[q].addr /\ req'[q].pw = req[q].pw /\ req'[q].token = req[q].token
              /\ req[q].late => req'[q].late
              /\ req'[q] \in Flight
<1>1. CASE req'[q] = req[q]
  BY <1>1 DEF InFlight, Flights, Carries
<1>2. CASE InFlight(q) /\ req'[q] = [req[q] EXCEPT !.late = TRUE]
  <2>1. req[q] \in Flight
    BY <1>2 DEF Flights, Carries
  <2>2. req'[q] \in Flight
    BY <1>2, <2>1 DEF Flight
  <2>3. InFlight(q)'
    BY <2>2, FlightNotIdle DEF InFlight
  <2> QED BY <1>2, <2>1, <2>2, <2>3 DEF Flight
<1> QED
  BY <1>1, <1>2 DEF Kept

LEMMA FlightsKept ==
  ASSUME Flights, NEW r, OthersKept(r), Remains,
         r \in Requests => ~InFlight(r)' \/ Carries(req[r])'
  PROVE  Flights'
<1>1. ASSUME NEW q \in Requests, q # r, InFlight(q)' PROVE Carries(req[q])'
  <2>1. Kept(q)
    BY <1>1 DEF OthersKept
  <2>2. InFlight(q) /\ Carries(req[q])
    BY <1>1, <2>1, KeptFields DEF Flights
  <2>3. req[q].u \in Users
    BY <2>2 DEF Carries, Flight
  <2> QED BY <2>1, <2>2, <2>3, KeptFields DEF Carries, Remains
<1> QED
  BY <1>1 DEF Flights, OthersKept

(***************************************************************************)
(* What the answers do to the requests.                                    *)
(***************************************************************************)
LEMMA AnsweredKeeps ==
  ASSUME DOMAIN req = Requests, NEW r \in Requests, Answered(r)
  PROVE  OthersKept(r) /\ ~InFlight(r)' /\ \A q \in Requests : q # r => req'[q] = req[q]
BY DEF Answered, OthersKept, Kept, InFlight

(* Whoever is in flight on the account is late.                            *)
AllLate(r, u, evicts) ==
  \A q \in Requests :
    q # r /\ InFlight(q) /\ req[q].u = u /\ (req[q].kind = "refresh" => evicts) => req'[q].late

LEMMA OvertakenLate ==
  ASSUME Flights, NEW u, NEW evicts \in BOOLEAN, NEW r,
         DOMAIN req' = Requests, \A q \in Requests : q # r => req'[q] = Overtaken(u, evicts)[q]
  PROVE  OthersKept(r) /\ AllLate(r, u, evicts)
<1>1. \A q \in Requests : q # r => Kept(q)
  BY DEF Overtaken, Kept, InFlight
<1>2. ASSUME NEW q \in Requests, q # r, InFlight(q), req[q].u = u, req[q].kind = "refresh" => evicts
      PROVE  req'[q].late
  <2>1. req'[q] = [req[q] EXCEPT !.late = TRUE] /\ req[q] \in Flight
    BY <1>2 DEF Overtaken, InFlight, Flights, Carries
  <2> QED BY <2>1 DEF Flight
<1> QED
  BY <1>1, <1>2 DEF OthersKept, AllLate

LEMMA WroteKeeps ==
  ASSUME Flights, NEW u, NEW evicts \in BOOLEAN, NEW r \in Requests, Wrote(r, u, evicts)
  PROVE  OthersKept(r) /\ ~InFlight(r)' /\ AllLate(r, u, evicts)
<1>1. req' = [Overtaken(u, evicts) EXCEPT ![r] = Idle] /\ DOMAIN Overtaken(u, evicts) = Requests
  BY DEF Wrote, Overtaken
<1> HIDE DEF Overtaken
<1>2. /\ DOMAIN req' = Requests /\ req'[r] = Idle
      /\ \A q \in Requests : q # r => req'[q] = Overtaken(u, evicts)[q]
  BY <1>1
<1> QED
  BY <1>2, OvertakenLate DEF InFlight

(***************************************************************************)
(* Rows of codes and accounts.                                             *)
(***************************************************************************)
LEMMA CodesAre ==
  ASSUME codes \in Seq(Code)
  PROVE  /\ Len(codes) \in Nat /\ DOMAIN codes = 1..Len(codes)
         /\ \A i \in DOMAIN codes : codes[i] \in Code /\ i \in Nat
BY LenProperties, ElementOfSeq

(* Writes to one row of the codes.                                         *)
LEMMA CodeWritten ==
  ASSUME codes \in Seq(Code), NEW i \in DOMAIN codes, NEW c \in Code, codes' = [codes EXCEPT ![i] = c]
  PROVE  /\ codes' \in Seq(Code) /\ DOMAIN codes' = DOMAIN codes
         /\ codes'[i] = c /\ \A j \in DOMAIN codes : j # i => codes'[j] = codes[j]
<1>1. codes' \in Seq(Code)
  BY CodesAre, ExceptSeq
<1> QED
  BY <1>1, CodesAre

(* The columns that no request writes.                                     *)
SameCode(i) ==
  /\ codes'[i].u = codes[i].u /\ codes'[i].purpose = codes[i].purpose /\ codes'[i].to = codes[i].to
  /\ ~codes'[i].used => ~codes[i].used /\ codes'[i].grant = codes[i].grant

SameCodes == /\ codes' \in Seq(Code) /\ DOMAIN codes' = DOMAIN codes
             /\ \A i \in DOMAIN codes : SameCode(i) /\ codes'[i].age = codes[i].age

LEMMA SpentSame ==
  ASSUME codes \in Seq(Code), NEW i \in DOMAIN codes, NEW grant \in {"none", "reset"} \cup Addresses,
         codes' = Spent(i, grant)
  PROVE  SameCodes
<1> DEFINE c == [[codes[i] EXCEPT !.used = TRUE] EXCEPT !.grant = grant]
<1>1. codes[i] \in Code
  BY CodesAre
<1>2. /\ c \in Code /\ c.u = codes[i].u /\ c.purpose = codes[i].purpose /\ c.to = codes[i].to
      /\ c.used = TRUE /\ c.age = codes[i].age
  BY <1>1 DEF Code
<1>3. codes' = [codes EXCEPT ![i] = c]
  BY <1>1, CodesAre DEF Spent
<1> HIDE DEF c
<1> QED
  BY <1>2, <1>3, CodeWritten DEF SameCodes, SameCode

LEMMA AttemptsSame ==
  ASSUME codes \in Seq(Code), NEW i \in DOMAIN codes, NEW n \in Nat,
         codes' = [codes EXCEPT ![i].attempts = n]
  PROVE  SameCodes
<1> DEFINE c == [codes[i] EXCEPT !.attempts = n]
<1>1. codes[i] \in Code
  BY CodesAre
<1>2. /\ c \in Code /\ c.u = codes[i].u /\ c.purpose = codes[i].purpose /\ c.to = codes[i].to
      /\ c.used = codes[i].used /\ c.grant = codes[i].grant /\ c.age = codes[i].age
  BY <1>1 DEF Code
<1>3. codes' = [codes EXCEPT ![i] = c]
  BY <1>1, CodesAre
<1> HIDE DEF c
<1> QED
  BY <1>2, <1>3, CodeWritten DEF SameCodes, SameCode

LEMMA SpentAttemptsSame ==
  ASSUME codes \in Seq(Code), NEW i \in DOMAIN codes, NEW n \in Nat,
         codes' = [Spent(i, "none") EXCEPT ![i].attempts = n]
  PROVE  SameCodes
<1> DEFINE c == [[[codes[i] EXCEPT !.used = TRUE] EXCEPT !.grant = "none"] EXCEPT !.attempts = n]
<1>1. codes[i] \in Code
  BY CodesAre
<1>2. /\ c \in Code /\ c.u = codes[i].u /\ c.purpose = codes[i].purpose /\ c.to = codes[i].to
      /\ c.used = TRUE /\ c.age = codes[i].age
  BY <1>1 DEF Code
<1>3. codes' = [codes EXCEPT ![i] = c]
  BY <1>1, CodesAre DEF Spent
<1> HIDE DEF c
<1> QED
  BY <1>2, <1>3, CodeWritten DEF SameCodes, SameCode

-----------------------------------------------------------------------------
(***************************************************************************)
(* The invariants of the other layers.                                     *)
(***************************************************************************)
Proved(u, a) == <<u, a>> \in proved
Settled(u)   == Proved(u, user[u].email)

(* An inbox that codes or requests speak of: the one the account has, or   *)
(* the account has proved the one it has.                                  *)
Inbox(u, a)  == a = user[u].email \/ Settled(u)

CodeSound(i) ==
  /\ Exists(codes[i].u)
  /\ codes[i].purpose # "change_email" => Inbox(codes[i].u, codes[i].to)
  /\ codes[i].purpose = "change_email" /\ ~codes[i].used => codes[i].grant = codes[i].to

CopySound(u, row) ==
  /\ row.email = user[u].email \/ (Settled(u) /\ Proved(u, row.email))
  /\ row.verified => Proved(u, row.email)

FlightSound(f) ==
  /\ f.kind \in RowKinds  => CopySound(f.u, f.row)
  /\ f.kind \in CodeKinds => codes[f.code].u = f.u
  /\ f.kind \in {"verify", "reset_password"} => codes[f.code].purpose # "change_email"
  /\ f.kind \in {"send_verify", "send_reset", "google"} => Inbox(f.u, f.addr)
  /\ f.kind = "change_email" => codes[f.code].to = f.addr
  /\ f.kind \in {"change_email", "change_password", "refresh"} => f.u \in issued

AddressInv ==
  /\ \A u \in Users : Exists(u) /\ user[u].verified => Settled(u)
  /\ \A u \in issued : Exists(u) /\ Settled(u)
  /\ \A t \in tokens : t.u \in issued
  /\ \A i \in DOMAIN codes : CodeSound(i)
  /\ \A q \in Requests : InFlight(q) => FlightSound(req[q])

(* An account that has, or had, sessions; or a stale copy was written.     *)
Opened(u) == u \in stale \/ user[u].verified \/ user[u].staff

FlightFresh(f) ==
  /\ f.kind \in RowKinds /\ ~f.late => f.row = user[f.u]
  /\ f.kind = "overwrite" => ~f.row.verified /\ ~f.row.staff
  /\ f.kind = "refresh" => f.token.late \/ f.late \/ f.u \in stale \/ f.token.cred = user[f.u].password

OwnerInv ==
  /\ PasswordStands
  /\ EvictedStaysOut
  /\ \A u \in issued : Opened(u)
  /\ \A q \in Requests : InFlight(q) => FlightFresh(req[q])

(* Codes of the day, and those on their way.                               *)
Today(u, p)   == {i \in DOMAIN codes : codes[i].u = u /\ codes[i].purpose = p /\ codes[i].age # "old"}
Sending(u, p) == {q \in Requests : InFlight(q) /\ req[q].kind = SendKind[p] /\ req[q].u = u}

QuotaInv == \A u \in Users, p \in Purposes :
  Cardinality(Today(u, p)) + Cardinality(Sending(u, p)) <= MaxCodesPerDay + Cardinality(Requests) - 1

-----------------------------------------------------------------------------
(***************************************************************************)
(* The first step of every endpoint: what the new request carries is as    *)
(* the rows are.                                                           *)
(***************************************************************************)
Arrived(f) ==
  /\ Carries(f) /\ FlightSound(f) /\ FlightFresh(f)
  /\ \A p \in Purposes : f.kind = SendKind[p] => CodesLeft(f.u, p)

AllKinds == {"create", "overwrite", "verify", "reset", "change_email", "reset_password",
             "change_password", "profile", "google", "wrong", "google_create", "send_verify",
             "send_reset", "send_change_email", "refresh"}

LEMMA KindsAre == Kinds = AllKinds
BY DEF Kinds, RowKinds, CodeKinds, AddrKinds, PwKinds, AllKinds

LEMMA RowOf ==
  ASSUME TypeOK, NEW u \in Users, Exists(u)
  PROVE  user[u] \in Row
BY DEF TypeOK, Exists

LEMMA SendKinds ==
  /\ SendKind["verify"] = "send_verify" /\ SendKind["reset"] = "send_reset"
  /\ SendKind["change_email"] = "send_change_email"
BY DEF SendKind

Joins(r) == \E f : Begin(r, f) /\ Arrived(f)

LEMMA AskedIs ==
  ASSUME NEW kind \in AllKinds, NEW u \in Users
  PROVE  /\ Asked(kind, u) \in Flight
         /\ Asked(kind, u).kind = kind /\ Asked(kind, u).u = u /\ ~Asked(kind, u).late
BY KindsAre DEF Asked, Flight

LEMMA HoldingIs ==
  ASSUME TypeOK, NEW kind \in AllKinds, NEW u \in Users, Exists(u)
  PROVE  /\ Holding(kind, u) \in Flight /\ user[u] \in Row
         /\ Holding(kind, u).kind = kind /\ Holding(kind, u).u = u /\ Holding(kind, u).row = user[u]
         /\ ~Holding(kind, u).late
<1>1. user[u] \in Row
  BY RowOf
<1> QED
  BY <1>1, AskedIs DEF Holding, Flight

(* A copy of the row as it is.                                             *)
LEMMA CopyIsSound ==
  ASSUME AddressInv, NEW u \in Users, Exists(u)
  PROVE  CopySound(u, user[u])
BY DEF AddressInv, CopySound, Settled

LEMMA CreateArrives ==
  ASSUME NEW f \in Flight, f.kind \in {"create", "google_create"}, f.addr \in Addresses,
         f.kind = "create" => f.pw \in Passwords
  PROVE  Arrived(f)
BY SendKinds DEF Arrived, Carries, FlightSound, FlightFresh, RowKinds, CodeKinds, AddrKinds, PwKinds, Purposes

(* With a copy of the row.                                                 *)
LEMMA HoldingArrives ==
  ASSUME Typed, AddressInv, NEW u \in Users, Exists(u), NEW f \in Flight, f.u = u, f.row = user[u],
         f.kind \in {"overwrite", "change_password", "profile", "google"},
         f.kind = "overwrite" => ~user[u].verified /\ ~user[u].staff,
         f.kind = "change_password" => u \in issued,
         f.kind = "google" => f.addr = user[u].email /\ f.addr \in Addresses,
         f.kind \in {"overwrite", "change_password"} => f.pw \in Passwords
  PROVE  Arrived(f)
<1>1. user[u] \in Row
  BY RowOf DEF Typed
<1>2. Carries(f)
  BY <1>1 DEF Carries, RowKinds, CodeKinds, AddrKinds, PwKinds
<1>3. FlightSound(f)
  BY CopyIsSound DEF FlightSound, RowKinds, CodeKinds, Inbox
<1>4. FlightFresh(f)
  BY DEF FlightFresh
<1> QED
  BY <1>2, <1>3, <1>4, SendKinds DEF Arrived, Purposes

(* With a code that is judged, or granted.                                 *)
LEMMA JudgedArrives ==
  ASSUME Typed, AddressInv, NEW u \in Users, Exists(u), NEW i \in DOMAIN codes, codes[i].u = u,
         NEW f \in Flight, f.u = u, f.code = i,
         f.kind \in CodeKinds, f.kind # "wrong" => f.row = user[u],
         f.kind \in {"verify", "reset_password"} => codes[i].purpose # "change_email",
         f.kind = "change_email" => u \in issued /\ codes[i].to = f.addr /\ f.addr \in Addresses,
         f.kind = "reset_password" => f.pw \in Passwords
  PROVE  Arrived(f)
<1>1. user[u] \in Row
  BY RowOf DEF Typed
<1>2. Carries(f)
  BY <1>1 DEF Carries, RowKinds, CodeKinds, AddrKinds, PwKinds
<1>3. FlightSound(f)
  BY CopyIsSound DEF FlightSound, RowKinds, CodeKinds
<1>4. FlightFresh(f)
  BY DEF FlightFresh, RowKinds, CodeKinds
<1> QED
  BY <1>2, <1>3, <1>4, SendKinds DEF Arrived, Purposes, CodeKinds

(* To send a code.                                                         *)
LEMMA SendingArrives ==
  ASSUME NEW u \in Users, Exists(u), NEW p \in Purposes, CodesLeft(u, p),
         NEW a \in Addresses, p # "change_email" => a = user[u].email,
         NEW r, Begin(r, [Asked(SendKind[p], u) EXCEPT !.addr = a])
  PROVE  Joins(r)
<1> DEFINE f == [Asked(SendKind[p], u) EXCEPT !.addr = a]
<1>1. SendKind[p] \in {"send_verify", "send_reset", "send_change_email"}
  BY SendKinds DEF Purposes
<1>2. f \in Flight /\ f.kind = SendKind[p] /\ f.u = u /\ f.addr = a
  <2>1. Asked(SendKind[p], u) \in Flight
    BY <1>1, AskedIs DEF AllKinds
  <2> QED BY <1>1, <2>1, AskedIs DEF Flight, AllKinds
<1> HIDE DEF f
<1>3. \A x \in Purposes : f.kind = SendKind[x] => x = p
  BY <1>2, SendKinds DEF Purposes
<1>4. Carries(f)
  BY <1>1, <1>2 DEF Carries, RowKinds, CodeKinds, AddrKinds, PwKinds
<1>5. FlightSound(f) /\ FlightFresh(f)
  BY <1>1, <1>2, SendKinds DEF FlightSound, FlightFresh, RowKinds, CodeKinds, Inbox, Purposes
<1>6. Arrived(f)
  BY <1>2, <1>3, <1>4, <1>5 DEF Arrived
<1> QED
  BY <1>6 DEF Joins, f

LEMMA LatestIs ==
  ASSUME codes \in Seq(Code), NEW u, NEW p, Unused(u, p) # {}
  PROVE  /\ Latest(u, p) \in DOMAIN codes /\ codes[Latest(u, p)].u = u
         /\ codes[Latest(u, p)].purpose = p /\ ~codes[Latest(u, p)].used
<1>1. /\ Len(codes) \in Nat /\ DOMAIN codes = 1..Len(codes)
  BY CodesAre
<1>2. Unused(u, p) \in SUBSET Nat /\ \A n \in Unused(u, p) : n <= Len(codes)
  BY <1>1 DEF Unused
<1>3. Latest(u, p) \in Unused(u, p)
  BY <1>1, <1>2, MaxIsGreatest DEF Latest
<1> QED
  BY <1>3 DEF Unused

LEMMA JudgeArrives ==
  ASSUME Typed, AddressInv, NEW u \in Users, Exists(u), NEW p \in Purposes, NEW right \in BOOLEAN,
         NEW a \in Addresses, NEW r, Judge(r, u, p, right, a),
         p = "change_email" => u \in issued /\ codes[Latest(u, p)].grant = a
  PROVE  Joins(r)
<1> DEFINE i == Latest(u, p)
           f == [(IF right THEN Holding(p, u) ELSE Asked("wrong", u))
                     EXCEPT !.code = i, !.seen = codes[i].attempts, !.addr = a]
<1>1. codes \in Seq(Code) /\ Unused(u, p) # {} /\ Begin(r, f)
  BY DEF Typed, TypeOK, Judge, Enterable
<1>2. i \in DOMAIN codes /\ codes[i].u = u /\ codes[i].purpose = p /\ ~codes[i].used
  BY <1>1, LatestIs
<1>3. codes[i] \in Code /\ i \in Nat
  BY <1>1, <1>2, CodesAre
<1>4. codes[i].attempts \in Nat
  BY <1>3 DEF Code
<1>5. p = "change_email" => codes[i].to = a
  BY <1>2 DEF AddressInv, CodeSound
<1> HIDE DEF i
<1>6. TypeOK
  BY DEF Typed
<1>7. CASE right
  <2>1. /\ Holding(p, u) \in Flight /\ Holding(p, u).kind = p /\ Holding(p, u).u = u
        /\ Holding(p, u).row = user[u]
    BY <1>6, HoldingIs DEF AllKinds, Purposes
  <2>2. f \in Flight /\ f.kind = p /\ f.u = u /\ f.row = user[u] /\ f.code = i /\ f.addr = a
    BY <1>3, <1>4, <1>7, <2>1 DEF Flight
  <2> HIDE DEF f
  <2>3. f.kind \in CodeKinds /\ f.kind # "wrong" /\ f.kind # "reset_password"
    BY <2>2 DEF CodeKinds, Purposes
  <2>4. Arrived(f)
    BY <1>2, <1>5, <2>2, <2>3, JudgedArrives
  <2> QED BY <1>1, <2>4 DEF Joins
<1>8. CASE ~right
  <2>1. /\ Asked("wrong", u) \in Flight /\ Asked("wrong", u).kind = "wrong" /\ Asked("wrong", u).u = u
    BY AskedIs DEF AllKinds
  <2>2. f \in Flight /\ f.kind = "wrong" /\ f.u = u /\ f.code = i
    BY <1>3, <1>4, <1>8, <2>1 DEF Flight
  <2> HIDE DEF f
  <2>3. Arrived(f)
    BY <1>2, <2>2, JudgedArrives DEF CodeKinds
  <2> QED BY <1>1, <2>3 DEF Joins
<1> QED
  BY <1>7, <1>8

LEMMA OwnersExist ==
  ASSUME NEW a, NEW u \in Owners(a)
  PROVE  u \in Users /\ Exists(u) /\ user[u].email = a
BY DEF Owners

LEMMA RegisterArrives ==
  ASSUME Typed, AddressInv, NEW r, NEW a \in Addresses, NEW p \in Passwords, Register(r, a, p)
  PROVE  Joins(r)
<1>1. ASSUME NEW u \in Users, Begin(r, [Asked("create", u) EXCEPT !.addr = a, !.pw = p])
      PROVE  Joins(r)
  <2> DEFINE f == [Asked("create", u) EXCEPT !.addr = a, !.pw = p]
  <2>0. Asked("create", u) \in Flight /\ Asked("create", u).kind = "create"
    BY AskedIs DEF AllKinds
  <2>1. f \in Flight /\ f.kind = "create" /\ f.addr = a /\ f.pw = p
    BY <2>0 DEF Flight
  <2> HIDE DEF f
  <2>2. Arrived(f)
    BY <2>1, CreateArrives
  <2> QED BY <1>1, <2>2 DEF Joins, f
<1>2. ASSUME NEW u \in Owners(a), IsUnclaimed(u), Begin(r, [Holding("overwrite", u) EXCEPT !.pw = p])
      PROVE  Joins(r)
  <2> DEFINE f == [Holding("overwrite", u) EXCEPT !.pw = p]
  <2>0. u \in Users /\ Exists(u)
    BY OwnersExist
  <2>1. f \in Flight /\ f.kind = "overwrite" /\ f.u = u /\ f.row = user[u] /\ f.pw = p
    BY <2>0, HoldingIs DEF AllKinds, Flight, Typed
  <2> HIDE DEF f
  <2>2. Arrived(f)
    BY <1>2, <2>0, <2>1, HoldingArrives DEF IsUnclaimed, IsStaff
  <2> QED BY <1>2, <2>2 DEF Joins, f
<1> QED
  BY <1>1, <1>2 DEF Register

LEMMA CodeArrives ==
  ASSUME Typed, AddressInv, NEW r, NEW a \in Addresses, ResendVerification(r, a) \/ PasswordResetRequest(r, a)
  PROVE  Joins(r)
<1>1. PICK u \in Owners(a), p \in {"verify", "reset"} : RequestCode(r, u, p, a)
  BY DEF ResendVerification, PasswordResetRequest
<1>2. u \in Users /\ Exists(u) /\ user[u].email = a
  BY OwnersExist
<1> QED
  BY <1>1, <1>2, SendingArrives DEF RequestCode, Purposes

LEMMA VerifyArrives ==
  ASSUME Typed, AddressInv, NEW r, NEW a \in Addresses, NEW ok \in BOOLEAN, NEW p,
         VerifyEmailConfirm(r, a, ok, p)
  PROVE  Joins(r)
<1>1. PICK u \in Owners(a), right \in BOOLEAN : Judge(r, u, "verify", right, a)
  BY DEF VerifyEmailConfirm
<1>2. u \in Users /\ Exists(u)
  BY OwnersExist
<1> QED
  BY <1>1, <1>2, JudgeArrives DEF Purposes

LEMMA ResetArrives ==
  ASSUME Typed, AddressInv, NEW r, NEW a \in Addresses, NEW p \in Passwords, PasswordResetConfirm(r, a, p)
  PROVE  Joins(r)
<1>1. PICK u \in Owners(a), i \in DOMAIN codes :
        /\ codes[i].u = u /\ codes[i].purpose = "reset"
        /\ Begin(r, [Holding("reset_password", u) EXCEPT !.code = i, !.seen = codes[i].attempts, !.pw = p])
  BY DEF PasswordResetConfirm
<1> DEFINE f == [Holding("reset_password", u) EXCEPT !.code = i, !.seen = codes[i].attempts, !.pw = p]
<1>2. u \in Users /\ Exists(u)
  BY OwnersExist
<1>3. codes[i].attempts \in Nat /\ i \in Nat
  BY CodesAre DEF Typed, TypeOK, Code
<1>4. f \in Flight /\ f.kind = "reset_password" /\ f.u = u /\ f.row = user[u] /\ f.code = i /\ f.pw = p
  <2>1. /\ Holding("reset_password", u) \in Flight /\ Holding("reset_password", u).kind = "reset_password"
        /\ Holding("reset_password", u).u = u /\ Holding("reset_password", u).row = user[u]
    BY <1>2, HoldingIs DEF AllKinds, Typed
  <2> QED BY <1>3, <2>1 DEF Flight
<1> HIDE DEF f
<1>5. Arrived(f)
  BY <1>1, <1>2, <1>4, JudgedArrives DEF CodeKinds
<1> QED
  BY <1>1, <1>5 DEF Joins, f

LEMMA PasswordArrives ==
  ASSUME Typed, AddressInv, NEW r, NEW u \in Users, NEW p, NEW new \in Passwords, ChangePassword(r, u, p, new)
  PROVE  Joins(r)
<1> DEFINE f == [Holding("change_password", u) EXCEPT !.pw = new]
<1>1. Exists(u) /\ u \in issued
  BY DEF ChangePassword, Authenticated
<1>2. f \in Flight /\ f.kind = "change_password" /\ f.u = u /\ f.row = user[u] /\ f.pw = new
  BY <1>1, HoldingIs DEF AllKinds, Flight, Typed
<1> HIDE DEF f
<1>3. Arrived(f)
  BY <1>1, <1>2, HoldingArrives
<1> QED
  BY <1>3 DEF Joins, ChangePassword, f

LEMMA EmailArrives ==
  ASSUME Typed, AddressInv, NEW r, NEW u \in Users, NEW p, NEW a \in Addresses, NEW ok \in BOOLEAN,
         ChangeEmailCode(r, u, p, a) \/ ChangeEmailConfirm(r, u, p, a, ok)
  PROVE  Joins(r)
<1>1. Exists(u) /\ u \in issued
  BY DEF ChangeEmailCode, ChangeEmailConfirm, ChangeEmailAsked, Authenticated
<1>2. CASE ChangeEmailCode(r, u, p, a)
  BY <1>1, <1>2, SendingArrives DEF ChangeEmailCode, RequestCode, Purposes
<1>3. CASE ChangeEmailConfirm(r, u, p, a, ok)
  BY <1>1, <1>3, JudgeArrives DEF ChangeEmailConfirm, Purposes
<1> QED
  BY <1>2, <1>3

LEMMA ProfileArrives ==
  ASSUME Typed, AddressInv, NEW r, NEW u \in Users, UpdateProfile(r, u)
  PROVE  Joins(r)
<1>1. Exists(u)
  BY DEF UpdateProfile, Authenticated
<1>2. /\ Holding("profile", u) \in Flight /\ Holding("profile", u).kind = "profile"
      /\ Holding("profile", u).u = u /\ Holding("profile", u).row = user[u]
  BY <1>1, HoldingIs DEF AllKinds, Typed
<1>3. Arrived(Holding("profile", u))
  BY <1>1, <1>2, HoldingArrives
<1> QED
  BY <1>3 DEF Joins, UpdateProfile

LEMMA GoogleArrives ==
  ASSUME Typed, AddressInv, NEW r, NEW a \in Addresses, GoogleLogin(r, a)
  PROVE  Joins(r)
<1>1. ASSUME NEW u \in Owners(a), Begin(r, [Holding("google", u) EXCEPT !.addr = a])
      PROVE  Joins(r)
  <2> DEFINE f == [Holding("google", u) EXCEPT !.addr = a]
  <2>0. u \in Users /\ Exists(u) /\ user[u].email = a
    BY OwnersExist
  <2>1. f \in Flight /\ f.kind = "google" /\ f.u = u /\ f.row = user[u] /\ f.addr = a
    BY <2>0, HoldingIs DEF AllKinds, Flight, Typed
  <2> HIDE DEF f
  <2>2. Arrived(f)
    BY <2>0, <2>1, HoldingArrives
  <2> QED BY <1>1, <2>2 DEF Joins, f
<1>2. ASSUME NEW u \in Users, Begin(r, [Asked("google_create", u) EXCEPT !.addr = a])
      PROVE  Joins(r)
  <2> DEFINE f == [Asked("google_create", u) EXCEPT !.addr = a]
  <2>1. f \in Flight /\ f.kind = "google_create" /\ f.addr = a
    BY AskedIs DEF AllKinds, Flight
  <2> HIDE DEF f
  <2>2. Arrived(f)
    BY <2>1, CreateArrives
  <2> QED BY <1>2, <2>2 DEF Joins, f
<1> QED
  BY <1>1, <1>2 DEF GoogleLogin

LEMMA RefreshArrives ==
  ASSUME Typed, AddressInv, OwnerInv, NEW r, NEW t \in tokens, Refresh(r, t) \/ AdminRefresh(r, t)
  PROVE  Joins(r)
<1> DEFINE f == [Asked("refresh", t.u) EXCEPT !.token = t]
<1>1. Begin(r, f)
  BY DEF Refresh, AdminRefresh
<1>2. t \in Token /\ t.u \in Users /\ t.u \in issued
  BY DEF Typed, TypeOK, Token, AddressInv
<1>3. Exists(t.u)
  BY <1>2 DEF AddressInv
<1>4. f \in Flight /\ f.kind = "refresh" /\ f.u = t.u /\ f.token = t
  BY <1>2, AskedIs DEF AllKinds, Flight
<1> HIDE DEF f
<1>5. Carries(f)
  BY <1>2, <1>3, <1>4 DEF Carries, RowKinds, CodeKinds, AddrKinds, PwKinds
<1>6. FlightSound(f)
  BY <1>2, <1>4 DEF FlightSound, RowKinds, CodeKinds
<1>7. FlightFresh(f)
  BY <1>4 DEF FlightFresh, RowKinds, OwnerInv, EvictedStaysOut
<1>8. Arrived(f)
  BY <1>4, <1>5, <1>6, <1>7, SendKinds DEF Arrived, Purposes
<1> QED
  BY <1>1, <1>8 DEF Joins

LEMMA ArriveJoins == ASSUME Typed, AddressInv, OwnerInv, NEW r \in Requests, Arrive(r) PROVE Joins(r)
<1>1. ASSUME NEW a \in Addresses, NEW p \in Passwords,
             Register(r, a, p) \/ PasswordResetConfirm(r, a, p)
      PROVE  Joins(r)
  BY <1>1, RegisterArrives, ResetArrives
<1>2. ASSUME NEW a \in Addresses, ResendVerification(r, a) \/ PasswordResetRequest(r, a) \/ GoogleLogin(r, a)
      PROVE  Joins(r)
  BY <1>2, CodeArrives, GoogleArrives
<1>3. ASSUME NEW a \in Addresses, NEW ok \in BOOLEAN, NEW p \in Passwords, VerifyEmailConfirm(r, a, ok, p)
      PROVE  Joins(r)
  BY <1>3, VerifyArrives
<1>4. ASSUME NEW a \in Addresses, NEW ok \in BOOLEAN, PasswordResetVerify(r, a, ok)
      PROVE  Joins(r)
  <2>1. PICK u \in Owners(a) : Judge(r, u, "reset", ok, a)
    BY <1>4 DEF PasswordResetVerify
  <2> QED BY <2>1, OwnersExist, JudgeArrives DEF Purposes
<1>5. ASSUME NEW u \in Users, UpdateProfile(r, u) PROVE Joins(r)
  BY <1>5, ProfileArrives
<1>6. ASSUME NEW u \in Users, NEW p \in Passwords, NEW new \in Passwords, ChangePassword(r, u, p, new)
      PROVE  Joins(r)
  BY <1>6, PasswordArrives
<1>7. ASSUME NEW u \in Users, NEW p \in Passwords, NEW a \in Addresses, NEW ok \in BOOLEAN,
             ChangeEmailCode(r, u, p, a) \/ ChangeEmailConfirm(r, u, p, a, ok)
      PROVE  Joins(r)
  BY <1>7, EmailArrives
<1>8. ASSUME NEW u \in Users, NEW p \in Passwords, NEW a \in Addresses, ChangeEmailCode(r, u, p, a)
      PROVE  Joins(r)
  BY <1>7, <1>8
<1>9. ASSUME NEW t \in tokens, Refresh(r, t) \/ AdminRefresh(r, t) PROVE Joins(r)
  BY <1>9, RefreshArrives
<1> QED
  BY <1>1, <1>2, <1>3, <1>4, <1>5, <1>6, <1>7, <1>8, <1>9 DEF Arrive

-----------------------------------------------------------------------------
(***************************************************************************)
(* What every step leaves true, told of the account it writes.             *)
(***************************************************************************)
RowsTyped ==
  /\ user \in [Users -> Row \cup {Nobody}]
  /\ others \subseteq Addresses
  /\ codes \in Seq(Code)
  /\ tokens \subseteq Token
  /\ issued \subseteq Users
  /\ served \in 0..MaxServed
  /\ proved \subseteq Users \X Addresses
  /\ standing \in [Users -> Passwords \cup {Unusable, Nobody}]
  /\ stale \subseteq Users

(* A written row: its address is proved or was there before, whoever holds *)
(* a copy is late, and who has a session before keeps a proved account.    *)
RowStep(r, u) ==
  /\ user'[u] \in Row
  /\ user'[u].verified => Settled(u)'
  /\ Exists(u) => user'[u].email = user[u].email \/ (Settled(u) /\ Settled(u)')
  /\ Exists(u) /\ Opened(u) => Opened(u)'
  /\ u \notin stale' => user'[u].password = standing'[u]
  /\ \A q \in Requests : q # r /\ InFlight(q) /\ req[q].u = u =>
       /\ req[q].kind \in RowKinds => req'[q].late
       /\ req[q].kind = "refresh" => \/ req'[q].late \/ u \in stale'
                                     \/ user'[u].password = user[u].password

RowsStep(r) == \A u \in Users : \/ user'[u] = user[u] /\ standing'[u] = standing[u]
                                \/ RowStep(r, u)

Grows == proved \subseteq proved' /\ issued \subseteq issued' /\ stale \subseteq stale'

CodesStep == /\ \A i \in DOMAIN codes : i \in DOMAIN codes' /\ SameCode(i)
             /\ \A i \in DOMAIN codes' : i \in DOMAIN codes \/ CodeSound(i)'

TokenStep(t) == /\ t.u \in issued'
                /\ t.late \/ t.u \in stale' \/ t.cred = user'[t.u].password

Joining(r) == r \in Requests /\ InFlight(r)' => Carries(req[r])' /\ FlightSound(req[r])' /\ FlightFresh(req[r])'

Entering == \A u \in issued' : u \in issued \/ (Exists(u)' /\ Settled(u)' /\ Opened(u)')

Sound == Typed /\ AddressInv /\ OwnerInv

(* Whether an account has proved the address it has is never undone.       *)
LEMMA RowsRemain ==
  ASSUME TypeOK, NEW r, RowsStep(r), Grows, NEW u \in Users, Exists(u)
  PROVE  /\ Exists(u)'
         /\ Settled(u) => Settled(u)'
         /\ user'[u].email = user[u].email \/ (Settled(u) /\ Settled(u)')
         /\ Opened(u) => Opened(u)'
<1>1. CASE user'[u] = user[u]
  BY <1>1 DEF Exists, Settled, Proved, Grows, Opened
<1>2. CASE RowStep(r, u)
  BY <1>2, NobodyAssumption DEF RowStep, Exists, Settled, Proved, Grows
<1> QED
  BY <1>1, <1>2 DEF RowsStep

LEMMA CodesRemainSound ==
  ASSUME Typed, AddressInv, NEW r, RowsStep(r), Grows, CodesStep, NEW i \in DOMAIN codes'
  PROVE  CodeSound(i)'
<1>1. ASSUME i \in DOMAIN codes PROVE CodeSound(i)'
  <2>1. codes[i] \in Code /\ SameCode(i) /\ CodeSound(i)
    BY <1>1, CodesAre DEF Typed, TypeOK, CodesStep, AddressInv
  <2> PICK u : u = codes[i].u
    OBVIOUS
  <2>2. u \in Users /\ Exists(u)
    BY <2>1 DEF Code, CodeSound
  <2>3. Exists(u)' /\ (Settled(u) => Settled(u)') /\ (user'[u].email = user[u].email \/ Settled(u)')
    BY <2>2, RowsRemain DEF Typed
  <2>4. ASSUME NEW a, Inbox(u, a) PROVE a = user'[u].email \/ Settled(u)'
    BY <2>3, <2>4 DEF Inbox
  <2> QED BY <2>1, <2>3, <2>4 DEF CodeSound, SameCode, Inbox
<1> QED
  BY <1>1 DEF CodesStep

(* What others hold stays sound, whatever r writes.                        *)
LEMMA FlightsRemainSound ==
  ASSUME Typed, AddressInv, NEW r, OthersKept(r), RowsStep(r), Grows, CodesStep,
         NEW q \in Requests, q # r, InFlight(q)
  PROVE  FlightSound(req[q])'
<1> PICK f : f = req[q]
  OBVIOUS
<1> PICK u : u = req[q].u
  OBVIOUS
<1>1. Carries(f) /\ FlightSound(f) /\ f \in Flight /\ u \in Users /\ Kept(q)
  BY DEF Typed, Flights, Carries, Flight, AddressInv, OthersKept
<1>2. /\ req'[q].kind = f.kind /\ req'[q].u = u /\ req'[q].row = f.row /\ req'[q].code = f.code
      /\ req'[q].addr = f.addr
  BY <1>1, KeptFields DEF Typed
<1>3. ASSUME f.kind \notin {"create", "google_create"}
      PROVE  /\ Settled(u) => Settled(u)'
             /\ user'[u].email = user[u].email \/ (Settled(u) /\ Settled(u)')
  BY <1>1, <1>3, RowsRemain DEF Carries, Typed
<1>4. ASSUME f.kind \in RowKinds PROVE CopySound(u, f.row)'
  <2>1. CopySound(u, f.row) /\ f.kind \notin {"create", "google_create"}
    BY <1>1, <1>4 DEF FlightSound, RowKinds
  <2>2. \A a : Proved(u, a) => Proved(u, a)'
    BY DEF Grows, Proved
  <2>3. /\ Settled(u) => Settled(u)' /\ Proved(u, user[u].email)
        /\ user'[u].email = user[u].email \/ (Settled(u) /\ Settled(u)')
    BY <1>3, <2>1 DEF Settled
  <2> QED BY <2>1, <2>2, <2>3 DEF CopySound
<1>5. ASSUME f.kind \in {"send_verify", "send_reset", "google"} PROVE Inbox(u, f.addr)'
  BY <1>1, <1>3, <1>5 DEF FlightSound, Inbox
<1>6. ASSUME f.kind \in CodeKinds PROVE f.code \in DOMAIN codes /\ SameCode(f.code)
  BY <1>1, <1>6 DEF Carries, CodesStep
<1> QED
  BY <1>1, <1>2, <1>4, <1>5, <1>6 DEF FlightSound, SameCode, CodeKinds, Grows

LEMMA FlightsRemainFresh ==
  ASSUME Typed, OwnerInv, NEW r, OthersKept(r), RowsStep(r), Grows, NEW q \in Requests, q # r, InFlight(q)
  PROVE  FlightFresh(req[q])'
<1> PICK f : f = req[q]
  OBVIOUS
<1> PICK u : u = req[q].u
  OBVIOUS
<1>1. Carries(f) /\ FlightFresh(f) /\ f \in Flight /\ u \in Users /\ Kept(q)
  BY DEF Typed, Flights, Carries, Flight, OwnerInv, OthersKept
<1>2. /\ req'[q].kind = f.kind /\ req'[q].u = u /\ req'[q].row = f.row /\ req'[q].token = f.token
      /\ f.late => req'[q].late
      /\ f.late \in BOOLEAN /\ req'[q].late \in BOOLEAN
  BY <1>1, KeptFields DEF Typed, Flight
<1>3. CASE user'[u] = user[u]
  BY <1>1, <1>2, <1>3 DEF FlightFresh, Grows
<1>4. CASE RowStep(r, u)
  BY <1>1, <1>2, <1>4 DEF FlightFresh, RowStep, Grows
<1> QED
  BY <1>1, <1>3, <1>4 DEF RowsStep

LEMMA StepKeeps ==
  ASSUME Sound, NEW r, OthersKept(r), RowsTyped', RowsStep(r), Grows, CodesStep, Entering, Joining(r),
         \A t \in tokens' : TokenStep(t)
  PROVE  Sound'
<1>1. Typed /\ AddressInv /\ OwnerInv /\ TypeOK
  BY DEF Sound, Typed
<1>2. \A u \in Users : Exists(u) => /\ Exists(u)' /\ (Settled(u) => Settled(u)')
                                    /\ Opened(u) => Opened(u)'
  BY <1>1, RowsRemain
<1>3. Flights'
  <2>1. Remains
    BY <1>2 DEF Remains, CodesStep
  <2> QED BY <1>1, <2>1, FlightsKept DEF Typed, Joining
<1>4. Typed'
  <2>1. \A q \in Requests : InFlight(q)' => req'[q].u \in Users
    BY <1>3 DEF Flights, Carries, Flight
  <2> QED BY <1>3, <2>1 DEF Typed, TypeOK, RowsTyped, InFlight
<1>5. \A q \in Requests : q # r /\ InFlight(q)' => InFlight(q)
  BY <1>1, KeptFields DEF OthersKept, Typed
<1>6. AddressInv'
  <2>1. ASSUME NEW u \in Users, Exists(u)', user'[u].verified PROVE Settled(u)'
    BY <1>1, <2>1 DEF RowsStep, RowStep, AddressInv, Exists, Settled, Proved, Grows
  <2>2. ASSUME NEW u \in issued' PROVE Exists(u)' /\ Settled(u)'
    BY <1>1, <1>2, <2>2 DEF Entering, AddressInv, TypeOK
  <2>3. \A i \in DOMAIN codes' : CodeSound(i)'
    BY <1>1, CodesRemainSound
  <2>4. ASSUME NEW q \in Requests, InFlight(q)' PROVE FlightSound(req[q])'
    BY <1>1, <1>5, <2>4, FlightsRemainSound DEF Joining
  <2> QED BY <2>1, <2>2, <2>3, <2>4 DEF AddressInv, TokenStep
<1>7. OwnerInv'
  <2>1. PasswordStands'
    BY <1>1 DEF OwnerInv, PasswordStands, RowsStep, RowStep, Exists, Grows
  <2>2. EvictedStaysOut'
    BY DEF TokenStep, EvictedStaysOut
  <2>3. ASSUME NEW u \in issued' PROVE Opened(u)'
    BY <1>1, <1>2, <2>3 DEF Entering, AddressInv, OwnerInv, TypeOK
  <2>4. ASSUME NEW q \in Requests, InFlight(q)' PROVE FlightFresh(req[q])'
    BY <1>1, <1>5, <2>4, FlightsRemainFresh DEF Joining
  <2> QED BY <2>1, <2>2, <2>3, <2>4 DEF OwnerInv
<1> QED
  BY <1>4, <1>6, <1>7 DEF Sound

-----------------------------------------------------------------------------
(***************************************************************************)
(* The parts of a step that several handlers share.                        *)
(***************************************************************************)
LEMMA WriterIs ==
  ASSUME Sound, NEW r \in Requests, InFlight(r)
  PROVE  /\ Carries(req[r]) /\ FlightSound(req[r]) /\ FlightFresh(req[r])
         /\ req[r] \in Flight /\ req[r].u \in Users /\ req[r].late \in BOOLEAN
BY DEF Sound, Typed, AddressInv, OwnerInv, Flights, Carries, Flight

LEMMA Types == ASSUME Sound PROVE TypeOK /\ RowsTyped /\ Flights /\ DOMAIN req = Requests
BY DEF Sound, Typed, TypeOK, RowsTyped, Flights

LEMMA RowsSame == ASSUME user' = user, standing' = standing, NEW r PROVE RowsStep(r)
BY DEF RowsStep

LEMMA CodesSame == ASSUME codes' = codes \/ SameCodes PROVE CodesStep
BY DEF CodesStep, SameCodes, SameCode

LEMMA Gone == ASSUME NEW r, ~InFlight(r)' PROVE Joining(r)
BY DEF Joining

(* Tokens of before stay good where the password does.                     *)
LEMMA TokensStay ==
  ASSUME Sound, Grows, NEW t \in tokens, user'[t.u].password = user[t.u].password \/ t.u \in stale'
  PROVE  TokenStep(t)
BY DEF Sound, AddressInv, OwnerInv, EvictedStaysOut, TokenStep, Grows

LEMMA NoNewcomers == ASSUME issued' = issued PROVE Entering
BY DEF Entering

LEMMA RowWritten ==
  ASSUME Sound, NEW u \in Users, NEW w \in Row, user' = [user EXCEPT ![u] = w]
  PROVE  /\ user'[u] = w /\ \A v \in Users : v # u => user'[v] = user[v]
         /\ user' \in [Users -> Row \cup {Nobody}]
         /\ Exists(u)'
BY NobodyAssumption DEF Sound, Typed, TypeOK, Exists

LEMMA RowStepped ==
  ASSUME Sound, NEW r, NEW u \in Users, \A v \in Users : v # u => user'[v] = user[v], RowStep(r, u),
         standing' = standing \/ \E p : SetPassword(u, p)
  PROVE  RowsStep(r)
BY DEF Sound, Typed, TypeOK, SetPassword, RowsStep

LEMMA PasswordSet ==
  ASSUME Sound, NEW u \in Users, NEW p \in Passwords \cup {Unusable}, SetPassword(u, p)
  PROVE  standing'[u] = p /\ standing' \in [Users -> Passwords \cup {Unusable, Nobody}]
BY DEF Sound, Typed, TypeOK, SetPassword

LEMMA SessionIs ==
  ASSUME NEW u \in Users, NEW scope \in Scopes, NEW cred \in Passwords \cup {Unusable}
  PROVE  Session(u, scope, cred) \in Token /\ Session(u, scope, cred).u = u /\ Session(u, scope, cred).cred = cred
BY DEF Session, Token, Scopes

LEMMA EvictedAre ==
  ASSUME Sound, NEW u
  PROVE  Evicted(u) \subseteq tokens /\ Evicted(u) \subseteq Token /\ \A t \in Evicted(u) : t.u # u
BY DEF Evicted, Sound, Typed, TypeOK

(* An account with a session exists, has proved its address and is open.   *)
LEMMA InsidersAre ==
  ASSUME Sound, NEW u \in issued
  PROVE  u \in Users /\ Exists(u) /\ Settled(u) /\ Opened(u)
BY DEF Sound, Typed, TypeOK, AddressInv, OwnerInv

-----------------------------------------------------------------------------
(***************************************************************************)
(* Step by step: what the rows and the requests are after each.            *)
(***************************************************************************)
LEMMA BeginKeeps == ASSUME Sound, NEW r \in Requests, Joins(r) PROVE Sound'
<1>1. PICK f : Begin(r, f) /\ Arrived(f)
  BY DEF Joins
<1>2. /\ UNCHANGED <<user, others, codes, tokens, issued, proved, standing, stale>>
      /\ req' = [req EXCEPT ![r] = f] /\ served < MaxServed /\ served' = served + 1
  BY <1>1 DEF Begin, Serve
<1>3. OthersKept(r) /\ req'[r] = f
  BY <1>2, Types DEF OthersKept, Kept
<1>4. RowsTyped'
  BY <1>2, Types, LimitsAssumption DEF RowsTyped
<1>5. RowsStep(r) /\ Grows /\ CodesStep /\ Entering
  BY <1>2, RowsSame, CodesSame, NoNewcomers DEF Grows
<1>6. \A t \in tokens' : TokenStep(t)
  BY <1>2, <1>5, TokensStay
<1>7. Carries(f)' /\ FlightSound(f)' /\ FlightFresh(f)'
  BY <1>1, <1>2 DEF Arrived, Carries, Exists, FlightSound, CopySound, Settled, Proved, Inbox, FlightFresh
<1> QED
  BY <1>3, <1>4, <1>5, <1>6, <1>7, StepKeeps DEF Joining

LEMMA CreateKeeps == ASSUME Sound, NEW r \in Requests, Create(r) PROVE Sound'
<1> PICK u : u = req[r].u
  OBVIOUS
<1>0. InFlight(r) /\ req[r].kind = "create"
  BY DEF Create, Finish, InFlight
<1>1. /\ Carries(req[r]) /\ req[r] \in Flight /\ u \in Users
      /\ req[r].addr \in Addresses /\ req[r].pw \in Passwords
  BY <1>0, WriterIs DEF Carries, AddrKinds, PwKinds
<1>2. UNCHANGED <<others, codes, tokens, issued, proved, stale, served>>
  BY DEF Create
<1>3. Grows /\ CodesStep /\ Entering
  BY <1>2, CodesSame, NoNewcomers DEF Grows
<1>4. CASE Answered(r) /\ UNCHANGED <<user, others, standing>>
  <2>1. OthersKept(r) /\ Joining(r)
    BY <1>4, Types, AnsweredKeeps, Gone
  <2>2. RowsTyped' /\ RowsStep(r)
    BY <1>2, <1>4, Types, RowsSame DEF RowsTyped
  <2>3. \A t \in tokens' : TokenStep(t)
    BY <1>2, <1>3, <1>4, TokensStay
  <2> QED BY <1>3, <2>1, <2>2, <2>3, StepKeeps
<1>5. CASE /\ ~Exists(u)
           /\ user' = [user EXCEPT ![u] = NewAccount(req[r].addr, FALSE, req[r].pw)]
           /\ SetPassword(u, req[r].pw)
           /\ req' = [req EXCEPT ![r].kind = "send_verify"]
  <2> PICK w : w = NewAccount(req[r].addr, FALSE, req[r].pw)
    OBVIOUS
  <2>1. w \in Row /\ w.email = req[r].addr /\ ~w.verified /\ w.password = req[r].pw
    BY <1>1 DEF NewAccount, Row
  <2>2. /\ user'[u] = w /\ \A v \in Users : v # u => user'[v] = user[v]
        /\ user' \in [Users -> Row \cup {Nobody}] /\ Exists(u)'
    BY <1>1, <1>5, <2>1, RowWritten
  <2>3. standing'[u] = req[r].pw /\ standing' \in [Users -> Passwords \cup {Unusable, Nobody}]
    BY <1>1, <1>5, PasswordSet
  <2>4. RowsTyped'
    BY <1>2, <2>2, <2>3, Types DEF RowsTyped
  <2>5. OthersKept(r) /\ req'[r] = [req[r] EXCEPT !.kind = "send_verify"]
    BY <1>5, Types DEF OthersKept, Kept
  <2>6. ASSUME NEW q \in Requests, q # r, InFlight(q), req[q].u = u
        PROVE  req[q].kind \notin RowKinds /\ req[q].kind # "refresh"
    BY <1>5, <2>6, WriterIs DEF Carries, RowKinds
  <2>7. RowsStep(r)
    <3>1. RowStep(r, u)
      BY <1>5, <2>1, <2>2, <2>3, <2>6 DEF RowStep
    <3> QED BY <1>1, <1>5, <2>2, <3>1, RowStepped
  <2>8. ASSUME NEW t \in tokens' PROVE TokenStep(t)
    <3>1. t \in tokens /\ t.u \in issued
      BY <1>2 DEF Sound, AddressInv
    <3>2. t.u # u /\ t.u \in Users
      BY <1>5, <3>1, InsidersAre
    <3> QED BY <1>3, <2>2, <3>1, <3>2, TokensStay
  <2>9. Joining(r)
    <3> PICK f : f = req'[r]
      OBVIOUS
    <3>1. f \in Flight /\ f.kind = "send_verify" /\ f.u = u /\ f.addr = req[r].addr
      BY <1>1, <2>5 DEF Flight, Kinds, AddrKinds
    <3>2. Carries(f)'
      BY <1>1, <2>2, <3>1 DEF Carries, RowKinds, CodeKinds, AddrKinds, PwKinds
    <3>3. FlightSound(f)' /\ FlightFresh(f)'
      BY <2>1, <2>2, <3>1 DEF FlightSound, FlightFresh, Inbox, RowKinds, CodeKinds
    <3> QED BY <3>2, <3>3 DEF Joining
  <2> QED BY <1>3, <2>4, <2>5, <2>7, <2>8, <2>9, StepKeeps
<1> QED
  BY <1>4, <1>5 DEF Create

LEMMA OverwriteRequests ==
  ASSUME Sound, NEW r \in Requests, Overwrite(r)
  PROVE  /\ OthersKept(r) /\ AllLate(r, req[r].u, FALSE)
         /\ req'[r] = IF CodesLeft(req[r].u, "verify")
                      THEN [req[r] EXCEPT !.kind = "send_verify", !.addr = req[r].row.email] ELSE Idle
<1> PICK u : u = req[r].u
  OBVIOUS
<1> PICK over : over = Overtaken(u, FALSE)
  OBVIOUS
<1>1. DOMAIN Overtaken(u, FALSE) = Requests
  BY DEF Overtaken
<1>2. req' = [over EXCEPT ![r] = IF CodesLeft(u, "verify")
                                 THEN [req[r] EXCEPT !.kind = "send_verify", !.addr = req[r].row.email] ELSE Idle]
  BY DEF Overwrite
<1>3. DOMAIN req' = Requests /\ \A q \in Requests : q # r => req'[q] = over[q]
  BY <1>1, <1>2
<1> QED
  BY <1>1, <1>2, <1>3, OvertakenLate, Types

LEMMA OverwriteKeeps == ASSUME Sound, NEW r \in Requests, Overwrite(r) PROVE Sound'
<1> PICK u : u = req[r].u
  OBVIOUS
<1> PICK o : o = req[r].row
  OBVIOUS
<1> PICK w : w = Reregistered(o, req[r].pw)
  OBVIOUS
<1>0. InFlight(r) /\ req[r].kind = "overwrite"
  BY DEF Overwrite, Finish, InFlight
<1>1. /\ Carries(req[r]) /\ FlightSound(req[r]) /\ FlightFresh(req[r]) /\ req[r] \in Flight
      /\ u \in Users /\ Exists(u) /\ o \in Row /\ req[r].pw \in Passwords
      /\ CopySound(u, o) /\ ~o.verified /\ ~o.staff /\ (~req[r].late => o = user[u])
  BY <1>0, WriterIs DEF Carries, FlightSound, FlightFresh, RowKinds, PwKinds
<1>2. /\ UNCHANGED <<others, codes, tokens, issued, proved, served>>
      /\ user' = [user EXCEPT ![u] = w] /\ SetPassword(u, req[r].pw)
      /\ stale' = IF req[r].late THEN stale \cup {u} ELSE stale
  BY DEF Overwrite, SaveRow
<1>3. w \in Row /\ w.email = o.email /\ ~w.verified /\ w.password = req[r].pw
  BY <1>1 DEF Reregistered, Row
<1>4. /\ user'[u] = w /\ \A v \in Users : v # u => user'[v] = user[v]
      /\ user' \in [Users -> Row \cup {Nobody}] /\ Exists(u)'
  BY <1>1, <1>2, <1>3, RowWritten
<1>5. standing'[u] = req[r].pw /\ standing' \in [Users -> Passwords \cup {Unusable, Nobody}]
  BY <1>1, <1>2, PasswordSet
<1>6. RowsTyped'
  BY <1>1, <1>2, <1>4, <1>5, Types DEF RowsTyped
<1>7. Grows /\ CodesStep /\ Entering
  BY <1>2, CodesSame, NoNewcomers DEF Grows
<1>8. OthersKept(r) /\ AllLate(r, u, FALSE)
      /\ req'[r] = IF CodesLeft(u, "verify") THEN [req[r] EXCEPT !.kind = "send_verify", !.addr = o.email]
                   ELSE Idle
  BY OverwriteRequests
(* Whoever held a session was staff or verified: the copy is an old one.   *)
<1>9. Opened(u) => u \in stale'
  BY <1>1, <1>2 DEF Opened
<1>10. RowsStep(r)
  <2>1. ASSUME NEW q \in Requests, InFlight(q), req[q].u = u, req[q].kind = "refresh"
        PROVE  u \in stale'
    BY <1>9, <2>1, WriterIs, InsidersAre DEF FlightSound
  <2>2. user'[u].email = user[u].email \/ (Settled(u) /\ Settled(u)')
    BY <1>1, <1>2, <1>3, <1>4 DEF CopySound, Settled, Proved
  <2>3. RowStep(r, u)
    BY <1>3, <1>4, <1>5, <1>8, <1>9, <2>1, <2>2 DEF RowStep, AllLate, Opened, RowKinds
  <2> QED BY <1>1, <1>2, <1>4, <2>3, RowStepped
<1>11. ASSUME NEW t \in tokens' PROVE TokenStep(t)
  <2>1. t \in tokens /\ t.u \in issued
    BY <1>2 DEF Sound, AddressInv
  <2>2. t.u \in Users /\ Opened(t.u)
    BY <2>1, InsidersAre
  <2> QED BY <1>4, <1>7, <1>9, <2>1, <2>2, TokensStay
<1>12. Joining(r)
  <2>1. CASE ~InFlight(r)'
    BY <2>1, Gone
  <2>2. CASE InFlight(r)'
    <3> PICK f : f = req'[r]
      OBVIOUS
    <3>1. o.email \in Addresses
      BY <1>1 DEF Row
    <3>2. f = [req[r] EXCEPT !.kind = "send_verify", !.addr = o.email]
      BY <1>8, <2>2 DEF InFlight
    <3>3. f \in Flight /\ f.kind = "send_verify" /\ f.u = u /\ f.addr = o.email
      BY <1>1, <3>1, <3>2 DEF Flight, Kinds, AddrKinds
    <3>4. Carries(f)'
      BY <1>4, <3>1, <3>3 DEF Carries, RowKinds, CodeKinds, AddrKinds, PwKinds
    <3>5. FlightSound(f)' /\ FlightFresh(f)'
      BY <1>3, <1>4, <3>3 DEF FlightSound, FlightFresh, Inbox, RowKinds, CodeKinds
    <3> QED BY <3>4, <3>5 DEF Joining
  <2> QED BY <2>1, <2>2
<1> QED
  BY <1>6, <1>7, <1>8, <1>10, <1>11, <1>12, StepKeeps

(* The code rows, and nothing else: a request is answered.                 *)
LEMMA CodesWritten ==
  ASSUME Sound, NEW r \in Requests, Answered(r), RowsTyped', CodesStep,
         UNCHANGED <<user, tokens, issued, proved, standing, stale>>
  PROVE  Sound'
<1>1. OthersKept(r) /\ Joining(r)
  BY Types, AnsweredKeeps, Gone
<1>2. RowsStep(r) /\ Grows /\ Entering
  BY RowsSame, NoNewcomers DEF Grows
<1>3. \A t \in tokens' : TokenStep(t)
  BY <1>2, TokensStay
<1> QED
  BY <1>1, <1>2, <1>3, StepKeeps

(* Failed attempts are counted, or the code is used up.                    *)
LEMMA CodesJudged ==
  ASSUME Sound, NEW r \in Requests,
         CountFailure(r) \/ MarkVerified(r) \/ GrantReset(r) \/ ResetPassword(r) \/ SwapEmail(r)
  PROVE  SameCodes
<1> PICK i : i = req[r].code
  OBVIOUS
<1>1. InFlight(r) /\ req[r].kind \in CodeKinds
  BY DEF CountFailure, MarkVerified, GrantReset, ResetPassword, SwapEmail, Finish, InFlight, CodeKinds
<1>2. i \in DOMAIN codes /\ req[r].seen \in Nat /\ req[r].seen + 1 \in Nat
  BY <1>1, WriterIs DEF Carries, Flight
<1>3. codes \in Seq(Code) /\ codes[i].grant \in {"none", "reset"} \cup Addresses
  BY <1>2, CodesAre, Types DEF RowsTyped, Code
<1>4. CASE CountFailure(r)
  BY <1>2, <1>3, <1>4, AttemptsSame DEF CountFailure
<1>5. CASE MarkVerified(r)
  BY <1>2, <1>3, <1>5, SpentSame DEF MarkVerified
<1>6. CASE GrantReset(r)
  BY <1>2, <1>3, <1>6, SpentSame DEF GrantReset
<1>7. CASE ResetPassword(r)
  BY <1>2, <1>3, <1>7, SpentAttemptsSame DEF ResetPassword
<1>8. CASE SwapEmail(r)
  BY <1>2, <1>3, <1>8, SpentSame DEF SwapEmail
<1> QED
  BY <1>4, <1>5, <1>6, <1>7, <1>8

LEMMA CountFailureKeeps == ASSUME Sound, NEW r \in Requests, CountFailure(r) PROVE Sound'
<1>1. RowsTyped' /\ CodesStep
  BY CodesJudged, CodesSame, Types DEF CountFailure, RowsTyped, SameCodes
<1> QED
  BY <1>1, CodesWritten DEF CountFailure

LEMMA GrantResetKeeps == ASSUME Sound, NEW r \in Requests, GrantReset(r) PROVE Sound'
<1>1. RowsTyped' /\ CodesStep
  BY CodesJudged, CodesSame, Types DEF GrantReset, RowsTyped, SameCodes
<1> QED
  BY <1>1, CodesWritten DEF GrantReset

(* A new code, at the end; earlier ones of its purpose are used up.        *)
CodeAppended(u, p, a) ==
  /\ codes' \in Seq(Code) /\ DOMAIN codes' = DOMAIN codes \cup {Len(codes) + 1}
  /\ \A i \in DOMAIN codes : SameCode(i) /\ codes'[i].age = codes[i].age
  /\ codes'[Len(codes) + 1].u = u /\ codes'[Len(codes) + 1].purpose = p
  /\ codes'[Len(codes) + 1].to = a
  /\ p = "change_email" => codes'[Len(codes) + 1].grant = a

LEMMA OtpAppends ==
  ASSUME Sound, NEW r \in Requests, NEW p \in Purposes, CreateEmailOtp(r, p)
  PROVE  CodeAppended(req[r].u, p, req[r].addr) /\ InFlight(r) /\ req[r].kind = SendKind[p]
<1> PICK u : u = req[r].u
  OBVIOUS
<1> PICK a : a = req[r].addr
  OBVIOUS
<1> PICK used : used = [i \in DOMAIN codes |->
                          IF i \in Unused(u, p) THEN [codes[i] EXCEPT !.used = TRUE] ELSE codes[i]]
  OBVIOUS
<1> PICK c : c = [u |-> u, purpose |-> p, to |-> a, used |-> FALSE,
                  grant |-> IF p = "change_email" THEN a ELSE "none", attempts |-> 0, age |-> "fresh"]
  OBVIOUS
<1>1. InFlight(r) /\ req[r].kind = SendKind[p] /\ codes' = Append(used, c)
  BY DEF CreateEmailOtp, Finish, InFlight
<1>2. u \in Users /\ a \in Addresses
  BY <1>1, WriterIs, SendKinds DEF Carries, AddrKinds, Purposes
<1>3. c \in Code /\ c.u = u /\ c.purpose = p /\ c.to = a /\ (p = "change_email" => c.grant = a)
  BY <1>2 DEF Code, Purposes
<1>4. codes \in Seq(Code) /\ Len(codes) \in Nat /\ DOMAIN codes = 1..Len(codes)
  BY CodesAre, Types DEF RowsTyped
<1>5. ASSUME NEW i \in DOMAIN codes
      PROVE  /\ used[i] \in Code /\ used[i].u = codes[i].u /\ used[i].purpose = codes[i].purpose
             /\ used[i].to = codes[i].to /\ used[i].age = codes[i].age
             /\ ~used[i].used => ~codes[i].used /\ used[i].grant = codes[i].grant
  <2>1. codes[i] \in Code
    BY <1>4, CodesAre
  <2>2. CASE i \in Unused(u, p)
    <3>1. used[i] = [codes[i] EXCEPT !.used = TRUE]
      BY <2>2
    <3> QED BY <2>1, <3>1 DEF Code
  <2>3. CASE i \notin Unused(u, p)
    BY <2>1, <2>3
  <2> QED BY <2>2, <2>3
<1>6. used \in Seq(Code) /\ Len(used) = Len(codes) /\ DOMAIN used = DOMAIN codes
  <2>1. DOMAIN used = 1..Len(codes) /\ \A i \in 1..Len(codes) : used[i] \in Code
    BY <1>4, <1>5
  <2>2. used = [i \in 1..Len(codes) |-> used[i]]
    BY <1>4
  <2>3. used \in Seq(Code)
    BY <1>4, <2>1, <2>2, IsASeq
  <2> QED BY <1>4, <2>1, <2>3, LenProperties
<1>7. /\ codes' \in Seq(Code) /\ Len(codes') = Len(codes) + 1 /\ codes'[Len(codes) + 1] = c
      /\ \A i \in 1..Len(codes) : codes'[i] = used[i]
  BY <1>1, <1>3, <1>6, AppendProperties
<1>8. DOMAIN codes' = DOMAIN codes \cup {Len(codes) + 1}
  BY <1>4, <1>7, LenProperties
<1> QED
  BY <1>1, <1>3, <1>4, <1>5, <1>7, <1>8 DEF CodeAppended, SameCode

LEMMA CreateEmailOtpKeeps ==
  ASSUME Sound, NEW r \in Requests, NEW p \in Purposes, CreateEmailOtp(r, p)
  PROVE  Sound'
<1> PICK u : u = req[r].u
  OBVIOUS
<1> PICK n : n = Len(codes) + 1
  OBVIOUS
<1>1. CodeAppended(u, p, req[r].addr) /\ InFlight(r) /\ req[r].kind = SendKind[p]
  BY OtpAppends
<1>2. UNCHANGED <<user, others, tokens, issued, proved, standing, stale, served>> /\ Answered(r)
  BY DEF CreateEmailOtp
<1>3. u \in Users /\ Exists(u) /\ (p # "change_email" => Inbox(u, req[r].addr))
  BY <1>1, WriterIs, SendKinds DEF Carries, FlightSound, Purposes
<1>4. CodeSound(n)'
  BY <1>1, <1>2, <1>3 DEF CodeAppended, CodeSound, Exists, Inbox, Settled, Proved
<1>5. CodesStep
  BY <1>1, <1>4 DEF CodesStep, CodeAppended
<1>6. RowsTyped'
  BY <1>1, <1>2, Types DEF RowsTyped, CodeAppended
<1> QED
  BY <1>2, <1>5, <1>6, CodesWritten

(* A handler that has answered with the row of u written.                  *)
LEMMA RowAnswered ==
  ASSUME Sound, NEW r \in Requests, NEW u \in Users, NEW w \in Row, user' = [user EXCEPT ![u] = w],
         NEW evicts \in BOOLEAN, Wrote(r, u, evicts), RowStep(r, u), RowsTyped', Grows, CodesStep, Entering,
         standing' = standing \/ \E p : SetPassword(u, p),
         \A t \in tokens' : (t \in tokens /\ t.u # u) \/ TokenStep(t)
  PROVE  Sound'
<1>1. \A v \in Users : v # u => user'[v] = user[v]
  BY RowWritten
<1>2. OthersKept(r) /\ Joining(r)
  BY WroteKeeps, Gone, Types
<1>3. RowsStep(r)
  BY <1>1, RowStepped
<1>4. ASSUME NEW t \in tokens, t.u # u PROVE TokenStep(t)
  <2>1. t.u \in Users
    BY Types DEF RowsTyped, Token
  <2> QED BY <1>1, <1>4, <2>1, TokensStay
<1> QED
  BY <1>2, <1>3, <1>4, StepKeeps

(* The code's address, once it is shown.                                   *)
LEMMA ShownIs ==
  ASSUME Sound, NEW r \in Requests, InFlight(r), req[r].kind \in CodeKinds, Shown(req[r].u, req[r].code)
  PROVE  /\ req[r].code \in DOMAIN codes /\ codes[req[r].code].to \in Addresses
         /\ proved \subseteq proved' /\ proved' \subseteq Users \X Addresses
         /\ <<req[r].u, codes[req[r].code].to>> \in proved'
         /\ codes[req[r].code].purpose # "change_email" => Inbox(req[r].u, codes[req[r].code].to)
<1>1. req[r].code \in DOMAIN codes /\ req[r].u \in Users /\ codes[req[r].code].u = req[r].u
  BY WriterIs DEF Carries, FlightSound
<1>2. codes[req[r].code].to \in Addresses
  BY <1>1, CodesAre, Types DEF RowsTyped, Code
<1>3. CodeSound(req[r].code)
  BY <1>1 DEF Sound, AddressInv
<1>4. proved' = proved \cup {<<req[r].u, codes[req[r].code].to>>}
  BY DEF Shown
<1>5. proved \subseteq proved' /\ proved' \subseteq Users \X Addresses
  BY <1>1, <1>2, <1>4, Types DEF RowsTyped
<1>6. <<req[r].u, codes[req[r].code].to>> \in proved'
  BY <1>4
<1> QED
  BY <1>1, <1>2, <1>3, <1>5, <1>6 DEF CodeSound

LEMMA MarkVerifiedKeeps == ASSUME Sound, NEW r \in Requests, MarkVerified(r) PROVE Sound'
<1> PICK u : u = req[r].u
  OBVIOUS
<1> PICK o : o = req[r].row
  OBVIOUS
<1> PICK to : to = codes[req[r].code].to
  OBVIOUS
<1>0. InFlight(r) /\ req[r].kind = "verify"
  BY DEF MarkVerified, Finish, InFlight
<1>1. /\ u \in Users /\ Exists(u) /\ o \in Row /\ CopySound(u, o)
      /\ req[r].code \in DOMAIN codes /\ codes[req[r].code].purpose # "change_email"
  BY <1>0, WriterIs DEF Carries, FlightSound, RowKinds, CodeKinds
<1>2. /\ proved \subseteq proved' /\ proved' \subseteq Users \X Addresses
      /\ Proved(u, to)' /\ Inbox(u, to)
  <2>1. Shown(req[r].u, req[r].code) /\ req[r].kind \in CodeKinds
    BY <1>0 DEF MarkVerified, CodeKinds
  <2> QED BY <1>0, <1>1, <2>1, ShownIs DEF Proved
<1>3. SameCodes
  BY CodesJudged
<1>4. UNCHANGED <<others, issued, standing, stale, served>> /\ tokens' = Evicted(u) /\ Wrote(r, u, TRUE)
  BY DEF MarkVerified
<1>5. Grows /\ CodesStep /\ Entering
  BY <1>2, <1>3, <1>4, CodesSame, NoNewcomers DEF Grows
<1>6. user[u] \in Row
  BY <1>1, RowOf, Types
<1> PICK w : w = [user[u] EXCEPT !.verified = IF o.verified THEN user[u].verified ELSE TRUE]
  OBVIOUS
<1>7. /\ w \in Row /\ w.email = user[u].email /\ w.password = user[u].password /\ w.staff = user[u].staff
      /\ user[u].verified => w.verified
  BY <1>1, <1>6 DEF Row
<1>8. user' = [user EXCEPT ![u] = w]
  <2>1. user = [user EXCEPT ![u] = user[u]] /\ user[u] = [user[u] EXCEPT !.verified = user[u].verified]
    BY <1>1, <1>6, Types DEF RowsTyped, Row
  <2>2. CASE o.verified
    BY <2>1, <2>2 DEF MarkVerified
  <2>3. CASE ~o.verified
    BY <1>1, <2>3, Types DEF MarkVerified, RowsTyped
  <2> QED BY <2>2, <2>3
<1>9. /\ user'[u] = w /\ \A v \in Users : v # u => user'[v] = user[v]
      /\ user' \in [Users -> Row \cup {Nobody}]
  BY <1>1, <1>7, <1>8, RowWritten
<1>10. Settled(u)'
  BY <1>2, <1>7, <1>9 DEF Settled, Proved, Inbox
<1>11. RowStep(r, u)
  <2>1. user[u].password = standing[u] \/ u \in stale
    BY <1>1 DEF Sound, OwnerInv, PasswordStands
  <2>2. AllLate(r, u, TRUE)
    BY <1>4, WroteKeeps, Types
  <2> QED BY <1>4, <1>7, <1>9, <1>10, <2>1, <2>2 DEF RowStep, AllLate, Opened, RowKinds
<1>12. RowsTyped'
  BY <1>2, <1>3, <1>4, <1>9, EvictedAre, Types DEF RowsTyped, SameCodes
<1>13. \A t \in tokens' : t \in tokens /\ t.u # u
  BY <1>4, EvictedAre
<1> QED
  BY <1>1, <1>4, <1>5, <1>7, <1>8, <1>11, <1>12, <1>13, RowAnswered

LEMMA ResetPasswordKeeps == ASSUME Sound, NEW r \in Requests, ResetPassword(r) PROVE Sound'
<1> PICK u : u = req[r].u
  OBVIOUS
<1> PICK o : o = req[r].row
  OBVIOUS
<1> PICK to : to = codes[req[r].code].to
  OBVIOUS
<1>0. InFlight(r) /\ req[r].kind = "reset_password"
  BY DEF ResetPassword, Finish, InFlight
<1>1. /\ u \in Users /\ Exists(u) /\ o \in Row /\ CopySound(u, o) /\ req[r].pw \in Passwords
      /\ req[r].code \in DOMAIN codes /\ codes[req[r].code].purpose # "change_email" /\ req[r].seen \in Nat
  BY <1>0, WriterIs DEF Carries, FlightSound, RowKinds, CodeKinds, PwKinds, Flight
<1>2. /\ proved \subseteq proved' /\ proved' \subseteq Users \X Addresses
      /\ Proved(u, to)' /\ Inbox(u, to)
  <2>1. Shown(req[r].u, req[r].code) /\ req[r].kind \in CodeKinds
    BY <1>0 DEF ResetPassword, CodeKinds
  <2> QED BY <1>0, <1>1, <2>1, ShownIs DEF Proved
<1>3. SameCodes
  BY CodesJudged
<1> PICK w : w = [o EXCEPT !.password = req[r].pw, !.verified = TRUE]
  OBVIOUS
<1>4. /\ UNCHANGED <<others, issued, served>> /\ tokens' = Evicted(u) /\ Wrote(r, u, TRUE)
      /\ user' = [user EXCEPT ![u] = w] /\ SetPassword(u, req[r].pw)
      /\ stale \subseteq stale' /\ stale' \subseteq stale \cup {u}
  BY DEF ResetPassword, SaveRow
<1>5. Grows /\ CodesStep /\ Entering
  BY <1>2, <1>3, <1>4, CodesSame, NoNewcomers DEF Grows
<1>6. w \in Row /\ w.email = o.email /\ w.password = req[r].pw /\ w.verified
  BY <1>1 DEF Row
<1>7. /\ user'[u] = w /\ \A v \in Users : v # u => user'[v] = user[v]
      /\ user' \in [Users -> Row \cup {Nobody}]
  BY <1>1, <1>4, <1>6, RowWritten
<1>8. standing'[u] = req[r].pw /\ standing' \in [Users -> Passwords \cup {Unusable, Nobody}]
  BY <1>1, <1>4, PasswordSet
<1>9. Settled(u)' /\ (user'[u].email = user[u].email \/ Settled(u))
  BY <1>1, <1>2, <1>6, <1>7 DEF CopySound, Settled, Proved, Inbox
<1>10. RowStep(r, u)
  <2>1. AllLate(r, u, TRUE)
    BY <1>4, WroteKeeps, Types
  <2> QED BY <1>6, <1>7, <1>8, <1>9, <2>1 DEF RowStep, AllLate, Opened, RowKinds
<1>11. RowsTyped'
  BY <1>1, <1>2, <1>3, <1>4, <1>7, <1>8, EvictedAre, Types DEF RowsTyped, SameCodes
<1>12. \A t \in tokens' : t \in tokens /\ t.u # u
  BY <1>4, EvictedAre
<1> QED
  BY <1>1, <1>4, <1>5, <1>6, <1>10, <1>11, <1>12, RowAnswered

(* After an eviction: a session anew, with the password as it is now.      *)
LEMMA Reissued ==
  ASSUME Sound, NEW u \in issued, issued' = issued, NEW cred \in Passwords \cup {Unusable},
         EvictAndReissue(u, cred), user'[u].password = cred
  PROVE  tokens' \subseteq Token /\ \A t \in tokens' : (t \in tokens /\ t.u # u) \/ TokenStep(t)
<1>1. u \in Users
  BY InsidersAre
<1>2. ASSUME NEW t \in tokens'
      PROVE  t \in Evicted(u) \/ \E scope \in Scopes : t = Session(u, scope, cred)
  BY DEF EvictAndReissue, Scopes
<1>3. ASSUME NEW scope \in Scopes, NEW t, t = Session(u, scope, cred)
      PROVE  t \in Token /\ TokenStep(t)
  BY <1>1, <1>3, SessionIs DEF TokenStep
<1> QED
  BY <1>2, <1>3, EvictedAre

LEMMA SetNewPasswordKeeps == ASSUME Sound, NEW r \in Requests, SetNewPassword(r) PROVE Sound'
<1> PICK u : u = req[r].u
  OBVIOUS
<1> PICK o : o = req[r].row
  OBVIOUS
<1>0. InFlight(r) /\ req[r].kind = "change_password"
  BY DEF SetNewPassword, Finish, InFlight
<1>1. /\ u \in Users /\ Exists(u) /\ o \in Row /\ CopySound(u, o) /\ req[r].pw \in Passwords
      /\ u \in issued /\ (~req[r].late => o = user[u])
  BY <1>0, WriterIs DEF Carries, FlightSound, FlightFresh, RowKinds, PwKinds
<1> PICK w : w = [o EXCEPT !.password = req[r].pw]
  OBVIOUS
<1>2. /\ UNCHANGED <<others, codes, issued, proved, served>> /\ EvictAndReissue(u, req[r].pw)
      /\ Wrote(r, u, TRUE) /\ user' = [user EXCEPT ![u] = w] /\ SetPassword(u, req[r].pw)
      /\ stale' = IF req[r].late THEN stale \cup {u} ELSE stale
  BY DEF SetNewPassword, SaveRow
<1>3. Grows /\ CodesStep /\ Entering
  BY <1>2, CodesSame, NoNewcomers DEF Grows
<1>4. /\ w \in Row /\ w.email = o.email /\ w.password = req[r].pw
      /\ w.verified = o.verified /\ w.staff = o.staff
  BY <1>1 DEF Row
<1>5. /\ user'[u] = w /\ \A v \in Users : v # u => user'[v] = user[v]
      /\ user' \in [Users -> Row \cup {Nobody}]
  BY <1>1, <1>2, <1>4, RowWritten
<1>6. standing'[u] = req[r].pw /\ standing' \in [Users -> Passwords \cup {Unusable, Nobody}]
  BY <1>1, <1>2, PasswordSet
<1>7. Settled(u) /\ Proved(u, o.email) /\ Settled(u)'
  BY <1>1, <1>2, <1>4, <1>5, InsidersAre DEF CopySound, Settled, Proved
<1>8. RowStep(r, u)
  <2>1. AllLate(r, u, TRUE)
    BY <1>2, WroteKeeps, Types
  <2>2. Opened(u) => Opened(u)'
    BY <1>1, <1>2, <1>4, <1>5 DEF Opened
  <2> QED BY <1>4, <1>5, <1>6, <1>7, <2>1, <2>2 DEF RowStep, AllLate, RowKinds
<1>9. tokens' \subseteq Token /\ \A t \in tokens' : (t \in tokens /\ t.u # u) \/ TokenStep(t)
  BY <1>1, <1>2, <1>4, <1>5, Reissued
<1>10. RowsTyped'
  BY <1>1, <1>2, <1>5, <1>6, <1>9, Types DEF RowsTyped
<1> QED
  BY <1>1, <1>2, <1>3, <1>4, <1>8, <1>9, <1>10, RowAnswered

LEMMA SwapEmailKeeps == ASSUME Sound, NEW r \in Requests, SwapEmail(r) PROVE Sound'
<1> PICK u : u = req[r].u
  OBVIOUS
<1> PICK a : a = req[r].addr
  OBVIOUS
<1>0. InFlight(r) /\ req[r].kind = "change_email"
  BY DEF SwapEmail, Finish, InFlight
<1>1. /\ u \in Users /\ Exists(u) /\ u \in issued /\ a \in Addresses
      /\ req[r].code \in DOMAIN codes /\ codes[req[r].code].to = a
  BY <1>0, WriterIs DEF Carries, FlightSound, RowKinds, CodeKinds, AddrKinds
<1>2. SameCodes
  BY CodesJudged
<1>3. UNCHANGED <<others, issued, standing, stale, served>>
  BY DEF SwapEmail
<1>4. CASE Answered(r) /\ UNCHANGED <<user, others, tokens, proved>>
  <2>1. RowsTyped' /\ CodesStep
    BY <1>2, <1>3, <1>4, CodesSame, Types DEF RowsTyped, SameCodes
  <2> QED BY <1>3, <1>4, <2>1, CodesWritten
<1>5. CASE /\ user' = [user EXCEPT ![u].email = a, ![u].verified = TRUE]
           /\ EvictAndReissue(u, user[u].password)
           /\ Shown(u, req[r].code)
           /\ Wrote(r, u, TRUE)
  <2>1. proved \subseteq proved' /\ proved' \subseteq Users \X Addresses /\ <<u, a>> \in proved'
    <3>1. Shown(req[r].u, req[r].code) /\ req[r].kind \in CodeKinds
      BY <1>0, <1>5 DEF CodeKinds
    <3> QED BY <1>0, <1>1, <3>1, ShownIs
  <2>2. Grows /\ CodesStep /\ Entering
    BY <1>2, <1>3, <2>1, CodesSame, NoNewcomers DEF Grows
  <2>3. user[u] \in Row
    BY <1>1, RowOf, Types
  <2> PICK w : w = [user[u] EXCEPT !.email = a, !.verified = TRUE]
    OBVIOUS
  <2>4. /\ w \in Row /\ w.email = a /\ w.password = user[u].password /\ w.verified
        /\ w.password \in Passwords \cup {Unusable}
    BY <1>1, <2>3 DEF Row
  <2>5. user' = [user EXCEPT ![u] = w]
    BY <1>1, <1>5, Types DEF RowsTyped
  <2>6. /\ user'[u] = w /\ \A v \in Users : v # u => user'[v] = user[v]
        /\ user' \in [Users -> Row \cup {Nobody}]
    BY <1>1, <2>4, <2>5, RowWritten
  <2>7. Settled(u) /\ Settled(u)'
    BY <1>1, <2>1, <2>4, <2>6, InsidersAre DEF Settled, Proved
  <2>8. RowStep(r, u)
    <3>1. AllLate(r, u, TRUE)
      BY <1>5, WroteKeeps, Types
    <3>2. user[u].password = standing[u] \/ u \in stale
      BY <1>1 DEF Sound, OwnerInv, PasswordStands
    <3> QED BY <1>3, <2>4, <2>6, <2>7, <3>1, <3>2 DEF RowStep, AllLate, Opened, RowKinds
  <2>9. tokens' \subseteq Token /\ \A t \in tokens' : (t \in tokens /\ t.u # u) \/ TokenStep(t)
    BY <1>1, <1>3, <1>5, <2>4, <2>6, Reissued
  <2>10. RowsTyped'
    BY <1>2, <1>3, <2>1, <2>6, <2>9, Types DEF RowsTyped, SameCodes
  <2> QED BY <1>1, <1>3, <1>5, <2>2, <2>4, <2>5, <2>8, <2>9, <2>10, RowAnswered
<1> QED
  BY <1>4, <1>5 DEF SwapEmail

LEMMA SaveProfileKeeps == ASSUME Sound, NEW r \in Requests, SaveProfile(r) PROVE Sound'
<1> PICK u : u = req[r].u
  OBVIOUS
<1> PICK o : o = req[r].row
  OBVIOUS
<1>0. InFlight(r) /\ req[r].kind = "profile"
  BY DEF SaveProfile, Finish, InFlight
<1>1. u \in Users /\ Exists(u) /\ o \in Row /\ CopySound(u, o) /\ (~req[r].late => o = user[u])
  BY <1>0, WriterIs DEF Carries, FlightSound, FlightFresh, RowKinds
<1>2. /\ UNCHANGED <<others, codes, tokens, issued, proved, standing, served>>
      /\ Wrote(r, u, FALSE) /\ user' = [user EXCEPT ![u] = o]
      /\ stale' = IF req[r].late THEN stale \cup {u} ELSE stale
  BY DEF SaveProfile, SaveRow
<1>3. Grows /\ CodesStep /\ Entering
  BY <1>2, CodesSame, NoNewcomers DEF Grows
<1>4. /\ user'[u] = o /\ \A v \in Users : v # u => user'[v] = user[v]
      /\ user' \in [Users -> Row \cup {Nobody}]
  BY <1>1, <1>2, RowWritten
<1>5. RowStep(r, u)
  <2>1. AllLate(r, u, FALSE)
    BY <1>2, WroteKeeps, Types
  <2>2. u \in stale' \/ o = user[u]
    BY <1>1, <1>2
  <2>3. u \in stale \/ user[u].password = standing[u]
    BY <1>1 DEF Sound, OwnerInv, PasswordStands
  <2>4. user'[u].email = user[u].email \/ (Settled(u) /\ Settled(u)')
    BY <1>1, <1>2, <1>4 DEF CopySound, Settled, Proved
  <2>5. o.verified => Settled(u)'
    BY <1>1, <1>2, <1>4 DEF CopySound, Settled, Proved
  <2> QED BY <1>1, <1>2, <1>4, <2>1, <2>2, <2>3, <2>4, <2>5 DEF RowStep, AllLate, Opened, RowKinds
<1>6. RowsTyped'
  BY <1>1, <1>2, <1>4, Types DEF RowsTyped
<1>7. ASSUME NEW t \in tokens', t.u = u PROVE TokenStep(t)
  BY <1>1, <1>2, <1>3, <1>4, <1>7, TokensStay
<1> QED
  BY <1>1, <1>2, <1>3, <1>5, <1>6, <1>7, RowAnswered

LEMMA GoogleEnterKeeps == ASSUME Sound, NEW r \in Requests, GoogleEnter(r) PROVE Sound'
<1> PICK u : u = req[r].u
  OBVIOUS
<1> PICK o : o = req[r].row
  OBVIOUS
<1> PICK drop \in BOOLEAN : drop = (~o.verified /\ o.password # Unusable)
  OBVIOUS
<1>0. InFlight(r) /\ req[r].kind = "google"
  BY DEF GoogleEnter, Finish, InFlight
<1>1. u \in Users /\ Exists(u) /\ o \in Row /\ Inbox(u, req[r].addr) /\ req[r].addr \in Addresses
  BY <1>0, WriterIs DEF Carries, FlightSound, RowKinds, AddrKinds
<1>2. user[u] \in Row
  BY <1>1, RowOf, Types
<1> PICK w : w = [user[u] EXCEPT !.verified = TRUE, !.password = IF drop THEN Unusable ELSE @]
  OBVIOUS
<1>3. /\ w \in Row /\ w.email = user[u].email /\ w.verified
      /\ w.password = (IF drop THEN Unusable ELSE user[u].password)
      /\ w.password \in Passwords \cup {Unusable}
  BY <1>2 DEF Row
<1>4. /\ UNCHANGED <<others, codes, stale, served>>
      /\ user' = [user EXCEPT ![u].verified = TRUE, ![u].password = IF drop THEN Unusable ELSE @]
      /\ IF drop THEN SetPassword(u, Unusable) ELSE UNCHANGED standing
      /\ tokens' = (IF drop THEN Evicted(u) ELSE tokens) \cup {Session(u, "customer", user'[u].password)}
      /\ issued' = issued \cup {u}
      /\ proved' = proved \cup {<<u, req[r].addr>>}
      /\ Wrote(r, u, drop)
  BY DEF GoogleEnter
<1>5. user' = [user EXCEPT ![u] = w]
  BY <1>1, <1>2, <1>4, Types DEF RowsTyped
<1>6. /\ user'[u] = w /\ \A v \in Users : v # u => user'[v] = user[v]
      /\ user' \in [Users -> Row \cup {Nobody}] /\ Exists(u)'
  BY <1>1, <1>3, <1>5, RowWritten
<1>7. Grows /\ CodesStep
  BY <1>4, CodesSame DEF Grows
<1>8. Settled(u)'
  BY <1>1, <1>3, <1>4, <1>6 DEF Settled, Proved, Inbox
<1>9. /\ standing' \in [Users -> Passwords \cup {Unusable, Nobody}]
      /\ u \in stale' \/ standing'[u] = w.password
  <2>1. CASE drop
    BY <1>1, <1>3, <1>4, <2>1, PasswordSet
  <2>2. CASE ~drop
    BY <1>1, <1>3, <1>4, <2>2, Types DEF Sound, OwnerInv, PasswordStands, RowsTyped
  <2> QED BY <2>1, <2>2
<1>10. RowStep(r, u)
  <2>1. AllLate(r, u, drop)
    BY <1>4, WroteKeeps, Types
  <2> QED BY <1>3, <1>6, <1>8, <1>9, <2>1 DEF RowStep, AllLate, Opened, RowKinds
<1>11. Entering
  BY <1>3, <1>4, <1>6, <1>8 DEF Entering, Opened
<1> PICK s : s = Session(u, "customer", w.password)
  OBVIOUS
<1>12. s \in Token /\ TokenStep(s) /\ tokens' = (IF drop THEN Evicted(u) ELSE tokens) \cup {s}
  <2>1. s \in Token /\ s.u = u /\ s.cred = w.password
    BY <1>1, <1>3, SessionIs DEF Scopes
  <2>2. u \in issued' /\ user'[u].password = w.password
    BY <1>4, <1>6
  <2> QED BY <1>4, <1>6, <2>1, <2>2 DEF TokenStep
<1>13. RowsTyped'
  <2>1. tokens' \subseteq Token
    BY <1>12, EvictedAre, Types DEF RowsTyped
  <2>2. issued' \subseteq Users /\ proved' \subseteq Users \X Addresses
    BY <1>1, <1>4, Types DEF RowsTyped
  <2> QED BY <1>4, <1>6, <1>9, <2>1, <2>2, Types DEF RowsTyped
<1>14. ASSUME NEW t \in tokens' PROVE (t \in tokens /\ t.u # u) \/ TokenStep(t)
  <2>1. CASE drop
    BY <1>4, <1>12, <2>1, EvictedAre
  <2>2. CASE ~drop
    <3>1. w.password = user[u].password /\ (t \in tokens \/ t = s)
      BY <1>3, <1>12, <2>2
    <3>2. t \in tokens /\ t.u = u => TokenStep(t)
      BY <1>6, <1>7, <3>1, TokensStay
    <3> QED BY <1>12, <3>1, <3>2
  <2> QED BY <2>1, <2>2
<1>15. standing' = standing \/ \E p : SetPassword(u, p)
  BY <1>4
<1>16. w \in Row /\ Wrote(r, u, drop) /\ Grows /\ CodesStep
  BY <1>3, <1>4, <1>7
<1> QED
  BY <1>1, <1>5, <1>10, <1>11, <1>13, <1>14, <1>15, <1>16, RowAnswered

LEMMA GoogleCreateKeeps == ASSUME Sound, NEW r \in Requests, GoogleCreate(r) PROVE Sound'
<1> PICK u : u = req[r].u
  OBVIOUS
<1> PICK a : a = req[r].addr
  OBVIOUS
<1>0. InFlight(r) /\ req[r].kind = "google_create"
  BY DEF GoogleCreate, Finish, InFlight
<1>1. u \in Users /\ a \in Addresses
  BY <1>0, WriterIs DEF Carries, AddrKinds
<1>2. UNCHANGED <<others, codes, stale, served>> /\ Answered(r)
  BY DEF GoogleCreate
<1>3. CASE UNCHANGED <<user, others, standing, tokens, issued, proved>>
  <2>1. RowsTyped' /\ CodesStep
    BY <1>2, <1>3, CodesSame, Types DEF RowsTyped
  <2> QED BY <1>2, <1>3, <2>1, CodesWritten
<1>4. CASE /\ ~Exists(u)
           /\ user' = [user EXCEPT ![u] = NewAccount(a, TRUE, Unusable)]
           /\ SetPassword(u, Unusable)
           /\ tokens' = tokens \cup {Session(u, "customer", Unusable)}
           /\ issued' = issued \cup {u}
           /\ proved' = proved \cup {<<u, a>>}
  <2> PICK w : w = NewAccount(a, TRUE, Unusable)
    OBVIOUS
  <2>1. w \in Row /\ w.email = a /\ w.verified /\ w.password = Unusable
    BY <1>1 DEF NewAccount, Row
  <2>2. /\ user'[u] = w /\ \A v \in Users : v # u => user'[v] = user[v]
        /\ user' \in [Users -> Row \cup {Nobody}] /\ Exists(u)'
    BY <1>1, <1>4, <2>1, RowWritten
  <2>3. standing'[u] = Unusable /\ standing' \in [Users -> Passwords \cup {Unusable, Nobody}]
    BY <1>1, <1>4, PasswordSet
  <2>4. Grows /\ CodesStep
    BY <1>2, <1>4, CodesSame DEF Grows
  <2>5. Settled(u)'
    <3>1. <<u, a>> \in proved'
      BY <1>4
    <3> QED BY <2>1, <2>2, <3>1 DEF Settled, Proved
  <2>6. Entering
    BY <1>4, <2>1, <2>2, <2>5 DEF Entering, Opened
  <2>7. OthersKept(r) /\ Joining(r)
    BY <1>2, Types, AnsweredKeeps, Gone
  <2>8. ASSUME NEW q \in Requests, q # r, InFlight(q), req[q].u = u
        PROVE  req[q].kind \notin RowKinds /\ req[q].kind # "refresh"
    BY <1>4, <2>8, WriterIs DEF Carries, RowKinds
  <2>9. RowsStep(r)
    <3>1. RowStep(r, u)
      BY <1>4, <2>1, <2>2, <2>3, <2>5, <2>8 DEF RowStep
    <3> QED BY <1>1, <1>4, <2>2, <3>1, RowStepped
  <2> PICK s : s = Session(u, "customer", Unusable)
    OBVIOUS
  <2>10. s \in Token /\ TokenStep(s) /\ tokens' = tokens \cup {s}
    <3>1. s \in Token /\ s.u = u /\ s.cred = Unusable
      BY <1>1, SessionIs DEF Scopes
    <3>2. u \in issued' /\ user'[u].password = Unusable
      BY <1>4, <2>1, <2>2
    <3> QED BY <1>4, <3>1, <3>2 DEF TokenStep
  <2>11. RowsTyped'
    <3>1. issued' \subseteq Users /\ proved' \subseteq Users \X Addresses
      BY <1>1, <1>4, Types DEF RowsTyped
    <3> QED BY <1>2, <2>2, <2>3, <2>10, <3>1, Types DEF RowsTyped
  <2>12. ASSUME NEW t \in tokens PROVE TokenStep(t)
    <3>1. t.u \in issued
      BY DEF Sound, AddressInv
    <3>2. t.u # u /\ t.u \in Users
      BY <1>4, <3>1, InsidersAre
    <3> QED BY <2>2, <2>4, <3>2, TokensStay
  <2>13. \A t \in tokens' : TokenStep(t)
    BY <1>4, <2>10, <2>12
  <2> QED BY <2>4, <2>6, <2>7, <2>9, <2>11, <2>13, StepKeeps
<1> QED
  BY <1>2, <1>3, <1>4 DEF GoogleCreate

LEMMA RotateKeeps == ASSUME Sound, NEW r \in Requests, Rotate(r) PROVE Sound'
<1> PICK o : o = req[r].token
  OBVIOUS
<1>0. InFlight(r) /\ req[r].kind = "refresh"
  BY DEF Rotate, Finish, InFlight
<1>1. /\ o \in Token /\ o.u = req[r].u /\ req[r].u \in issued /\ req[r].late \in BOOLEAN
      /\ o.late \/ req[r].late \/ o.u \in stale \/ o.cred = user[o.u].password
  BY <1>0, WriterIs DEF Carries, FlightSound, FlightFresh
<1> PICK t : t = [o EXCEPT !.late = @ \/ req[r].late]
  OBVIOUS
<1>2. t \in Token /\ t.u = o.u /\ t.cred = o.cred /\ (t.late <=> (o.late \/ req[r].late))
  BY <1>1 DEF Token
<1>3. /\ UNCHANGED <<user, others, codes, issued, proved, standing, stale, served>>
      /\ tokens' = (tokens \ {o}) \cup {t} /\ Answered(r)
  BY DEF Rotate
<1>4. OthersKept(r) /\ Joining(r)
  BY <1>3, Types, AnsweredKeeps, Gone
<1>5. RowsStep(r) /\ Grows /\ CodesStep /\ Entering
  BY <1>3, RowsSame, CodesSame, NoNewcomers DEF Grows
<1>6. RowsTyped'
  BY <1>2, <1>3, Types DEF RowsTyped
<1>7. TokenStep(t)
  BY <1>1, <1>2, <1>3 DEF TokenStep
<1>8. \A x \in tokens : TokenStep(x)
  BY <1>3, <1>5, TokensStay
<1> QED
  BY <1>3, <1>4, <1>5, <1>6, <1>7, <1>8, StepKeeps

(***************************************************************************)
(* The steps that are no request's: r stands for none of them.             *)
(***************************************************************************)
LEMMA EnteredKeeps ==
  ASSUME Sound, NEW u \in Users, Exists(u), NEW p, Entered(u, p), NEW scope \in Scopes,
         \/ UNCHANGED <<tokens, issued>>
         \/ SignedIn(u, scope) /\ user[u].verified
  PROVE  Sound'
<1> PICK r : r \notin Requests
  BY NoSetContainsEverything
<1>1. user[u] \in Row
  BY RowOf, Types
<1> PICK w : w = [user[u] EXCEPT !.entered = TRUE]
  OBVIOUS
<1>2. /\ w \in Row /\ w.email = user[u].email /\ w.verified = user[u].verified
      /\ w.staff = user[u].staff /\ w.password = user[u].password
  BY <1>1 DEF Row
<1>3. /\ UNCHANGED <<others, codes, proved, standing, stale>> /\ served' \in 0..MaxServed
      /\ user' = [user EXCEPT ![u] = w] /\ req' = Overtaken(u, FALSE)
  BY Types, LimitsAssumption DEF Entered, Serve, RowsTyped
<1>4. /\ user'[u] = w /\ \A v \in Users : v # u => user'[v] = user[v]
      /\ user' \in [Users -> Row \cup {Nobody}] /\ Exists(u)'
  BY <1>2, <1>3, RowWritten
<1>5. OthersKept(r) /\ AllLate(r, u, FALSE)
  <2>1. DOMAIN Overtaken(u, FALSE) = Requests
    BY DEF Overtaken
  <2> QED BY <1>3, <2>1, OvertakenLate, Types
<1>6. issued \subseteq issued' /\ issued' \subseteq issued \cup {u}
  BY DEF SignedIn
<1>7. Grows /\ CodesStep
  BY <1>3, <1>6, CodesSame DEF Grows
<1>8. Settled(u) => Settled(u)'
  BY <1>2, <1>3, <1>4 DEF Settled, Proved
<1>9. user[u].verified => Settled(u)
  BY DEF Sound, AddressInv
<1>10. RowsStep(r)
  <2>1. user[u].password = standing[u] \/ u \in stale
    BY DEF Sound, OwnerInv, PasswordStands
  <2>2. RowStep(r, u)
    BY <1>2, <1>3, <1>4, <1>5, <1>8, <1>9, <2>1 DEF RowStep, AllLate, Opened, RowKinds
  <2> QED BY <1>3, <1>4, <2>2, RowStepped
<1>11. Entering
  <2>1. issued' = issued \/ (Settled(u)' /\ Opened(u)')
    BY <1>2, <1>4, <1>8, <1>9 DEF Opened
  <2> QED BY <1>4, <1>6, <2>1 DEF Entering
<1>12. tokens' \subseteq Token /\ \A t \in tokens' : t \in tokens \/ TokenStep(t)
  <2>1. CASE tokens' = tokens
    BY <2>1, Types DEF RowsTyped
  <2>2. CASE SignedIn(u, scope)
    <3> PICK s : s = Session(u, scope, user[u].password)
      OBVIOUS
    <3>1. user[u].password \in Passwords \cup {Unusable}
      BY <1>1 DEF Row
    <3>2. s \in Token /\ s.u = u /\ s.cred = user[u].password
      BY <3>1, SessionIs
    <3>3. tokens' = tokens \cup {s} /\ u \in issued'
      BY <2>2 DEF SignedIn
    <3>4. TokenStep(s)
      BY <1>2, <1>4, <3>2, <3>3 DEF TokenStep
    <3> QED BY <3>2, <3>3, <3>4, Types DEF RowsTyped
  <2> QED BY <2>1, <2>2
<1>13. RowsTyped'
  BY <1>3, <1>4, <1>6, <1>12, Types DEF RowsTyped
<1>14. ASSUME NEW t \in tokens PROVE TokenStep(t)
  <2>1. t.u \in Users
    BY Types DEF RowsTyped, Token
  <2>2. user'[t.u].password = user[t.u].password
    BY <1>2, <1>4, <2>1
  <2> QED BY <1>7, <2>2, TokensStay
<1> QED
  BY <1>5, <1>7, <1>10, <1>11, <1>12, <1>13, <1>14, StepKeeps DEF Joining

LEMMA LoginKeeps ==
  ASSUME Sound, NEW a \in Addresses, NEW p, Login(a, p) \/ AdminLogin(a, p)
  PROVE  Sound'
<1>1. PICK u \in Owners(a) :
        /\ Entered(u, p)
        /\ \/ UNCHANGED <<tokens, issued>>
           \/ SignedIn(u, "customer") /\ user[u].verified
           \/ SignedIn(u, "admin") /\ user[u].verified
  BY DEF Login, AdminLogin
<1>2. u \in Users /\ Exists(u) /\ "customer" \in Scopes /\ "admin" \in Scopes
  BY OwnersExist DEF Scopes
<1>3. CASE UNCHANGED <<tokens, issued>>
  BY <1>1, <1>2, <1>3, EnteredKeeps
<1>4. CASE SignedIn(u, "customer") /\ user[u].verified
  BY <1>1, <1>2, <1>4, EnteredKeeps
<1>5. CASE SignedIn(u, "admin") /\ user[u].verified
  BY <1>1, <1>2, <1>5, EnteredKeeps
<1> QED
  BY <1>1, <1>3, <1>4, <1>5

(* No row of an account is written.                                        *)
LEMMA RowsStand ==
  ASSUME Sound, UNCHANGED <<user, standing, stale, req>>, RowsTyped', Grows, CodesStep, Entering,
         \A t \in tokens' : t \in tokens \/ TokenStep(t)
  PROVE  Sound'
<1> PICK r : r \notin Requests
  BY NoSetContainsEverything
<1>1. OthersKept(r) /\ RowsStep(r) /\ Joining(r)
  BY RowsSame, Types DEF OthersKept, Kept, Joining
<1>2. \A t \in tokens : TokenStep(t)
  BY TokensStay
<1> QED
  BY <1>1, <1>2, StepKeeps

LEMMA AdminGoogleLoginKeeps == ASSUME Sound, NEW a \in Addresses, AdminGoogleLogin(a) PROVE Sound'
<1>1. PICK u \in Owners(a) : /\ IsStaff(u) /\ Serve /\ SignedIn(u, "admin")
                             /\ proved' = proved \cup {<<u, a>>}
                             /\ UNCHANGED <<user, others, codes, req, standing, stale>>
  BY DEF AdminGoogleLogin
<1>2. u \in Users /\ Exists(u) /\ user[u].email = a
  BY OwnersExist
<1> PICK s : s = Session(u, "admin", user[u].password)
  OBVIOUS
<1>3. tokens' = tokens \cup {s} /\ issued' = issued \cup {u}
  BY <1>1 DEF SignedIn
<1>4. Grows /\ CodesStep
  BY <1>1, <1>3, CodesSame DEF Grows
<1>5. Settled(u)' /\ Opened(u)' /\ Exists(u)'
  <2>1. <<u, a>> \in proved'
    BY <1>1
  <2> QED BY <1>1, <1>2, <2>1 DEF Settled, Proved, Opened, IsStaff, Exists
<1>6. Entering
  BY <1>3, <1>5 DEF Entering
<1>7. s \in Token /\ TokenStep(s)
  <2>1. user[u].password \in Passwords \cup {Unusable}
    BY <1>2, RowOf, Types DEF Row
  <2>2. s \in Token /\ s.u = u /\ s.cred = user[u].password
    BY <1>2, <2>1, SessionIs DEF Scopes
  <2> QED BY <1>1, <1>3, <2>2 DEF TokenStep
<1>8. RowsTyped'
  <2>1. issued' \subseteq Users /\ proved' \subseteq Users \X Addresses /\ tokens' \subseteq Token
    BY <1>1, <1>2, <1>3, <1>7, Types DEF RowsTyped
  <2>2. served' \in 0..MaxServed
    BY <1>1, LimitsAssumption, Types DEF Serve, RowsTyped
  <2> QED BY <1>1, <2>1, <2>2, Types DEF RowsTyped
<1> QED
  BY <1>1, <1>3, <1>4, <1>6, <1>7, <1>8, RowsStand

LEMMA OutsideKeeps ==
  ASSUME Sound, \/ \E a \in Addresses : OtherAccount(a)
                \/ \E t \in tokens : Logout(t) \/ AdminLogout(t)
  PROVE  Sound'
<1>1. /\ UNCHANGED <<user, codes, issued, req, served, proved, standing, stale>>
      /\ tokens' \subseteq tokens
      /\ others' = others \/ \E a \in Addresses : others' = others \cup {a}
  BY DEF OtherAccount, Logout, AdminLogout, Blacklisted
<1>2. Grows /\ CodesStep /\ Entering
  BY <1>1, CodesSame, NoNewcomers DEF Grows
<1>3. RowsTyped'
  BY <1>1, Types DEF RowsTyped
<1> QED
  BY <1>1, <1>2, <1>3, RowsStand

LEMMA AgesAre ==
  ASSUME codes \in Seq(Code), NEW from, NEW to \in {"expired", "old"}, Ages(from, to), from # "old"
  PROVE  /\ codes' \in Seq(Code) /\ DOMAIN codes' = DOMAIN codes
         /\ \A i \in DOMAIN codes : SameCode(i) /\ (codes[i].age = "old" => codes'[i].age = "old")
<1>1. Len(codes) \in Nat /\ DOMAIN codes = 1..Len(codes)
  BY CodesAre
<1>2. codes' = [i \in DOMAIN codes |->
                  IF codes[i].age = from THEN [codes[i] EXCEPT !.age = to] ELSE codes[i]]
  BY DEF Ages
<1>3. ASSUME NEW i \in DOMAIN codes
      PROVE  codes'[i] \in Code /\ SameCode(i) /\ (codes[i].age = "old" => codes'[i].age = "old")
  <2>1. codes[i] \in Code
    BY CodesAre
  <2>2. CASE codes[i].age = from
    <3>1. codes'[i] = [codes[i] EXCEPT !.age = to]
      BY <1>2, <2>2
    <3> QED BY <2>1, <2>2, <3>1 DEF Code, SameCode
  <2>3. CASE codes[i].age # from
    BY <1>2, <2>1, <2>3 DEF SameCode
  <2> QED BY <2>2, <2>3
<1>4. DOMAIN codes' = 1..Len(codes) /\ codes' = [i \in 1..Len(codes) |-> codes'[i]]
  BY <1>1, <1>2
<1>5. codes' \in Seq(Code)
  BY <1>1, <1>3, <1>4, IsASeq
<1> QED
  BY <1>1, <1>3, <1>4, <1>5

LEMMA TimeKeeps == ASSUME Sound, CodesExpire \/ DayPasses PROVE Sound'
<1>1. /\ codes' \in Seq(Code) /\ DOMAIN codes' = DOMAIN codes /\ \A i \in DOMAIN codes : SameCode(i)
  BY AgesAre, Types DEF CodesExpire, DayPasses, RowsTyped
<1>2. UNCHANGED <<user, others, tokens, issued, req, served, proved, standing, stale>>
  BY DEF CodesExpire, DayPasses, Ages
<1>3. Grows /\ CodesStep /\ Entering
  BY <1>1, <1>2, NoNewcomers DEF Grows, CodesStep
<1>4. RowsTyped'
  BY <1>1, <1>2, Types DEF RowsTyped
<1> QED
  BY <1>2, <1>3, <1>4, RowsStand

LEMMA NextKeeps == ASSUME Sound, [Next]_vars PROVE Sound'
<1>1. CASE UNCHANGED vars
  <2>1. Typed' /\ OwnerInv'
    BY <1>1 DEF vars, Sound, Typed, TypeOK, Flights, Carries, InFlight, Exists, OwnerInv, PasswordStands,
         EvictedStaysOut, Opened, FlightFresh
  <2>2. AddressInv'
    BY <1>1 DEF vars, Sound, AddressInv, Exists, Settled, Proved, CodeSound, Inbox, FlightSound, CopySound,
         InFlight
  <2> QED BY <2>1, <2>2 DEF Sound
<1>2. ASSUME NEW r \in Requests, Arrive(r) PROVE Sound'
  BY <1>2, ArriveJoins, BeginKeeps DEF Sound
<1>3. ASSUME NEW r \in Requests, Write(r) PROVE Sound'
  BY <1>3, CreateKeeps, OverwriteKeeps, CountFailureKeeps, MarkVerifiedKeeps, GrantResetKeeps,
     CreateEmailOtpKeeps, ResetPasswordKeeps, SetNewPasswordKeeps, SwapEmailKeeps, SaveProfileKeeps,
     GoogleEnterKeeps, GoogleCreateKeeps, RotateKeeps DEF Write
<1>4. ASSUME NEW a \in Addresses, NEW p \in Passwords, Login(a, p) \/ AdminLogin(a, p) PROVE Sound'
  BY <1>4, LoginKeeps
<1>5. ASSUME NEW a \in Addresses, AdminGoogleLogin(a) \/ OtherAccount(a) PROVE Sound'
  BY <1>5, AdminGoogleLoginKeeps, OutsideKeeps
<1>6. ASSUME NEW t \in tokens, Logout(t) \/ AdminLogout(t) PROVE Sound'
  BY <1>6, OutsideKeeps
<1>7. ASSUME CodesExpire \/ DayPasses PROVE Sound'
  BY <1>7, TimeKeeps
<1> QED
  BY <1>1, <1>2, <1>3, <1>4, <1>5, <1>6, <1>7 DEF Next

LEMMA InitSound == Init => Sound
<1> SUFFICES ASSUME Init PROVE Sound
  OBVIOUS
<1>1. /\ user \in [Users -> Row \cup {Nobody}] /\ others = {} /\ codes = <<>> /\ tokens = {} /\ issued = {}
      /\ req = [r \in Requests |-> Idle] /\ served = 0 /\ stale = {}
      /\ proved = {<<u, user[u].email>> : u \in {v \in Users : user[v] # Nobody /\ user[v].verified}}
      /\ standing = [u \in Users |-> IF user[u] = Nobody THEN Nobody ELSE user[u].password]
  BY DEF Init
<1>2. \A r \in Requests : ~InFlight(r)
  BY <1>1 DEF InFlight
<1>3. Typed
  <2>1. codes \in Seq(Code)
    BY <1>1, EmptySeq
  <2>2. ASSUME NEW u \in Users, user[u] # Nobody
        PROVE  user[u].email \in Addresses /\ user[u].password \in Passwords \cup {Unusable}
    BY <1>1, <2>2 DEF Row
  <2>3. proved \subseteq Users \X Addresses
    BY <1>1, <2>2
  <2>4. standing \in [Users -> Passwords \cup {Unusable, Nobody}]
    BY <1>1, <2>2
  <2>5. Flights
    BY <1>1, <1>2 DEF Flights
  <2> QED BY <1>1, <2>1, <2>3, <2>4, <2>5, LimitsAssumption DEF Typed, TypeOK
<1>4. AddressInv
  <2>1. DOMAIN codes = {}
    BY <1>1
  <2>2. ASSUME NEW u \in Users, Exists(u), user[u].verified PROVE Settled(u)
    BY <1>1, <2>2 DEF Exists, Settled, Proved
  <2> QED BY <1>1, <1>2, <2>1, <2>2 DEF AddressInv
<1>5. OwnerInv
  BY <1>1, <1>2 DEF OwnerInv, PasswordStands, EvictedStaysOut, Exists
<1> QED
  BY <1>3, <1>4, <1>5 DEF Sound

LEMMA AlwaysSound == Spec => []Sound
BY InitSound, NextKeeps, PTL DEF Spec

(***************************************************************************)
(* A step of a request in flight, by what becomes of it.                   *)
(***************************************************************************)
Answers(r) == \/ CountFailure(r) \/ MarkVerified(r) \/ GrantReset(r) \/ (\E p \in Purposes : CreateEmailOtp(r, p))
              \/ ResetPassword(r) \/ SetNewPassword(r) \/ SwapEmail(r) \/ SaveProfile(r)
              \/ GoogleEnter(r) \/ GoogleCreate(r) \/ Rotate(r)

LEMMA WriteIs ==
  ASSUME NEW r, Write(r)
  PROVE  Create(r) \/ Overwrite(r) \/ Answers(r)
BY DEF Write, Answers

LEMMA AnswersEnd ==
  ASSUME Sound, NEW r \in Requests, Answers(r)
  PROVE  OthersKept(r) /\ InFlight(r) /\ ~InFlight(r)'
<1>1. InFlight(r)
  BY DEF Answers, CountFailure, MarkVerified, GrantReset, CreateEmailOtp, ResetPassword, SetNewPassword,
     SwapEmail, SaveProfile, GoogleEnter, GoogleCreate, Rotate, Finish, InFlight
<1>2. Answered(r) \/ \E u : \E evicts \in BOOLEAN : Wrote(r, u, evicts)
  <2>1. CASE CountFailure(r) \/ GrantReset(r) \/ (\E p \in Purposes : CreateEmailOtp(r, p))
             \/ GoogleCreate(r) \/ Rotate(r)
    BY <2>1 DEF CountFailure, GrantReset, CreateEmailOtp, GoogleCreate, Rotate
  <2>2. CASE MarkVerified(r) \/ ResetPassword(r) \/ SetNewPassword(r) \/ SaveProfile(r)
    BY <2>2 DEF MarkVerified, ResetPassword, SetNewPassword, SaveProfile
  <2>3. CASE SwapEmail(r)
    BY <2>3 DEF SwapEmail
  <2>4. CASE GoogleEnter(r)
    BY <2>4 DEF GoogleEnter
  <2> QED BY <2>1, <2>2, <2>3, <2>4 DEF Answers
<1> QED
  BY <1>1, <1>2, AnsweredKeeps, WroteKeeps, Types

-----------------------------------------------------------------------------
(***************************************************************************)
(* Whose password changes.                                                 *)
(***************************************************************************)
Rewrites(u) == Exists(u) /\ user[u].verified /\ user'[u].password # user[u].password

ByOwnerOrLate == \E r \in Requests :
  /\ req[r] # Idle /\ req'[r] # req[r]
  /\ req[r].kind \in {"change_password", "reset_password"} \/ req[r].late

LEMMA AnswersRewrite ==
  ASSUME Sound, NEW r \in Requests, Answers(r), NEW u \in Users, Rewrites(u)
  PROVE  ByOwnerOrLate
<1>1. InFlight(r) /\ req'[r] # req[r]
  BY AnswersEnd DEF InFlight
<1>2. user[u] \in Row
  BY RowOf, Types DEF Rewrites
<1>3. CASE SetNewPassword(r) \/ ResetPassword(r)
  BY <1>1, <1>3 DEF SetNewPassword, ResetPassword, Finish, InFlight, ByOwnerOrLate
<1>4. CASE SaveProfile(r) \/ GoogleEnter(r)
  <2> PICK o : o = req[r].row
    OBVIOUS
  <2>1. req[r].late \/ o = user[req[r].u]
    BY <1>1, <1>4, WriterIs DEF SaveProfile, GoogleEnter, Finish, FlightFresh, RowKinds
  <2>2. req[r].u \in Users
    BY <1>1, WriterIs
  <2>3. req[r].late
    <3>1. CASE SaveProfile(r)
      BY <2>1, <2>2, <3>1, Types DEF SaveProfile, SaveRow, Rewrites, RowsTyped
    <3>2. CASE GoogleEnter(r) /\ u # req[r].u
      BY <3>2, Types DEF GoogleEnter, Rewrites, RowsTyped
    <3>3. CASE GoogleEnter(r) /\ u = req[r].u /\ ~req[r].late
      <4>1. o.verified
        BY <2>1, <3>3 DEF Rewrites
      <4>2. user' = [user EXCEPT ![u].verified = TRUE, ![u].password = @]
        BY <3>3, <4>1 DEF GoogleEnter
      <4> QED BY <1>2, <4>2, Types DEF Rewrites, RowsTyped, Row
    <3> QED BY <1>4, <3>1, <3>2, <3>3
  <2> QED BY <1>1, <2>3 DEF ByOwnerOrLate, InFlight
<1>5. CASE MarkVerified(r)
  <2>1. user' = user \/ user' = [user EXCEPT ![req[r].u].verified = TRUE]
    BY <1>5 DEF MarkVerified
  <2>2. user'[u].password = user[u].password
    BY <1>2, <2>1, Types DEF RowsTyped, Row
  <2> QED BY <2>2 DEF Rewrites
<1>6. CASE SwapEmail(r)
  <2>1. user' = user \/ user' = [user EXCEPT ![req[r].u].email = req[r].addr, ![req[r].u].verified = TRUE]
    BY <1>6 DEF SwapEmail
  <2>2. user'[u].password = user[u].password
    BY <1>2, <2>1, Types DEF RowsTyped, Row
  <2> QED BY <2>2 DEF Rewrites
<1>7. CASE GoogleCreate(r)
  <2>1. user' = user \/ (~Exists(req[r].u) /\ user' = [user EXCEPT ![req[r].u] = NewAccount(req[r].addr, TRUE, Unusable)])
    BY <1>7 DEF GoogleCreate
  <2> QED BY <2>1, Types DEF Rewrites, RowsTyped
<1>8. CASE CountFailure(r) \/ GrantReset(r) \/ (\E p \in Purposes : CreateEmailOtp(r, p)) \/ Rotate(r)
  BY <1>8 DEF CountFailure, GrantReset, CreateEmailOtp, Rotate, Rewrites
<1> QED
  BY <1>3, <1>4, <1>5, <1>6, <1>7, <1>8 DEF Answers

LEMMA OverwriteRewrites ==
  ASSUME Sound, NEW r \in Requests, Overwrite(r), NEW u \in Users, Rewrites(u)
  PROVE  ByOwnerOrLate
<1>1. InFlight(r) /\ req[r].kind = "overwrite"
  BY DEF Overwrite, Finish, InFlight
<1>2. /\ req[r].u \in Users /\ req[r] \in Flight /\ ~req[r].row.verified
      /\ ~req[r].late => req[r].row = user[req[r].u]
  BY <1>1, WriterIs DEF FlightFresh, RowKinds
<1>3. u = req[r].u
  BY <1>2, Types DEF Overwrite, SaveRow, Rewrites, RowsTyped
<1>4. req[r].late
  BY <1>2, <1>3 DEF Rewrites
<1>5. req'[r] # req[r]
  <2> PICK f : f = [req[r] EXCEPT !.kind = "send_verify", !.addr = req[r].row.email]
    OBVIOUS
  <2>1. f.kind = "send_verify" /\ (req'[r] = f \/ req'[r] = Idle)
    BY <1>2, OverwriteRequests DEF Flight
  <2> QED BY <1>1, <2>1 DEF InFlight
<1> QED
  BY <1>1, <1>4, <1>5 DEF ByOwnerOrLate, InFlight

LEMMA NextRewrites ==
  ASSUME Sound, Next, NEW u \in Users, Rewrites(u)
  PROVE  ByOwnerOrLate
<1>1. user[u] \in Row
  BY RowOf, Types DEF Rewrites
<1>2. ASSUME NEW r \in Requests, Arrive(r) PROVE ByOwnerOrLate
  <2>1. Joins(r)
    BY <1>2, ArriveJoins DEF Sound
  <2> QED BY <2>1 DEF Joins, Begin, Rewrites
<1>3. ASSUME NEW r \in Requests, Write(r) PROVE ByOwnerOrLate
  <2>1. CASE Create(r)
    <3>1. user' = user \/ (~Exists(req[r].u) /\ user' = [user EXCEPT ![req[r].u] = NewAccount(req[r].addr, FALSE, req[r].pw)])
      BY <2>1 DEF Create
    <3> QED BY <3>1, Types DEF Rewrites, RowsTyped
  <2> QED BY <1>3, <2>1, WriteIs, OverwriteRewrites, AnswersRewrite
<1>4. ASSUME NEW a \in Addresses, NEW p \in Passwords, Login(a, p) \/ AdminLogin(a, p) PROVE ByOwnerOrLate
  <2>1. PICK v \in Owners(a) : user' = [user EXCEPT ![v].entered = TRUE]
    BY <1>4 DEF Login, AdminLogin, Entered
  <2>2. user'[u].password = user[u].password
    BY <1>1, <2>1, Types DEF RowsTyped, Row
  <2> QED BY <2>2 DEF Rewrites
<1>5. ASSUME \/ \E a \in Addresses : AdminGoogleLogin(a) \/ OtherAccount(a)
             \/ \E t \in tokens : Logout(t) \/ AdminLogout(t)
             \/ CodesExpire \/ DayPasses
      PROVE  ByOwnerOrLate
  BY <1>5 DEF AdminGoogleLogin, OtherAccount, Logout, AdminLogout, Blacklisted, CodesExpire, DayPasses, Ages,
     Rewrites
<1> QED
  BY <1>2, <1>3, <1>4, <1>5 DEF Next

-----------------------------------------------------------------------------
(***************************************************************************)
(* Layer 4.  The quota of codes.                                           *)
(***************************************************************************)
LEMMA CodesOfDay ==
  ASSUME codes \in Seq(Code), NEW u, NEW p
  PROVE  IsFiniteSet(Today(u, p)) /\ Cardinality(Today(u, p)) \in Nat
<1>1. Today(u, p) \subseteq 1..Len(codes) /\ Len(codes) \in Nat
  BY CodesAre DEF Today
<1>2. IsFiniteSet(1..Len(codes))
  BY <1>1, FS_Interval
<1> QED
  BY <1>1, <1>2, FS_Subset, FS_CardinalityType

LEMMA SendersAre ==
  ASSUME NEW u, NEW p
  PROVE  /\ IsFiniteSet(Sending(u, p)) /\ Cardinality(Sending(u, p)) \in Nat
         /\ Cardinality(Sending(u, p)) <= Cardinality(Requests)
         /\ Cardinality(Requests) \in Nat
<1>1. Sending(u, p) \subseteq Requests
  BY DEF Sending
<1> QED
  BY <1>1, LimitsAssumption, FS_Subset, FS_CardinalityType

(* Where a request begins to send, a code was left.                        *)
LEMMA QuotaStep ==
  ASSUME Typed, Typed', QuotaInv,
         \A u \in Users, p \in Purposes :
           /\ Today(u, p)' \subseteq Today(u, p)
           /\ Sending(u, p)' \subseteq Sending(u, p) \/ Cardinality(Today(u, p)) < MaxCodesPerDay
  PROVE  QuotaInv'
<1> SUFFICES ASSUME NEW u \in Users, NEW p \in Purposes
             PROVE  (Cardinality(Today(u, p)) + Cardinality(Sending(u, p)))'
                      <= MaxCodesPerDay + Cardinality(Requests) - 1
  BY DEF QuotaInv
<1> PICK today : today = Today(u, p)
  OBVIOUS
<1> PICK today1 : today1 = Today(u, p)'
  OBVIOUS
<1> PICK sending : sending = Sending(u, p)
  OBVIOUS
<1> PICK sending1 : sending1 = Sending(u, p)'
  OBVIOUS
<1>1. IsFiniteSet(today) /\ Cardinality(today) \in Nat
  BY CodesOfDay DEF Typed, TypeOK
<1>2. today1 \subseteq today /\ (sending1 \subseteq sending \/ Cardinality(today) < MaxCodesPerDay)
  OBVIOUS
<1>3. Cardinality(today1) <= Cardinality(today) /\ Cardinality(today1) \in Nat
  BY <1>1, <1>2, FS_Subset, FS_CardinalityType
<1>4. /\ IsFiniteSet(sending) /\ Cardinality(sending) \in Nat /\ Cardinality(Requests) \in Nat
      /\ Cardinality(sending) <= Cardinality(Requests)
  BY SendersAre
<1>5. Cardinality(sending1) \in Nat /\ Cardinality(sending1) <= Cardinality(Requests)
  <2>1. sending1 \subseteq Requests
    BY DEF Sending
  <2> QED BY <2>1, LimitsAssumption, FS_Subset, FS_CardinalityType
<1>6. MaxCodesPerDay \in Nat
  BY LimitsAssumption
<1>7. CASE sending1 \subseteq sending
  <2>1. Cardinality(sending1) <= Cardinality(sending)
    BY <1>4, <1>7, FS_Subset
  <2>2. Cardinality(today) + Cardinality(sending) <= MaxCodesPerDay + Cardinality(Requests) - 1
    BY DEF QuotaInv
  <2> QED BY <1>1, <1>3, <1>4, <1>5, <1>6, <2>1, <2>2
<1>8. CASE Cardinality(today) < MaxCodesPerDay
  BY <1>1, <1>3, <1>4, <1>5, <1>6, <1>8
<1> QED
  BY <1>2, <1>7, <1>8

LEMMA SameDay == ASSUME codes' = codes \/ SameCodes PROVE \A u, p : Today(u, p)' \subseteq Today(u, p)
BY DEF Today, SameCodes, SameCode

LEMMA OthersSend ==
  ASSUME Sound, NEW r, OthersKept(r), NEW u, NEW p, NEW q \in Sending(u, p)', q # r
  PROVE  q \in Sending(u, p)
<1>1. q \in Requests /\ Kept(q) /\ InFlight(q)' /\ req'[q].kind = SendKind[p] /\ req'[q].u = u
  BY DEF Sending, OthersKept
<1> QED
  BY <1>1, KeptFields, Types DEF Sending

LEMMA BeginQuota == ASSUME Sound, Sound', QuotaInv, NEW r \in Requests, Joins(r) PROVE QuotaInv'
<1>1. PICK f : Begin(r, f) /\ Arrived(f)
  BY DEF Joins
<1>2. codes' = codes /\ req' = [req EXCEPT ![r] = f] /\ ~InFlight(r)
  BY <1>1 DEF Begin, InFlight
<1>3. OthersKept(r) /\ req'[r] = f
  BY <1>2, Types DEF OthersKept, Kept
<1>4. ASSUME NEW u \in Users, NEW p \in Purposes
      PROVE  /\ Today(u, p)' \subseteq Today(u, p)
             /\ Sending(u, p)' \subseteq Sending(u, p) \/ Cardinality(Today(u, p)) < MaxCodesPerDay
  <2>1. CASE f.kind = SendKind[p] /\ f.u = u
    BY <1>1, <1>2, <2>1, SameDay DEF Arrived, CodesLeft, Today
  <2>2. CASE ~(f.kind = SendKind[p] /\ f.u = u)
    <3>1. r \notin Sending(u, p)'
      BY <1>3, <2>2 DEF Sending
    <3> QED BY <1>2, <1>3, <3>1, SameDay, OthersSend
  <2> QED BY <2>1, <2>2
<1> QED
  BY <1>4, QuotaStep DEF Sound

LEMMA CreateQuota == ASSUME Sound, Sound', QuotaInv, NEW r \in Requests, Create(r) PROVE QuotaInv'
<1>1. InFlight(r) /\ req[r].kind = "create" /\ codes' = codes
  BY DEF Create, Finish, InFlight
<1>2. req[r] \in Flight
  BY <1>1, WriterIs
<1>3. OthersKept(r) /\ \A u : \A p : r \in Sending(u, p)' => u = req[r].u /\ ~Exists(u)
  <2>1. CASE Answered(r)
    BY <2>1, AnsweredKeeps, Types DEF Sending
  <2>2. CASE req' = [req EXCEPT ![r].kind = "send_verify"] /\ ~Exists(req[r].u)
    <3>1. OthersKept(r)
      BY <2>2, Types DEF OthersKept, Kept
    <3>2. req'[r] = [req[r] EXCEPT !.kind = "send_verify"]
      BY <2>2, Types
    <3>3. req'[r].u = req[r].u
      BY <1>2, <3>2 DEF Flight
    <3> QED BY <2>2, <3>1, <3>3 DEF Sending
  <2> QED BY <2>1, <2>2 DEF Create
(* No code was ever sent for an account that is not there yet.             *)
<1>4. ASSUME NEW u \in Users, NEW p \in Purposes, ~Exists(u) PROVE Cardinality(Today(u, p)) < MaxCodesPerDay
  <2>1. Today(u, p) = {}
    BY <1>4 DEF Today, Sound, AddressInv, CodeSound
  <2>2. Cardinality(Today(u, p)) = 0
    BY <2>1, FS_EmptySet
  <2> QED BY <2>2, LimitsAssumption
<1>5. ASSUME NEW u \in Users, NEW p \in Purposes
      PROVE  /\ Today(u, p)' \subseteq Today(u, p)
             /\ Sending(u, p)' \subseteq Sending(u, p) \/ Cardinality(Today(u, p)) < MaxCodesPerDay
  BY <1>1, <1>3, <1>4, SameDay, OthersSend
<1> QED
  BY <1>5, QuotaStep DEF Sound

LEMMA OverwriteQuota == ASSUME Sound, Sound', QuotaInv, NEW r \in Requests, Overwrite(r) PROVE QuotaInv'
<1>1. InFlight(r) /\ codes' = codes /\ req[r] \in Flight
  BY WriterIs DEF Overwrite, Finish, InFlight
<1>2. OthersKept(r)
  BY OverwriteRequests
<1>3. ASSUME NEW u \in Users, NEW p \in Purposes, r \in Sending(u, p)'
      PROVE  Cardinality(Today(u, p)) < MaxCodesPerDay
  <2> PICK f : f = [req[r] EXCEPT !.kind = "send_verify", !.addr = req[r].row.email]
    OBVIOUS
  <2>1. f.kind = "send_verify" /\ f.u = req[r].u
    BY <1>1 DEF Flight
  <2>2. req'[r] = f /\ CodesLeft(req[r].u, "verify")
    BY <1>3, OverwriteRequests DEF Sending, InFlight
  <2>3. u = req[r].u /\ p = "verify"
    BY <1>3, <2>1, <2>2, SendKinds DEF Sending, Purposes
  <2> QED BY <2>2, <2>3 DEF CodesLeft, Today
<1>4. ASSUME NEW u \in Users, NEW p \in Purposes
      PROVE  /\ Today(u, p)' \subseteq Today(u, p)
             /\ Sending(u, p)' \subseteq Sending(u, p) \/ Cardinality(Today(u, p)) < MaxCodesPerDay
  BY <1>1, <1>2, <1>3, SameDay, OthersSend
<1> QED
  BY <1>4, QuotaStep DEF Sound

(* The request that sends gives way to the code it sent.                   *)
LEMMA OtpQuota ==
  ASSUME Sound, Sound', QuotaInv, NEW r \in Requests, NEW kind \in Purposes, CreateEmailOtp(r, kind)
  PROVE  QuotaInv'
<1> PICK n : n = Len(codes) + 1
  OBVIOUS
<1>1. CodeAppended(req[r].u, kind, req[r].addr) /\ InFlight(r) /\ req[r].kind = SendKind[kind]
  BY OtpAppends
<1>2. OthersKept(r) /\ ~InFlight(r)'
  BY AnswersEnd DEF Answers
<1> SUFFICES ASSUME NEW u \in Users, NEW p \in Purposes
             PROVE  (Cardinality(Today(u, p)) + Cardinality(Sending(u, p)))'
                      <= MaxCodesPerDay + Cardinality(Requests) - 1
  BY DEF QuotaInv
<1> PICK today : today = Today(u, p)
  OBVIOUS
<1> PICK today1 : today1 = Today(u, p)'
  OBVIOUS
<1> PICK sending : sending = Sending(u, p)
  OBVIOUS
<1> PICK sending1 : sending1 = Sending(u, p)'
  OBVIOUS
<1>3. /\ IsFiniteSet(today) /\ Cardinality(today) \in Nat
      /\ IsFiniteSet(sending) /\ Cardinality(sending) \in Nat /\ Cardinality(Requests) \in Nat
  BY CodesOfDay, SendersAre DEF Sound, Typed, TypeOK
<1>4. Cardinality(today) + Cardinality(sending) <= MaxCodesPerDay + Cardinality(Requests) - 1
  BY DEF QuotaInv
<1>5. sending1 \subseteq sending \ {r}
  <2>1. r \notin sending1
    BY <1>2 DEF Sending
  <2> QED BY <1>2, <2>1, OthersSend
<1>6. today1 \subseteq today \cup (IF u = req[r].u /\ p = kind THEN {n} ELSE {})
  BY <1>1 DEF Today, CodeAppended, SameCode
<1>7. MaxCodesPerDay \in Nat
  BY LimitsAssumption
<1>8. CASE u = req[r].u /\ p = kind
  <2>1. r \in sending
    BY <1>1, <1>8 DEF Sending
  <2>2. Cardinality(sending \ {r}) = Cardinality(sending) - 1 /\ IsFiniteSet(sending \ {r})
    BY <1>3, <2>1, FS_RemoveElement
  <2>3. Cardinality(sending1) <= Cardinality(sending) - 1 /\ Cardinality(sending1) \in Nat
    BY <1>5, <2>2, FS_Subset, FS_CardinalityType
  <2>4. IsFiniteSet(today \cup {n}) /\ Cardinality(today \cup {n}) <= Cardinality(today) + 1
    <3>1. /\ IsFiniteSet(today \cup {n})
          /\ \/ Cardinality(today \cup {n}) = Cardinality(today)
             \/ Cardinality(today \cup {n}) = Cardinality(today) + 1
      BY <1>3, FS_AddElement
    <3> QED BY <1>3, <3>1
  <2>5. today1 \subseteq today \cup {n}
    BY <1>6
  <2>6. Cardinality(today1) <= Cardinality(today) + 1 /\ Cardinality(today1) \in Nat
    <3>1. Cardinality(today \cup {n}) \in Nat
      BY <2>4, FS_CardinalityType
    <3>2. Cardinality(today1) <= Cardinality(today \cup {n}) /\ Cardinality(today1) \in Nat
      BY <2>4, <2>5, FS_Subset, FS_CardinalityType
    <3> QED BY <1>3, <2>4, <3>1, <3>2
  <2> QED BY <1>3, <1>4, <1>7, <2>3, <2>6
<1>9. CASE ~(u = req[r].u /\ p = kind)
  <2>1. sending1 \subseteq sending /\ today1 \subseteq today
    BY <1>5, <1>6, <1>9
  <2>2. /\ Cardinality(sending1) <= Cardinality(sending) /\ Cardinality(sending1) \in Nat
        /\ Cardinality(today1) <= Cardinality(today) /\ Cardinality(today1) \in Nat
    BY <1>3, <2>1, FS_Subset, FS_CardinalityType
  <2> QED BY <1>3, <1>4, <1>7, <2>2
<1> QED
  BY <1>8, <1>9

LEMMA AnswersQuota == ASSUME Sound, Sound', QuotaInv, NEW r \in Requests, Answers(r) PROVE QuotaInv'
<1>1. OthersKept(r) /\ ~InFlight(r)'
  BY AnswersEnd
<1>2. CASE \E kind \in Purposes : CreateEmailOtp(r, kind)
  BY <1>2, OtpQuota
<1>3. CASE codes' = codes \/ SameCodes
  <2>1. ASSUME NEW u \in Users, NEW p \in Purposes
        PROVE  /\ Today(u, p)' \subseteq Today(u, p)
               /\ Sending(u, p)' \subseteq Sending(u, p) \/ Cardinality(Today(u, p)) < MaxCodesPerDay
    <3>1. r \notin Sending(u, p)'
      BY <1>1 DEF Sending
    <3> QED BY <1>1, <1>3, <3>1, SameDay, OthersSend
  <2> QED BY <2>1, QuotaStep DEF Sound
<1>4. CASE CountFailure(r) \/ MarkVerified(r) \/ GrantReset(r) \/ ResetPassword(r) \/ SwapEmail(r)
  BY <1>3, <1>4, CodesJudged
<1>5. CASE SetNewPassword(r) \/ SaveProfile(r) \/ GoogleEnter(r) \/ GoogleCreate(r) \/ Rotate(r)
  BY <1>3, <1>5 DEF SetNewPassword, SaveProfile, GoogleEnter, GoogleCreate, Rotate
<1> QED
  BY <1>2, <1>4, <1>5 DEF Answers

LEMMA OutsideQuota ==
  ASSUME Sound, Sound', QuotaInv,
         \/ UNCHANGED vars
         \/ \E a \in Addresses, p \in Passwords : Login(a, p) \/ AdminLogin(a, p)
         \/ \E a \in Addresses : AdminGoogleLogin(a) \/ OtherAccount(a)
         \/ \E t \in tokens : Logout(t) \/ AdminLogout(t)
         \/ CodesExpire \/ DayPasses
  PROVE  QuotaInv'
<1> PICK r : r \notin Requests
  BY NoSetContainsEverything
<1>1. OthersKept(r)
  <2>1. CASE req' = req
    BY <2>1, Types DEF OthersKept, Kept
  <2>2. ASSUME NEW a \in Addresses, NEW p \in Passwords, Login(a, p) \/ AdminLogin(a, p)
        PROVE  OthersKept(r)
    <3>1. PICK u : req' = Overtaken(u, FALSE)
      BY <2>2 DEF Login, AdminLogin, Entered
    <3>2. DOMAIN Overtaken(u, FALSE) = Requests
      BY DEF Overtaken
    <3> QED BY <3>1, <3>2, OvertakenLate, Types
  <2> QED BY <2>1, <2>2 DEF AdminGoogleLogin, OtherAccount, Logout, AdminLogout, Blacklisted, CodesExpire, DayPasses,
             Ages, vars
<1>2. \A u, p : Today(u, p)' \subseteq Today(u, p)
  <2>1. CASE codes' = codes
    BY <2>1, SameDay
  <2>2. CASE CodesExpire \/ DayPasses
    <3>1. /\ DOMAIN codes' = DOMAIN codes
          /\ \A i \in DOMAIN codes : SameCode(i) /\ (codes[i].age = "old" => codes'[i].age = "old")
      BY <2>2, AgesAre, Types DEF CodesExpire, DayPasses, RowsTyped
    <3> QED BY <3>1 DEF Today, SameCode
  <2> QED BY <2>1, <2>2 DEF Login, AdminLogin, Entered, AdminGoogleLogin, OtherAccount, Logout, AdminLogout,
             Blacklisted, vars
<1>3. ASSUME NEW u \in Users, NEW p \in Purposes
      PROVE  /\ Today(u, p)' \subseteq Today(u, p)
             /\ Sending(u, p)' \subseteq Sending(u, p) \/ Cardinality(Today(u, p)) < MaxCodesPerDay
  <2>1. r \notin Sending(u, p)'
    BY DEF Sending
  <2> QED BY <1>1, <1>2, <2>1, OthersSend
<1> QED
  BY <1>3, QuotaStep DEF Sound

LEMMA NextQuota == ASSUME Sound, Sound', QuotaInv, [Next]_vars PROVE QuotaInv'
<1>1. ASSUME NEW r \in Requests, Arrive(r) PROVE QuotaInv'
  BY <1>1, ArriveJoins, BeginQuota DEF Sound
<1>2. ASSUME NEW r \in Requests, Write(r) PROVE QuotaInv'
  BY <1>2, WriteIs, CreateQuota, OverwriteQuota, AnswersQuota
<1> QED
  BY <1>1, <1>2, OutsideQuota DEF Next

LEMMA InitQuota == Init => QuotaInv
<1> SUFFICES ASSUME Init, NEW u \in Users, NEW p \in Purposes
             PROVE  Cardinality(Today(u, p)) + Cardinality(Sending(u, p))
                      <= MaxCodesPerDay + Cardinality(Requests) - 1
  BY DEF QuotaInv
<1>1. DOMAIN codes = {} /\ \A r \in Requests : ~InFlight(r)
  BY DEF Init, InFlight
<1>2. Today(u, p) = {} /\ Sending(u, p) = {}
  BY <1>1 DEF Today, Sending
<1>3. Cardinality(Today(u, p)) = 0 /\ Cardinality(Sending(u, p)) = 0
  BY <1>2, FS_EmptySet
<1>4. Cardinality(Requests) \in Nat /\ MaxCodesPerDay \in Nat /\ MaxCodesPerDay # 0
  BY LimitsAssumption, FS_CardinalityType
<1> QED
  BY <1>3, <1>4

-----------------------------------------------------------------------------
(* An address counts as verified, and an account holds a session, only     *)
(* where the account showed a code mailed to the address it has, or Google *)
(* vouched for it (VerifyEmailConfirmView, ChangeEmailView, GoogleLogin    *)
(* and the reset that verifies), whatever copies of rows are written back. *)
THEOREM AccountsAreProved == Spec => []AccountProved
<1>1. Sound => AccountProved
  BY DEF Sound, Typed, AddressInv, AccountProved, VerifiedProven, SessionsProved, Settled, Proved
<1> QED
  BY <1>1, AlwaysSound, PTL

(* The password an account was last given is the one it has, and a change  *)
(* or reset leaves no token of before, but for an account whose row was    *)
(* written back from an old copy and a rotation already under way          *)
(* (_blacklist_all_for, save() without update_fields).                     *)
THEOREM OwnersWordStands == Spec => []OwnerStands
<1>1. Sound => OwnerStands
  BY DEF Sound, OwnerInv, OwnerStands
<1> QED
  BY <1>1, AlwaysSound, PTL

(* The password of a verified account is changed by its owner's change or  *)
(* reset, or by a request that had read the row before it changed: never   *)
(* by a registration or a Google login that read the row as it is.         *)
THEOREM VerifiedPasswordsAreKept == Spec => VerifiedKeepsPassword
<1> DEFINE Step == \A u \in Users : Rewrites(u) => ByOwnerOrLate
<1>1. Sound /\ [Next]_vars => [Step]_vars
  BY NextRewrites
<1>2. [Step]_vars =>
        [\A u \in Users :
           Exists(u) /\ user[u].verified /\ user'[u].password # user[u].password
             => \E r \in Requests :
                  /\ req[r] # Idle /\ req'[r] # req[r]
                  /\ req[r].kind \in {"change_password", "reset_password"} \/ req[r].late]_vars
  BY DEF Rewrites, ByOwnerOrLate
<1> HIDE DEF Step
<1> QED
  BY <1>1, <1>2, AlwaysSound, PTL DEF Spec, VerifiedKeepsPassword

(* _codes_left is read before _create_email_otp writes, in no transaction: *)
(* an account is sent at most the day's quota of each kind, and one more   *)
(* for every further request that counted meanwhile.                       *)
THEOREM QuotaIsBounded == Spec => []CodeQuota
<1>1. Sound /\ QuotaInv => CodeQuota
  <2> SUFFICES ASSUME Sound, QuotaInv, NEW u \in Users, NEW p \in Purposes
               PROVE  Cardinality(Today(u, p)) <= MaxCodesPerDay + Cardinality(Requests) - 1
    BY DEF CodeQuota, Today
  <2>1. /\ Cardinality(Today(u, p)) \in Nat /\ Cardinality(Sending(u, p)) \in Nat
        /\ Cardinality(Requests) \in Nat
    BY CodesOfDay, SendersAre DEF Sound, Typed, TypeOK
  <2>2. Cardinality(Today(u, p)) + Cardinality(Sending(u, p)) <= MaxCodesPerDay + Cardinality(Requests) - 1
    BY DEF QuotaInv
  <2>3. MaxCodesPerDay \in Nat
    BY LimitsAssumption
  <2> QED BY <2>1, <2>2, <2>3
<1> QED
  BY <1>1, AlwaysSound, InitQuota, NextQuota, PTL DEF Spec
=============================================================================

------------------------------ MODULE Identity ------------------------------
(***************************************************************************)
(* Usernames, phone numbers, six-word sign-in and referrals of the ORPay   *)
(* backend (directory.go, phone.go, signin.go, referrals.go), over JSON    *)
(* stores (node/jsonstore) that keep a value in memory and in a file.      *)
(*                                                                         *)
(* Store.Update changes the memory and then writes the file; when its      *)
(* function returns an error the file is not written, and what the         *)
(* function did to the memory before that stays there until a restart.     *)
(* The write may fail too.  A request that takes several steps is in       *)
(* "call".  A code is right or wrong, a token is right or wrong; codes     *)
(* expire, locks end and the hour of the SMS limit passes by actions.      *)
(***************************************************************************)
EXTENDS Naturals, FiniteSets, Functions

CONSTANTS Addrs,       \* wallet addresses
          Names,       \* usernames
          Numbers,     \* phone numbers
          Codes,       \* SMS codes that may be sent, by id
          Clients,     \* requests handled at the same time
          Scenarios,   \* the kinds of request that come together, see Kinds
          MaxTries,    \* guesses at a code (5)
          MaxSends,    \* codes sent to a number in an hour (5)
          MaxFails,    \* wrong tokens before a lock (5)
          MaxRestarts, \* bound on restarts
          MaxUnsaved   \* bound on failed writes of a file

Kinds == {"name", "phone", "signin", "refer", "migrate"}
None  == 0

ASSUME IdentityAssumption ==
  /\ None \notin Addrs \cup Names \cup Numbers \cup Codes
  /\ Scenarios \subseteq SUBSET Kinds
  /\ {MaxTries, MaxSends, MaxFails} \subseteq Nat \ {0}
  /\ MaxRestarts \in Nat /\ MaxUnsaved \in Nat

VARIABLES
  mem,         \* the stores' values
  disk,        \* their files
  byAddr,      \* directory.byAddr, the index of names by address
  call,        \* the requests being handled
  recoveredTo, \* what the chain shows
  lapsed,      \* codes that have expired
  right,       \* per code, how often it was accepted
  wrong,       \* per code, how often a wrong guess was compared with it
  strikes,     \* per address, wrong tokens since it was last set, opened or unlocked
  uses,        \* the kinds of request in this behaviour
  mishaps      \* restarts and failed writes

guesses      == <<right, wrong, strikes>>
world        == <<recoveredTo, lapsed, uses>>
identityVars == <<mem, disk, byAddr, call, world, guesses, mishaps>>

NoCode   == [number |-> None, purpose |-> "link", addr |-> None, tries |-> 0]
NoSignIn == [set |-> FALSE, fails |-> 0, locked |-> FALSE]
Idle     == [at |-> "idle", me |-> None, other |-> None]

Empty ==
  [users |-> [n \in Names |-> None],
   phones |-> [owner |-> [p \in Numbers |-> None], codes |-> [k \in Codes |-> NoCode],
               sent |-> [p \in Numbers |-> 0], requests |-> {}],
   signins |-> [a \in Addrs |-> NoSignIn],
   referrals |-> [a \in Addrs |-> None]]

IdentityInit ==
  /\ mem = Empty /\ disk = Empty
  /\ byAddr = [a \in Addrs |-> None]
  /\ call = [c \in Clients |-> Idle]
  /\ recoveredTo = [a \in Addrs |-> None]
  /\ lapsed = {}
  /\ right = [k \in Codes |-> 0] /\ wrong = [k \in Codes |-> 0]
  /\ strikes = [a \in Addrs |-> 0]
  /\ uses \in Scenarios
  /\ mishaps = [crash |-> 0, unsaved |-> 0]

-----------------------------------------------------------------------------
(* jsonstore. *)

(* Update whose function returned nil; saved is what WriteAtomic returned. *)
Update(f, v, saved) ==
  /\ mem' = [mem EXCEPT ![f] = v]
  /\ disk' = IF saved THEN [disk EXCEPT ![f] = v] ELSE disk
  /\ saved \/ mishaps.unsaved < MaxUnsaved
  /\ mishaps' = IF saved THEN mishaps ELSE [mishaps EXCEPT !.unsaved = @ + 1]

(* Mutant of Refuse: an error undoes what the function did. *)
RefuseNothing(f, v) == UNCHANGED <<mem, disk, mishaps>>

(* Update whose function returned an error, having changed the value to v. *)
Refuse(f, v) ==
  /\ mem' = [mem EXCEPT ![f] = v]
  /\ UNCHANGED <<disk, mishaps>>

(* openDirectory rebuilds the index; a name's later duplicate would win. *)
IndexOf(users) ==
  [a \in Addrs |-> IF \E n \in Names : users[n] = a THEN CHOOSE n \in Names : users[n] = a ELSE None]

(* The process dies and starts again from the files. *)
Restart ==
  /\ mishaps.crash < MaxRestarts
  /\ mishaps' = [mishaps EXCEPT !.crash = @ + 1]
  /\ mem' = disk
  /\ byAddr' = IndexOf(disk.users)
  /\ call' = [c \in Clients |-> Idle]
  /\ UNCHANGED <<disk, world, guesses>>

(* What a handler is in the middle of. *)
Free(c)           == call[c] = Idle
Goto(c, at, a, b) == call' = [call EXCEPT ![c] = [at |-> at, me |-> a, other |-> b]]
Return(c)         == call' = [call EXCEPT ![c] = Idle]

-----------------------------------------------------------------------------
(* directory.go *)

(* register, directory.claim: the index changes with the memory, whether or *)
(* not the file can be written.                                             *)
Claim(a, n, saved) ==
  /\ mem.users[n] = None /\ byAddr[a] = None
  /\ Update("users", [mem.users EXCEPT ![n] = a], saved)
  /\ byAddr' = [byAddr EXCEPT ![a] = n]
  /\ UNCHANGED <<call, world, guesses>>

-----------------------------------------------------------------------------
(* phone.go *)

Phones == mem.phones

(* startPhone: startLink for wallet a, startRecover with a = None; the code *)
(* is sent if the store was saved.                                          *)
StartPhone(k, p, a, saved) ==
  /\ disk.phones.codes[k] = NoCode /\ Phones.codes[k] = NoCode
  /\ right[k] = 0 /\ wrong[k] = 0 /\ k \notin lapsed
  /\ a = None => Phones.owner[p] # None
  /\ Phones.sent[p] < MaxSends
  /\ LET fresh == [number |-> p, purpose |-> IF a = None THEN "recover" ELSE "link",
                   addr |-> a, tries |-> 0]
         kept  == [j \in Codes |-> IF j \in lapsed THEN NoCode ELSE Phones.codes[j]]
     IN  Update("phones", [Phones EXCEPT !.sent[p] = @ + 1, !.codes = [kept EXCEPT ![k] = fresh]], saved)
  /\ UNCHANGED <<byAddr, call, world, guesses>>

(* checkOTP compares a code: it exists, for this purpose, and has tries     *)
(* left.                                                                    *)
Comparable(k, purpose) ==
  /\ Phones.codes[k] # NoCode /\ Phones.codes[k].purpose = purpose
  /\ k \notin lapsed /\ Phones.codes[k].tries < MaxTries

(* The store without an accepted code. *)
Consumed(k) == [Phones EXCEPT !.codes[k] = NoCode]

(* A wrong code: the try is counted in memory only.  The try after the last *)
(* one deletes the code.                                                    *)
WrongCode(k, purpose) ==
  /\ Phones.codes[k] # NoCode /\ Phones.codes[k].purpose = purpose /\ k \notin lapsed
  /\ IF Comparable(k, purpose)
     THEN /\ Refuse("phones", [Phones EXCEPT !.codes[k].tries = @ + 1])
          /\ wrong' = [wrong EXCEPT ![k] = @ + 1]
     ELSE /\ Refuse("phones", Consumed(k))
          /\ UNCHANGED wrong
  /\ UNCHANGED <<byAddr, call, world, right, strikes>>

(* verifyLink with the right code: the code is gone even if it was not for  *)
(* the caller; an error of the write ends the request.                      *)
VerifyLink(c, a, k, saved) ==
  /\ Free(c) /\ Comparable(k, "link")
  /\ LET code == Phones.codes[k] IN
     /\ Update("phones", Consumed(k), saved)
     /\ right' = IF saved THEN [right EXCEPT ![k] = @ + 1] ELSE right
     /\ IF saved /\ code.addr = a THEN Goto(c, "link", a, code.number) ELSE Return(c)
  /\ UNCHANGED <<byAddr, world, wrong, strikes>>

(* Mutant of LinkNumber: it does not look whose number it is. *)
LinkAnyNumber(c, saved) ==
  /\ call[c].at = "link"
  /\ Update("phones", [Phones EXCEPT !.owner[call[c].other] = call[c].me], saved)
  /\ Return(c)
  /\ UNCHANGED <<byAddr, world, guesses>>

(* Its second Update: one number per wallet, unless it is someone else's.   *)
LinkNumber(c, saved) ==
  /\ call[c].at = "link"
  /\ LET me    == call[c].me
         owner == [p \in Numbers |-> IF p = call[c].other THEN me
                                     ELSE IF Phones.owner[p] = me THEN None ELSE Phones.owner[p]]
     IN  IF Phones.owner[call[c].other] \in {None, me}
         THEN Update("phones", [Phones EXCEPT !.owner = owner], saved)
         ELSE saved /\ UNCHANGED <<mem, disk, mishaps>>
  /\ Return(c)
  /\ UNCHANGED <<byAddr, world, guesses>>

(* verifyRecover with the right code: whose number it is is read after the  *)
(* code was taken, the node is asked for the guardians, and the request is  *)
(* stored for them to see.                                                  *)
VerifyRecover(c, a, k, saved) ==
  /\ Free(c) /\ Comparable(k, "recover")
  /\ LET owner == Phones.owner[Phones.codes[k].number] IN
     IF saved /\ owner # None THEN Goto(c, "recover", a, owner) ELSE Return(c)
  /\ Update("phones", Consumed(k), saved)
  /\ right' = IF saved THEN [right EXCEPT ![k] = @ + 1] ELSE right
  /\ UNCHANGED <<byAddr, world, wrong, strikes>>

AskGuardians(c, guarded, saved) ==
  /\ call[c].at = "recover"
  /\ IF guarded
     THEN Update("phones", [Phones EXCEPT !.requests = @ \cup {<<call[c].other, call[c].me>>}], saved)
     ELSE saved /\ UNCHANGED <<mem, disk, mishaps>>
  /\ Return(c)
  /\ UNCHANGED <<byAddr, world, guesses>>

-----------------------------------------------------------------------------
(* migrateIdentity: allowed by what the chain shows, then three Updates     *)
(* whose errors are not looked at.                                          *)

Migrate(c, old, me) ==
  /\ Free(c) /\ recoveredTo[old] = me /\ me # None
  /\ Goto(c, "migrate phones", me, old)
  /\ UNCHANGED <<mem, disk, byAddr, world, guesses, mishaps>>

MigratePhones(c, saved) ==
  /\ call[c].at = "migrate phones"
  /\ Update("phones", [Phones EXCEPT !.owner = [p \in Numbers |->
                IF @[p] = call[c].other THEN call[c].me ELSE @[p]]], saved)
  /\ Goto(c, "migrate signin", call[c].me, call[c].other)
  /\ UNCHANGED <<byAddr, world, guesses>>

MigrateSignIn(c, saved) ==
  /\ call[c].at = "migrate signin"
  /\ Update("signins", [mem.signins EXCEPT ![call[c].other] = NoSignIn], saved)
  /\ strikes' = [strikes EXCEPT ![call[c].other] = 0]
  /\ Goto(c, "migrate name", call[c].me, call[c].other)
  /\ UNCHANGED <<byAddr, world, right, wrong>>

(* Mutant of MigrateName: the old key stays in the index. *)
MigrateNameOnly(c, saved) ==
  /\ call[c].at = "migrate name"
  /\ LET old  == call[c].other
         me   == call[c].me
         name == byAddr[old]
     IN  IF name # None /\ byAddr[me] = None
         THEN /\ Update("users", [mem.users EXCEPT ![name] = me], saved)
              /\ byAddr' = [byAddr EXCEPT ![me] = name]
         ELSE /\ Update("users", mem.users, saved)
              /\ UNCHANGED byAddr
  /\ Return(c)
  /\ UNCHANGED <<world, guesses>>

MigrateName(c, saved) ==
  /\ call[c].at = "migrate name"
  /\ LET old  == call[c].other
         me   == call[c].me
         name == byAddr[old]
     IN  IF name # None /\ byAddr[me] = None
         THEN /\ Update("users", [mem.users EXCEPT ![name] = me], saved)
              /\ byAddr' = [byAddr EXCEPT ![old] = None, ![me] = name]
         ELSE /\ Update("users", mem.users, saved)
              /\ UNCHANGED byAddr
  /\ Return(c)
  /\ UNCHANGED <<world, guesses>>

-----------------------------------------------------------------------------
(* signin.go *)

(* setSignIn: the caller's name is looked up first. *)
SetSignIn(c, a) ==
  /\ Free(c) /\ byAddr[a] # None
  /\ Goto(c, "signin", a, None)
  /\ UNCHANGED <<mem, disk, byAddr, world, guesses, mishaps>>

StoreSignIn(c, saved) ==
  /\ call[c].at = "signin"
  /\ Update("signins", [mem.signins EXCEPT ![call[c].me] = [NoSignIn EXCEPT !.set = TRUE]], saved)
  /\ strikes' = [strikes EXCEPT ![call[c].me] = 0]
  /\ Return(c)
  /\ UNCHANGED <<byAddr, world, right, wrong>>

DeleteSignIn(a, saved) ==
  /\ mem.signins[a].set
  /\ Update("signins", [mem.signins EXCEPT ![a] = NoSignIn], saved)
  /\ strikes' = [strikes EXCEPT ![a] = 0]
  /\ UNCHANGED <<byAddr, call, world, right, wrong>>

(* openSignIn finds the address of a name, then tries the token. *)
OpenSignIn(c, n) ==
  /\ Free(c) /\ mem.users[n] # None
  /\ Goto(c, "open", mem.users[n], None)
  /\ UNCHANGED <<mem, disk, byAddr, world, guesses, mishaps>>

(* A right token clears the count; a wrong one adds to it, in memory only, *)
(* and locks the record from the last one on.                               *)
TryToken(c, correct, saved) ==
  LET a   == call[c].me
      rec == mem.signins[a]
  IN
  /\ call[c].at = "open"
  /\ IF ~rec.set \/ rec.locked
     THEN saved /\ UNCHANGED <<mem, disk, mishaps, strikes>>
     ELSE IF correct
     THEN /\ Update("signins", [mem.signins EXCEPT ![a] = [NoSignIn EXCEPT !.set = TRUE]], saved)
          /\ strikes' = [strikes EXCEPT ![a] = 0]
     ELSE /\ saved
          /\ Refuse("signins", [mem.signins EXCEPT ![a].fails = IF @ < MaxFails THEN @ + 1 ELSE @,
                                                   ![a].locked = rec.fails + 1 >= MaxFails])
          /\ strikes' = [strikes EXCEPT ![a] = @ + 1]
  /\ Return(c)
  /\ UNCHANGED <<byAddr, world, right, wrong>>

-----------------------------------------------------------------------------
(* referrals.go: who the name belongs to is read before the record is made. *)

FindReferrer(c, a, n) ==
  /\ Free(c) /\ mem.users[n] \notin {None, a}
  /\ Goto(c, "refer", a, mem.users[n])
  /\ UNCHANGED <<mem, disk, byAddr, world, guesses, mishaps>>

RecordReferral(c, saved) ==
  /\ call[c].at = "refer"
  /\ IF mem.referrals[call[c].me] = None
     THEN Update("referrals", [mem.referrals EXCEPT ![call[c].me] = call[c].other], saved)
     ELSE saved /\ UNCHANGED <<mem, disk, mishaps>>
  /\ Return(c)
  /\ UNCHANGED <<byAddr, world, guesses>>

-----------------------------------------------------------------------------
(* The chain and the clock.  What runs out does so in the files as well.   *)

Recover(old, new) ==
  /\ recoveredTo[old] = None /\ recoveredTo[new] = None /\ old # new
  /\ recoveredTo' = [recoveredTo EXCEPT ![old] = new]
  /\ UNCHANGED <<mem, disk, byAddr, call, lapsed, uses, guesses, mishaps>>

CodeExpires(k) ==
  /\ mem.phones.codes[k] # NoCode /\ k \notin lapsed
  /\ lapsed' = lapsed \cup {k}
  /\ UNCHANGED <<mem, disk, byAddr, call, recoveredTo, uses, guesses, mishaps>>

HourPasses(p) ==
  /\ mem.phones.sent[p] > 0
  /\ mem' = [mem EXCEPT !.phones.sent[p] = 0]
  /\ disk' = [disk EXCEPT !.phones.sent[p] = 0]
  /\ UNCHANGED <<byAddr, call, world, guesses, mishaps>>

LockEnds(a) ==
  /\ mem.signins[a].locked
  /\ mem' = [mem EXCEPT !.signins[a].locked = FALSE]
  /\ disk' = [disk EXCEPT !.signins[a].locked = FALSE]
  /\ strikes' = [strikes EXCEPT ![a] = 0]
  /\ UNCHANGED <<byAddr, call, world, right, wrong, mishaps>>

-----------------------------------------------------------------------------
NameStep(saved) == \E a \in Addrs, n \in Names : Claim(a, n, saved)

PhoneStep(saved) ==
  \/ \E k \in Codes :
       \/ \E p \in Numbers, a \in Addrs \cup {None} : StartPhone(k, p, a, saved)
       \/ saved /\ \E purpose \in {"link", "recover"} : WrongCode(k, purpose)
       \/ saved /\ CodeExpires(k)
       \/ \E c \in Clients, a \in Addrs : VerifyLink(c, a, k, saved) \/ VerifyRecover(c, a, k, saved)
  \/ \E c \in Clients : LinkNumber(c, saved) \/ \E g \in BOOLEAN : AskGuardians(c, g, saved)
  \/ saved /\ \E p \in Numbers : HourPasses(p)

SignInStep(saved) ==
  \/ \E c \in Clients : \/ StoreSignIn(c, saved)
                        \/ \E correct \in BOOLEAN : TryToken(c, correct, saved)
                        \/ saved /\ \E n \in Names : OpenSignIn(c, n)
                        \/ saved /\ \E a \in Addrs : SetSignIn(c, a)
  \/ \E a \in Addrs : DeleteSignIn(a, saved) \/ (saved /\ LockEnds(a))

ReferStep(saved) ==
  \E c \in Clients : \/ RecordReferral(c, saved)
                     \/ saved /\ \E a \in Addrs, n \in Names : FindReferrer(c, a, n)

MigrateStep(saved) ==
  \/ \E c \in Clients : \/ MigratePhones(c, saved) \/ MigrateSignIn(c, saved) \/ MigrateName(c, saved)
                        \/ saved /\ \E old, me \in Addrs : Migrate(c, old, me)
  \/ saved /\ \E old, new \in Addrs : Recover(old, new)

IdentityNext ==
  \/ \E saved \in BOOLEAN :
       \/ "name" \in uses /\ NameStep(saved)
       \/ "phone" \in uses /\ PhoneStep(saved)
       \/ "signin" \in uses /\ SignInStep(saved)
       \/ "refer" \in uses /\ ReferStep(saved)
       \/ "migrate" \in uses /\ MigrateStep(saved)
  \/ Restart

IdentitySpec == IdentityInit /\ [][IdentityNext]_identityVars

-----------------------------------------------------------------------------
Stores ==
  [users : [Names -> Addrs \cup {None}],
   phones : [owner : [Numbers -> Addrs \cup {None}],
             codes : [Codes -> {NoCode} \cup [number : Numbers, purpose : {"link", "recover"},
                                              addr : Addrs \cup {None}, tries : 0..MaxTries]],
             sent : [Numbers -> 0..MaxSends], requests : SUBSET (Addrs \X Addrs)],
   signins : [Addrs -> [set : BOOLEAN, fails : 0..MaxFails, locked : BOOLEAN]],
   referrals : [Addrs -> Addrs \cup {None}]]

(* The stores and their files hold values of the types Open is given. *)
IdentityTypeOK ==
  /\ mem \in Stores /\ disk \in Stores
  /\ byAddr \in [Addrs -> Names \cup {None}]

(* "Each address may hold one username and names are first come, first     *)
(* served" (directory.go:24): the index and the names are each other's      *)
(* inverse in memory, and the file never gives an address two names, so a  *)
(* restart finds the same index: over claims at the same time, migrations   *)
(* cut short by a crash and files that could not be written.                *)
NamesAreInverse ==
  /\ \A n \in Names : mem.users[n] # None => byAddr[mem.users[n]] = n
  /\ \A a \in Addrs : byAddr[a] # None => mem.users[byAddr[a]] = a
  /\ \A m, n \in Names : (m # n /\ disk.users[m] # None) => disk.users[m] # disk.users[n]

(* The stores are well formed in memory and on disk, and names are unique. *)
IdentityInv == IdentityTypeOK /\ NamesAreInverse

(* A code is accepted at most once, over restarts and failed writes, and a *)
(* wrong guess is compared with it at most MaxTries times in the life of a  *)
(* process (checkOTP); wrong tokens of a sign-in likewise until it locks    *)
(* (openSignIn).  Counts kept in memory only do not outlive a restart.      *)
GuessesAreLimited ==
  LET lives == mishaps.crash + 1 IN
  /\ \A k \in Codes : right[k] <= 1 /\ wrong[k] <= lives * MaxTries
  /\ \A a \in Addrs : strikes[a] <= lives * MaxFails

(* From f to g, x passes from one wallet to another. *)
Passed(f, g, x) == f[x] # None /\ g[x] # f[x] /\ g[x] # None

MovesByRecovery ==
  mishaps'.crash = mishaps.crash =>
    /\ \A n \in Names : Passed(mem.users, mem'.users, n) =>
                          recoveredTo[mem.users[n]] = mem'.users[n]
    /\ \A p \in Numbers : Passed(mem.phones.owner, mem'.phones.owner, p) =>
                            recoveredTo[mem.phones.owner[p]] = mem'.phones.owner[p]
    /\ \A a \in Addrs : mem.referrals[a] # None => mem'.referrals[a] = mem.referrals[a]

(* A name or a number passes from one wallet to another only when the chain *)
(* shows the one recovered to the other, and who invited a wallet is never  *)
(* rewritten, whatever requests run at the same time (migrateIdentity,      *)
(* verifyLink, claim, recordReferral).  Only a restart after a failed write *)
(* takes anything back.                                                     *)
IdentityMovesByRecovery == [][MovesByRecovery]_identityVars
=============================================================================

-------------------------- MODULE BackendProofs -----------------------------
(***************************************************************************)
(* What the ORPay backend promises, for any number of people, devices,     *)
(* requests and restarts.  Its stores share no variable, so each has an    *)
(* inductive invariant of its own (LimitsIInv, MarketIInv, InvitesIInv,    *)
(* PushIInv) and a step of one leaves the others as they are; module       *)
(* Identity, which is a specification of its own, comes last.              *)
(***************************************************************************)
EXTENDS Backend, Identity, SumsProofs, Sequences, FiniteSetTheorems

-----------------------------------------------------------------------------
(* The faucet. *)

Payments   == [at : Nat, slips : Nat]
DripStates == {"idle", "submit", "record"}

FaucetTypeOK ==
  /\ clock \in Nat /\ slips \in Nat /\ last \in SUBSET Nat
  /\ drip \in [Handlers -> DripStates]
  /\ paid \in Seq(Payments)

(* A payment that no fault has come after. *)
Counted(i) == paid[i].slips = slips

(* The mutex: one handler at a time is past the check.  What was paid is    *)
(* past; between two requests the record is no earlier than any payment it  *)
(* answers for, so whoever passed the check is a cooldown after them.       *)
FaucetIInv ==
  /\ FaucetTypeOK
  /\ \A g, h \in Handlers : drip[g] # "idle" /\ drip[h] # "idle" => g = h
  /\ \A t \in last : t <= clock
  /\ \A i \in DOMAIN paid : paid[i].at <= clock /\ paid[i].slips <= slips
  /\ (\A h \in Handlers : drip[h] # "record") =>
       \A i \in DOMAIN paid : Counted(i) => \E t \in last : paid[i].at <= t
  /\ (\E h \in Handlers : drip[h] = "submit") =>
       \A i \in DOMAIN paid : Counted(i) => clock - paid[i].at >= Cooldown
  /\ L!DripsAreApart

LEMMA SeqElement ==
  ASSUME NEW S, NEW s \in Seq(S), NEW i \in DOMAIN s
  PROVE  s[i] \in S
OBVIOUS

LEMMA PaidAreTyped ==
  ASSUME FaucetTypeOK
  PROVE  \A i \in DOMAIN paid : paid[i].at \in Nat /\ paid[i].slips \in Nat
<1>1. \A i \in DOMAIN paid : paid[i] \in Payments
  BY SeqElement DEF FaucetTypeOK
<1> QED BY <1>1 DEF Payments

LEMMA FaucetUntouched ==
  ASSUME FaucetIInv, UNCHANGED <<clock, slips, last, drip, paid>>
  PROVE  FaucetIInv'
BY DEF FaucetIInv, FaucetTypeOK, Counted, L!DripsAreApart

LEMMA DripChecked ==
  ASSUME FaucetIInv, NEW h \in Handlers, L!CheckDrip(h), BackendAssumption
  PROVE  FaucetIInv'
<1>1. /\ drip' = [drip EXCEPT ![h] = "submit"] /\ UNCHANGED <<clock, slips, last, paid>>
      /\ \A g \in Handlers : drip[g] = "idle"
  BY DEF L!CheckDrip, L!Unlocked
<1>2. ASSUME NEW i \in DOMAIN paid, Counted(i) PROVE clock - paid[i].at >= Cooldown
  <2>1. PICK t \in last : paid[i].at <= t
    BY <1>1, <1>2 DEF FaucetIInv
  <2>2. ~ (Cooldown - (clock - t) > 0)
    BY DEF L!CheckDrip, L!CoolingDown
  <2>3. t \in Nat /\ clock \in Nat /\ paid[i].at \in Nat
    BY PaidAreTyped DEF FaucetIInv, FaucetTypeOK
  <2> QED BY <2>1, <2>2, <2>3 DEF BackendAssumption
<1>3. FaucetTypeOK'
  BY <1>1 DEF FaucetIInv, FaucetTypeOK, DripStates
<1>4. \A g \in Handlers : drip'[g] = IF g = h THEN "submit" ELSE "idle"
  BY <1>1 DEF FaucetIInv, FaucetTypeOK
<1>5. L!DripsAreApart'
  BY <1>1 DEF FaucetIInv, L!DripsAreApart
<1> QED BY <1>1, <1>2, <1>3, <1>4, <1>5 DEF FaucetIInv, Counted

(* The payment is a cooldown after every one that counts. *)
LEMMA DripPaid ==
  ASSUME FaucetIInv, NEW h \in Handlers, drip[h] = "submit", L!Pay, BackendAssumption
  PROVE  /\ paid' \in Seq(Payments)
         /\ Len(paid') = Len(paid) + 1
         /\ paid'[Len(paid')] = [at |-> clock, slips |-> slips]
         /\ \A i \in DOMAIN paid : paid'[i] = paid[i]
         /\ \A i \in DOMAIN paid' : paid'[i].at <= clock /\ paid'[i].slips <= slips
         /\ L!DripsAreApart'
<1> DEFINE p == [at |-> clock, slips |-> slips]
<1>1. paid' = Append(paid, p)
  BY DEF L!Pay
<1>2. p \in Payments /\ paid \in Seq(Payments)
  BY DEF FaucetIInv, FaucetTypeOK, Payments
<1>3. p.at = clock /\ p.slips = slips
  OBVIOUS
<1> HIDE DEF p
<1>4. /\ paid' \in Seq(Payments)
      /\ Len(paid') = Len(paid) + 1 /\ Len(paid) \in Nat
      /\ DOMAIN paid = 1..Len(paid) /\ DOMAIN paid' = 1..(Len(paid) + 1)
      /\ paid'[Len(paid) + 1] = p
      /\ \A i \in DOMAIN paid : paid'[i] = paid[i]
  BY <1>1, <1>2
<1>5. \A i \in DOMAIN paid : /\ paid[i].at \in Nat /\ paid[i].slips \in Nat
                             /\ paid[i].at <= clock /\ paid[i].slips <= slips
                             /\ paid[i].slips = slips => clock - paid[i].at >= Cooldown
  BY PaidAreTyped DEF FaucetIInv, Counted
<1>6. \A i \in DOMAIN paid' : i = Len(paid) + 1 \/ i \in DOMAIN paid
  BY <1>4
<1>7. clock \in Nat /\ slips \in Nat
  BY DEF FaucetIInv, FaucetTypeOK
<1>8. \A i \in DOMAIN paid' : paid'[i].at <= clock /\ paid'[i].slips <= slips
  BY <1>3, <1>4, <1>5, <1>6, <1>7
<1>9. ASSUME NEW i \in DOMAIN paid', NEW j \in DOMAIN paid', i < j, paid'[i].slips = paid'[j].slips
      PROVE  paid'[j].at - paid'[i].at >= Cooldown
  <2>1. i \in DOMAIN paid
    BY <1>4, <1>9
  <2>2. CASE j \in DOMAIN paid
    <3>1. paid[i].slips = paid[j].slips /\ i < j
      BY <1>4, <1>9, <2>1, <2>2
    <3>2. paid[j].at - paid[i].at >= Cooldown
      BY <2>1, <2>2, <3>1 DEF FaucetIInv, L!DripsAreApart
    <3> QED BY <1>4, <2>1, <2>2, <3>2
  <2>3. CASE j = Len(paid) + 1
    BY <1>3, <1>4, <1>5, <1>9, <2>1, <2>3
  <2> QED BY <1>6, <2>2, <2>3
<1>10. L!DripsAreApart'
  BY <1>9 DEF L!DripsAreApart
<1> QED BY <1>3, <1>4, <1>8, <1>10 DEF p

LEMMA DripSubmitted ==
  ASSUME FaucetIInv, NEW h \in Handlers, L!SubmitDrip(h), BackendAssumption
  PROVE  FaucetIInv'
<1>1. /\ drip[h] = "submit" /\ UNCHANGED <<clock, last>>
      /\ \A g \in Handlers : g # h => drip[g] = "idle"
  BY DEF L!SubmitDrip, FaucetIInv
<1>2. /\ clock \in Nat /\ slips \in Nat /\ last \in SUBSET Nat
      /\ drip \in [Handlers -> DripStates] /\ \A t \in last : t <= clock
  BY DEF FaucetIInv, FaucetTypeOK
<1>3. CASE L!Pay /\ drip' = [drip EXCEPT ![h] = "record"] /\ UNCHANGED slips
  <2>1. \A g \in Handlers : drip'[g] = IF g = h THEN "record" ELSE "idle"
    BY <1>1, <1>2, <1>3
  <2>2. FaucetTypeOK'
    BY <1>1, <1>2, <1>3, DripPaid DEF FaucetTypeOK, DripStates
  <2>3. L!DripsAreApart' /\ \A i \in DOMAIN paid' : paid'[i].at <= clock' /\ paid'[i].slips <= slips'
    BY <1>1, <1>3, DripPaid
  <2> QED BY <1>1, <1>2, <2>1, <2>2, <2>3 DEF FaucetIInv
<1>4. CASE UNCHANGED <<paid, slips>> /\ drip' = [drip EXCEPT ![h] = "idle"]
  <2>1. \A g \in Handlers : drip'[g] = "idle" /\ drip[g] # "record"
    BY <1>1, <1>2, <1>4
  <2>2. FaucetTypeOK'
    BY <1>1, <1>2, <1>4 DEF FaucetIInv, FaucetTypeOK, DripStates
  <2>3. L!DripsAreApart'
    BY <1>4 DEF FaucetIInv, L!DripsAreApart
  <2> QED BY <1>1, <1>2, <1>4, <2>1, <2>2, <2>3 DEF FaucetIInv, Counted
<1>5. CASE slips' = slips + 1 /\ L!Pay /\ drip' = [drip EXCEPT ![h] = "idle"]
  <2>1. \A g \in Handlers : drip'[g] = "idle"
    BY <1>1, <1>2, <1>5
  <2>2. FaucetTypeOK'
    BY <1>1, <1>2, <1>5, DripPaid DEF FaucetTypeOK, DripStates
  <2>3. L!DripsAreApart' /\ \A i \in DOMAIN paid' : paid'[i].at <= clock /\ paid'[i].slips <= slips
    BY <1>1, <1>5, DripPaid
  <2>4. \A i \in DOMAIN paid' : paid'[i].slips \in Nat
    <3>1. \A i \in DOMAIN paid' : paid'[i] \in Payments
      BY <2>2, SeqElement DEF FaucetTypeOK
    <3> QED BY <3>1 DEF Payments
  <2>5. \A i \in DOMAIN paid' : paid'[i].slips <= slips' /\ paid'[i].slips # slips'
    BY <1>2, <1>5, <2>3, <2>4
  <2> QED BY <1>1, <1>2, <2>1, <2>2, <2>3, <2>5 DEF FaucetIInv, Counted
<1> QED BY <1>3, <1>4, <1>5 DEF L!SubmitDrip

LEMMA DripRecorded ==
  ASSUME FaucetIInv, NEW h \in Handlers, L!RecordDrip(h)
  PROVE  FaucetIInv'
<1>1. /\ drip[h] = "record" /\ last' = {clock} /\ UNCHANGED <<clock, paid, slips>>
      /\ drip' = [drip EXCEPT ![h] = "idle"]
  BY DEF L!RecordDrip
<1>2. \A g \in Handlers : drip'[g] = "idle"
  BY <1>1 DEF FaucetIInv, FaucetTypeOK
<1>3. FaucetTypeOK'
  BY <1>1 DEF FaucetIInv, FaucetTypeOK, DripStates
<1>4. L!DripsAreApart'
  BY <1>1 DEF FaucetIInv, L!DripsAreApart
<1>5. \A t \in last' : t <= clock'
  BY <1>1 DEF FaucetIInv, FaucetTypeOK
<1> QED BY <1>1, <1>2, <1>3, <1>4, <1>5 DEF FaucetIInv, Counted

LEMMA FaucetCrashed ==
  ASSUME FaucetIInv, L!FaucetCrash
  PROVE  FaucetIInv'
<1>1. /\ slips' = slips + 1 /\ drip' = [h \in Handlers |-> "idle"]
      /\ UNCHANGED <<clock, last, paid>>
  BY DEF L!FaucetCrash
<1>2. \A g \in Handlers : drip'[g] = "idle"
  BY <1>1
<1>3. FaucetTypeOK'
  BY <1>1 DEF FaucetIInv, FaucetTypeOK, DripStates
<1>4. L!DripsAreApart'
  BY <1>1 DEF FaucetIInv, L!DripsAreApart
<1>5. \A i \in DOMAIN paid' : paid'[i].slips <= slips' /\ paid'[i].slips # slips'
  BY <1>1, PaidAreTyped DEF FaucetIInv, FaucetTypeOK
<1> QED BY <1>1, <1>2, <1>3, <1>4, <1>5 DEF FaucetIInv, Counted

LEMMA FaucetTicks ==
  ASSUME FaucetIInv, L!LimitsTick, BackendAssumption
  PROVE  FaucetIInv'
<1>1. clock' = clock + 1 /\ UNCHANGED <<drip, last, paid, slips>>
  BY DEF L!LimitsTick
<1>2. FaucetTypeOK'
  BY <1>1 DEF FaucetIInv, FaucetTypeOK
<1>3. L!DripsAreApart'
  BY <1>1 DEF FaucetIInv, L!DripsAreApart
<1>4. \A t \in last : t \in Nat
  BY DEF FaucetIInv, FaucetTypeOK
<1>5. \A i \in DOMAIN paid : paid[i].at \in Nat
  BY PaidAreTyped DEF FaucetIInv
<1>6. clock \in Nat /\ Cooldown \in Nat /\ clock <= clock'
  BY <1>1 DEF FaucetIInv, FaucetTypeOK, BackendAssumption
<1>7. \A t \in last' : t <= clock'
  BY <1>1, <1>4, <1>6 DEF FaucetIInv
<1>8. \A i \in DOMAIN paid' : paid'[i].at <= clock' /\ paid'[i].slips <= slips'
  BY <1>1, <1>5, <1>6 DEF FaucetIInv
<1>9. (\E h \in Handlers : drip'[h] = "submit") =>
        \A i \in DOMAIN paid' : Counted(i)' => clock' - paid'[i].at >= Cooldown
  BY <1>1, <1>5, <1>6 DEF FaucetIInv, Counted
<1>10. (\A h \in Handlers : drip'[h] # "record") =>
         \A i \in DOMAIN paid' : Counted(i)' => \E t \in last' : paid'[i].at <= t
  BY <1>1 DEF FaucetIInv, Counted
<1>11. \A g, h \in Handlers : drip'[g] # "idle" /\ drip'[h] # "idle" => g = h
  BY <1>1 DEF FaucetIInv
<1> QED BY <1>2, <1>3, <1>7, <1>8, <1>9, <1>10, <1>11 DEF FaucetIInv

-----------------------------------------------------------------------------
(* The limiter. *)

LimiterTypeOK ==
  /\ clock \in Nat /\ sweep \in Int
  /\ allowed \in Seq(Nat)
  /\ bucket \in SUBSET [tokens : 0..L!FullAfter, last : 0..clock]

(* What a bucket is worth at a time. *)
Worth(b, now) == L!Least(L!FullAfter, b.tokens + (now - b.last))

(* All that was allowed since a request, and what could be allowed at once  *)
(* with u units, is within a burst and the time gone by.                    *)
Paced(s, now, u) ==
  \A i \in DOMAIN s : /\ s[i] <= now
                      /\ (Len(s) - i + 1) * PerToken + u <= L!FullAfter + (now - s[i])

(* A bucket that is not kept counts as full. *)
LimiterIInv ==
  /\ LimiterTypeOK
  /\ bucket = {} => Paced(allowed, clock, L!FullAfter)
  /\ \A b \in bucket : Paced(allowed, clock, Worth(b, clock))
  /\ L!RequestsAreLimited

LEMMA LimiterUntouched ==
  ASSUME LimiterIInv, UNCHANGED <<clock, sweep, allowed, bucket>>
  PROVE  LimiterIInv'
BY DEF LimiterIInv, LimiterTypeOK, L!RequestsAreLimited

LEMMA FullIsNatural ==
  ASSUME BackendAssumption
  PROVE  L!FullAfter \in Nat /\ PerToken \in Nat /\ Burst * PerToken = L!FullAfter
<1>1. \A a, b \in Nat : a * b \in Nat
  OBVIOUS
<1> QED BY <1>1 DEF L!FullAfter, BackendAssumption

LEMMA WorthType ==
  ASSUME BackendAssumption, LimiterTypeOK, NEW b \in bucket
  PROVE  /\ Worth(b, clock) \in 0..L!FullAfter /\ b.tokens \in 0..L!FullAfter /\ b.last \in 0..clock
         /\ clock - b.last > L!FullAfter => Worth(b, clock) = L!FullAfter
         /\ Worth(b, clock + 1) \in Nat /\ Worth(b, clock + 1) <= Worth(b, clock) + 1
<1>1. L!FullAfter \in Nat /\ clock \in Nat /\ b \in [tokens : 0..L!FullAfter, last : 0..clock]
  BY FullIsNatural DEF LimiterTypeOK
<1>2. b.tokens \in 0..L!FullAfter /\ b.last \in 0..clock
  BY <1>1
<1> QED BY <1>1, <1>2 DEF Worth, L!Least

(* The sweep drops a bucket only once it is full. *)
LEMMA GcLosesNothing ==
  ASSUME BackendAssumption, LimiterIInv
  PROVE  /\ L!Gc(bucket) \in SUBSET bucket
         /\ L!Gc(bucket) = {} => Paced(allowed, clock, L!FullAfter)
<1>1. L!Gc(bucket) \in SUBSET bucket
  BY DEF L!Gc, L!Swept
<1>2. ASSUME L!Gc(bucket) = {}, bucket # {} PROVE Paced(allowed, clock, L!FullAfter)
  <2>1. PICK b \in bucket : TRUE
    BY <1>2
  <2>2. ~ (clock - b.last <= L!FullAfter)
    BY <1>2, <2>1 DEF L!Gc, L!Swept
  <2>3. clock - b.last > L!FullAfter
    BY <2>2, WorthType, FullIsNatural DEF LimiterIInv, LimiterTypeOK
  <2>4. Worth(b, clock) = L!FullAfter
    BY <2>3, WorthType DEF LimiterIInv
  <2> QED BY <2>4 DEF LimiterIInv
<1> QED BY <1>1, <1>2 DEF LimiterIInv

LEMMA SweepTimeType ==
  ASSUME LimiterTypeOK
  PROVE  L!SweepTime \in Int
BY DEF L!SweepTime, LimiterTypeOK

LEMMA OtherAllowed ==
  ASSUME BackendAssumption, LimiterIInv, L!AllowOther
  PROVE  LimiterIInv'
<1>1. bucket' = L!Gc(bucket) /\ sweep' = L!SweepTime /\ UNCHANGED <<clock, allowed>>
  BY DEF L!AllowOther
<1>2. LimiterTypeOK'
  BY <1>1, GcLosesNothing, SweepTimeType DEF LimiterIInv, LimiterTypeOK
<1>3. L!RequestsAreLimited'
  BY <1>1 DEF LimiterIInv, L!RequestsAreLimited
<1> QED BY <1>1, <1>2, <1>3, GcLosesNothing DEF LimiterIInv

(* One more token costs what one token is worth. *)
LEMMA OneMore ==
  ASSUME NEW n \in Int, NEW p \in Nat
  PROVE  (n + 1) * p = n * p + p /\ n * p \in Int
OBVIOUS

LEMMA LaterIsMore ==
  ASSUME NEW m \in Int, NEW f \in Nat, NEW x \in Nat, NEW now \in Nat, NEW later \in Nat,
         NEW u \in Nat, NEW v \in Nat, now <= later, v <= u + (later - now),
         x <= now, m + u <= f + (now - x)
  PROVE  m + v <= f + (later - x) /\ x <= later
<1>1. m <= f + (now - x) - u
  OBVIOUS
<1>2. m + v <= f + (now - x) - u + (u + (later - now))
  BY <1>1
<1> QED BY <1>2

LEMMA PaceKept ==
  ASSUME NEW s \in Seq(Nat), NEW now \in Nat, NEW u \in Nat, NEW later \in Nat, NEW v \in Nat,
         now <= later, v <= u + (later - now), Paced(s, now, u), BackendAssumption
  PROVE  Paced(s, later, v)
<1>1. ASSUME NEW i \in DOMAIN s
      PROVE  /\ s[i] <= later
             /\ (Len(s) - i + 1) * PerToken + v <= L!FullAfter + (later - s[i])
  <2>9. s[i] \in Nat
    BY SeqElement
  <2>8. s[i] \in Nat /\ Len(s) - i + 1 \in Int
    <3>1. Len(s) \in Nat /\ DOMAIN s = 1..Len(s)
      OBVIOUS
    <3> QED BY <2>9, <3>1
  <2>1. /\ s[i] \in Nat /\ s[i] <= now /\ Len(s) - i + 1 \in Int
        /\ (Len(s) - i + 1) * PerToken + u <= L!FullAfter + (now - s[i])
    BY <2>8, Zenon DEF Paced
  <2>2. PICK m \in Int : m = (Len(s) - i + 1) * PerToken
    BY <2>1, OneMore, FullIsNatural
  <2>3. PICK f \in Nat : f = L!FullAfter
    BY FullIsNatural
  <2>4. m + u <= f + (now - s[i])
    BY <2>1, <2>2, <2>3
  <2>5. PICK x \in Nat : x = s[i]
    BY <2>1
  <2>6. x <= now /\ m + u <= f + (now - x)
    BY <2>1, <2>4, <2>5
  <2>7. m + v <= f + (later - x) /\ x <= later
    BY <2>6, LaterIsMore
  <2> QED BY <2>2, <2>3, <2>5, <2>7
<1> QED BY <1>1 DEF Paced

LEMMA PaceAppend ==
  ASSUME NEW s \in Seq(Nat), NEW now \in Nat, NEW u \in Nat, u >= PerToken, u <= L!FullAfter,
         Paced(s, now, u), BackendAssumption
  PROVE  /\ Append(s, now) \in Seq(Nat)
         /\ Paced(Append(s, now), now, u - PerToken)
<1> DEFINE t == Append(s, now)
<1>1. /\ t \in Seq(Nat) /\ Len(s) \in Nat /\ Len(t) = Len(s) + 1
      /\ DOMAIN s = 1..Len(s) /\ DOMAIN t = 1..(Len(s) + 1)
      /\ t[Len(s) + 1] = now /\ \A i \in DOMAIN s : t[i] = s[i] /\ s[i] \in Nat
  OBVIOUS
<1> HIDE DEF t
<1>2. PICK f \in Nat : f = L!FullAfter
  BY FullIsNatural
<1>3. PICK p \in Nat : p = PerToken
  BY FullIsNatural
<1>4. ASSUME NEW i \in DOMAIN t
      PROVE  t[i] <= now /\ (Len(t) - i + 1) * PerToken + (u - PerToken) <= L!FullAfter + (now - t[i])
  <2>1. CASE i \in DOMAIN s
    <3>5. Len(s) - i + 1 \in Int /\ (Len(s) - i + 1) + 1 = Len(t) - i + 1
      <4>1. PICK a \in Nat : a = Len(s)
        BY <1>1, Zenon
      <4>2. Len(t) = a + 1
        BY <1>1, <4>1, Zenon
      <4>3. i \in Nat
        BY <1>1, <2>1
      <4>4. a - i + 1 \in Int /\ (a - i + 1) + 1 = (a + 1) - i + 1
        BY <4>3
      <4> QED BY <4>1, <4>2, <4>4, Zenon
    <3>1. PICK n \in Int : n = Len(s) - i + 1 /\ n + 1 = Len(t) - i + 1
      BY <3>5
    <3>2. PICK m \in Int : m = n * p /\ m + p = (n + 1) * p
      BY OneMore
    <3>3. s[i] \in Nat /\ s[i] <= now /\ m + u <= f + (now - s[i])
      BY <1>1, <1>2, <1>3, <2>1, <3>1, <3>2 DEF Paced
    <3>4. m + p + (u - p) <= f + (now - s[i])
      BY <3>3
    <3> QED BY <1>1, <1>2, <1>3, <2>1, <3>1, <3>2, <3>3, <3>4
  <2>2. CASE i = Len(s) + 1
    <3>1. Len(t) - i + 1 = 1 /\ t[i] = now /\ 1 * p = p
      BY <1>1, <2>2
    <3>2. p + (u - p) <= f + (now - now)
      BY <1>2
    <3> QED BY <1>2, <1>3, <3>1, <3>2
  <2> QED BY <1>1, <2>1, <2>2
<1> QED BY <1>1, <1>4 DEF Paced, t

LEMMA LimitedAppend ==
  ASSUME LimiterIInv, BackendAssumption, NEW u \in Nat, u >= PerToken, u <= L!FullAfter,
         Paced(allowed, clock, u), allowed' = Append(allowed, clock)
  PROVE  L!RequestsAreLimited'
<1>1. clock \in Nat /\ allowed \in Seq(Nat)
  BY DEF LimiterIInv, LimiterTypeOK
<1>2. PICK f \in Nat : f = L!FullAfter /\ f = Burst * PerToken
  BY FullIsNatural
<1>3. PICK p \in Nat : p = PerToken
  BY FullIsNatural
<1>4. /\ Len(allowed) \in Nat /\ Len(allowed') = Len(allowed) + 1
      /\ DOMAIN allowed = 1..Len(allowed) /\ DOMAIN allowed' = 1..(Len(allowed) + 1)
      /\ allowed'[Len(allowed) + 1] = clock
      /\ \A i \in DOMAIN allowed : allowed'[i] = allowed[i] /\ allowed[i] \in Nat
  BY <1>1
<1>5. ASSUME NEW i \in DOMAIN allowed', NEW j \in DOMAIN allowed', i <= j
      PROVE  (j - i + 1) * PerToken <= Burst * PerToken + (allowed'[j] - allowed'[i])
  <2>1. CASE j \in DOMAIN allowed
    <3>1. i \in DOMAIN allowed
      BY <1>4, <1>5, <2>1
    <3> QED BY <1>4, <1>5, <2>1, <3>1 DEF LimiterIInv, L!RequestsAreLimited
  <2>2. CASE j = Len(allowed) + 1 /\ i \in DOMAIN allowed
    <3>1. PICK n \in Int : n = Len(allowed) - i + 1 /\ n + 1 = j - i + 1
      BY <1>4, <2>2
    <3>2. PICK m \in Int : m = n * p /\ m + p = (n + 1) * p
      BY OneMore
    <3>3. m + u <= f + (clock - allowed[i])
      BY <1>2, <1>3, <2>2, <3>1, <3>2 DEF Paced
    <3>4. PICK a \in Nat : a = allowed[i]
      BY <1>4, <2>2
    <3>5. u >= p
      BY <1>3
    <3>6. m + u <= f + (clock - a)
      BY <3>3, <3>4
    <3>7. m + p <= f + (clock - a)
      BY <1>1, <3>5, <3>6
    <3>8. (j - i + 1) * p = m + p
      BY <3>1, <3>2
    <3>9. allowed'[j] = clock /\ allowed'[i] = a
      BY <1>4, <2>2, <3>4
    <3> QED BY <1>2, <1>3, <3>7, <3>8, <3>9
  <2>3. CASE j = Len(allowed) + 1 /\ i = j
    <3>1. j - i + 1 = 1 /\ 1 * p = p /\ p <= f + (clock - clock)
      BY <1>1, <1>2, <1>3, <1>4, <2>3
    <3> QED BY <1>2, <1>3, <1>4, <2>3, <3>1
  <2>4. j \in DOMAIN allowed \/ (j = Len(allowed) + 1 /\ (i \in DOMAIN allowed \/ i = j))
    <3>1. i \in 1..(Len(allowed) + 1) /\ j \in 1..(Len(allowed) + 1) /\ i <= j
      BY <1>4, <1>5
    <3> QED BY <1>4, <3>1
  <2> QED BY <2>1, <2>2, <2>3, <2>4
<1> QED BY <1>5 DEF L!RequestsAreLimited

LEMMA RequestAllowed ==
  ASSUME BackendAssumption, LimiterIInv, L!Allow
  PROVE  LimiterIInv'
<1> DEFINE kept  == L!Gc(bucket)
           b     == IF kept = {} THEN [tokens |-> L!FullAfter, last |-> clock] ELSE CHOOSE x \in kept : TRUE
           units == L!Least(L!FullAfter, b.tokens + (clock - b.last))
           left  == IF units >= PerToken THEN units - PerToken ELSE units
           new   == [tokens |-> left, last |-> clock]
<1>1. /\ bucket' = {new} /\ sweep' = L!SweepTime /\ UNCHANGED clock
      /\ allowed' = IF units >= PerToken THEN Append(allowed, clock) ELSE allowed
  BY DEF L!Allow
<1>2. clock \in Nat /\ L!FullAfter \in Nat /\ PerToken \in Nat /\ allowed \in Seq(Nat)
  BY FullIsNatural DEF LimiterIInv, LimiterTypeOK
<1>3. units \in 0..L!FullAfter /\ Paced(allowed, clock, units)
  <2>1. CASE kept = {}
    <3>1. b.tokens = L!FullAfter /\ b.last = clock
      BY <2>1
    <3>2. units = L!FullAfter
      BY <1>2, <3>1 DEF L!Least
    <3> HIDE DEF units
    <3> QED BY <1>2, <2>1, <3>2, GcLosesNothing
  <2>2. CASE kept # {}
    <3>1. b \in bucket
      BY <2>2, GcLosesNothing
    <3>2. units = Worth(b, clock)
      BY DEF Worth
    <3> HIDE DEF b, units
    <3> QED BY <3>1, <3>2, WorthType DEF LimiterIInv
  <2> QED BY <2>1, <2>2
<1> HIDE DEF units
<1>4. left \in 0..L!FullAfter
  BY <1>2, <1>3
<1>5. PICK f \in Nat : f = L!FullAfter
  BY <1>2
<1>6. Worth(new, clock) = left /\ new \in [tokens : 0..f, last : 0..clock]
  <2>1. left \in 0..f
    BY <1>4, <1>5
  <2> HIDE DEF left
  <2>2. new.tokens = left /\ new.last = clock /\ new \in [tokens : 0..f, last : 0..clock]
    BY <1>2, <2>1
  <2> HIDE DEF new
  <2> QED BY <1>2, <1>5, <2>1, <2>2 DEF Worth, L!Least
<1>7. LimiterTypeOK'
  <2>1. sweep' \in Int
    BY <1>1, SweepTimeType DEF LimiterIInv
  <2>2. allowed' \in Seq(Nat)
    BY <1>1, <1>2
  <2> HIDE DEF new
  <2> QED BY <1>1, <1>2, <1>5, <1>6, <2>1, <2>2 DEF LimiterTypeOK
<1>8. Paced(allowed', clock, left) /\ L!RequestsAreLimited'
  <2>1. CASE units >= PerToken
    <3>1. allowed' = Append(allowed, clock) /\ left = units - PerToken /\ units \in Nat /\ units <= L!FullAfter
      BY <1>1, <1>2, <1>3, <2>1
    <3> HIDE DEF left
    <3> QED BY <1>2, <1>3, <2>1, <3>1, PaceAppend, LimitedAppend
  <2>2. CASE ~ (units >= PerToken)
    <3>1. allowed' = allowed /\ left = units
      BY <1>1, <2>2
    <3> HIDE DEF left
    <3> QED BY <1>3, <3>1 DEF LimiterIInv, L!RequestsAreLimited
  <2> QED BY <2>1, <2>2
<1> HIDE DEF new, left
<1> QED BY <1>1, <1>6, <1>7, <1>8 DEF LimiterIInv

LEMMA LimiterTicks ==
  ASSUME BackendAssumption, LimiterIInv, L!LimitsTick
  PROVE  LimiterIInv'
<1>1. clock' = clock + 1 /\ UNCHANGED <<bucket, sweep, allowed>>
  BY DEF L!LimitsTick
<1>2. clock \in Nat /\ allowed \in Seq(Nat) /\ L!FullAfter \in Nat
  BY FullIsNatural DEF LimiterIInv, LimiterTypeOK
<1>3. LimiterTypeOK'
  <2>1. PICK f \in Nat : f = L!FullAfter
    BY <1>2
  <2>2. [tokens : 0..f, last : 0..clock] \subseteq [tokens : 0..f, last : 0..clock']
    BY <1>1, <1>2
  <2>3. bucket \in SUBSET [tokens : 0..f, last : 0..clock] /\ sweep \in Int
    BY <2>1 DEF LimiterIInv, LimiterTypeOK
  <2> QED BY <1>1, <1>2, <2>1, <2>2, <2>3 DEF LimiterTypeOK
<1>4. L!RequestsAreLimited'
  BY <1>1 DEF LimiterIInv, L!RequestsAreLimited
<1>5. bucket = {} => Paced(allowed, clock + 1, L!FullAfter)
  <2>1. clock + 1 \in Nat /\ clock <= clock + 1
        /\ L!FullAfter <= L!FullAfter + ((clock + 1) - clock)
    BY <1>2
  <2>2. bucket = {} => Paced(allowed, clock, L!FullAfter)
    BY DEF LimiterIInv
  <2> QED BY <1>2, <2>1, <2>2, PaceKept
<1>6. ASSUME NEW b \in bucket PROVE Paced(allowed, clock + 1, Worth(b, clock + 1))
  <2>1. Worth(b, clock) \in Nat /\ Worth(b, clock + 1) \in Nat /\ Worth(b, clock + 1) <= Worth(b, clock) + ((clock + 1) - clock)
    BY <1>2, WorthType DEF LimiterIInv
  <2>2. Paced(allowed, clock, Worth(b, clock)) /\ clock + 1 \in Nat /\ clock <= clock + 1
    BY <1>2 DEF LimiterIInv
  <2>3. PICK u \in Nat, v \in Nat, later \in Nat :
           u = Worth(b, clock) /\ v = Worth(b, clock + 1) /\ later = clock + 1
    BY <2>1, <2>2
  <2>4. clock <= later /\ v <= u + (later - clock) /\ Paced(allowed, clock, u)
    BY <2>1, <2>2, <2>3
  <2>5. Paced(allowed, later, v)
    BY <1>2, <2>4, PaceKept
  <2> QED BY <2>3, <2>5
<1> QED BY <1>1, <1>3, <1>4, <1>5, <1>6 DEF LimiterIInv

LimitsIInv == FaucetIInv /\ LimiterIInv

LEMMA LimitsStart ==
  ASSUME BackendAssumption, L!LimitsInit
  PROVE  LimitsIInv
<1>1. /\ clock = 0 /\ bucket = {} /\ sweep = -SweepEvery /\ allowed = <<>>
      /\ drip = [h \in Handlers |-> "idle"] /\ last = {} /\ paid = <<>> /\ slips = 0
  BY DEF L!LimitsInit
<1>2. paid \in Seq(Payments) /\ DOMAIN paid = {} /\ allowed \in Seq(Nat) /\ DOMAIN allowed = {}
  BY <1>1
<1>3. sweep \in Int
  BY <1>1 DEF BackendAssumption
<1>4. FaucetIInv
  BY <1>1, <1>2 DEF FaucetIInv, FaucetTypeOK, DripStates, L!DripsAreApart
<1>5. LimiterIInv
  BY <1>1, <1>2, <1>3 DEF LimiterIInv, LimiterTypeOK, Paced, L!RequestsAreLimited
<1> QED BY <1>4, <1>5 DEF LimitsIInv

LEMMA LimitsUntouched ==
  ASSUME LimitsIInv, UNCHANGED limits
  PROVE  LimitsIInv'
BY FaucetUntouched, LimiterUntouched DEF LimitsIInv, limits

LEMMA LimitsKept ==
  ASSUME BackendAssumption, LimitsIInv, L!LimitsNext
  PROVE  LimitsIInv'
<1> USE DEF LimitsIInv
<1>1. CASE L!Allow
  BY <1>1, RequestAllowed, FaucetUntouched DEF L!Allow
<1>2. CASE L!AllowOther
  BY <1>2, OtherAllowed, FaucetUntouched DEF L!AllowOther
<1>3. CASE L!FaucetCrash
  BY <1>3, FaucetCrashed, LimiterUntouched DEF L!FaucetCrash
<1>4. CASE L!LimitsTick
  BY <1>4, FaucetTicks, LimiterTicks
<1>5. ASSUME NEW h \in Handlers, L!CheckDrip(h) \/ L!SubmitDrip(h) \/ L!RecordDrip(h)
      PROVE  LimitsIInv'
  <2>1. UNCHANGED <<clock, sweep, allowed, bucket>>
    BY <1>5 DEF L!CheckDrip, L!SubmitDrip, L!RecordDrip
  <2> QED BY <1>5, <2>1, DripChecked, DripSubmitted, DripRecorded, LimiterUntouched
<1> QED BY <1>1, <1>2, <1>3, <1>4, <1>5 DEF L!LimitsNext

-----------------------------------------------------------------------------
(* Ratings. *)

Anyone  == People \cup {"nobody"} \cup {Admins[i] : i \in DOMAIN Admins}
Paid    == {"completed", "resolved"}
Deal    == [status : {"none", "link", "funded", "refunded"} \cup Paid,
            buyer : Anyone, seller : Anyone, arbiter : Anyone]
History == [sellers : SUBSET Anyone, parties : SUBSET Anyone, moves : Nat]
Request == [me : Anyone, of : {"none", "seller", "arbiter"}, deal : Deals \cup {"none"}, view : Deal]
Review  == [seller : Anyone, deal : Deals, buyer : Anyone]
Rating  == [deal : Deals, rater : Anyone]
Arbiter == [status : {"none", "pending", "approved", "rejected"}, ratings : SUBSET Rating]

MarketTypeOK ==
  /\ deals \in [Deals -> Deal] /\ had \in [Deals -> History]
  /\ rate \in [Requests -> Request]
  /\ reviews \in SUBSET Review /\ arbiters \in [People -> Arbiter]

(* Whoever has a role in an escrow is remembered, and they are few. *)
Remembered(d) ==
  /\ IsFiniteSet(had[d].sellers) /\ IsFiniteSet(had[d].parties)
  /\ M!OnChain(d) => /\ {deals[d].buyer, deals[d].seller} \subseteq had[d].parties
                     /\ deals[d].seller \in had[d].sellers

(* A request past its check stays entitled to what it is about to do. *)
Entitled(r) ==
  /\ r.of = "seller" => /\ r.deal \in Deals /\ deals[r.deal].status \in Paid
                        /\ r.me \in had[r.deal].parties /\ r.view.seller \in had[r.deal].sellers
  /\ r.of = "arbiter" => /\ r.deal \in Deals /\ deals[r.deal].status = "resolved"
                         /\ r.me \in had[r.deal].parties

Earned(v) ==
  /\ deals[v.deal].status \in Paid
  /\ v.buyer \in had[v.deal].parties /\ v.seller \in had[v.deal].sellers

EarnedRating(v) == deals[v.deal].status = "resolved" /\ v.rater \in had[v.deal].parties

MarketIInv ==
  /\ MarketTypeOK
  /\ \A d \in Deals : Remembered(d)
  /\ \A q \in Requests : Entitled(rate[q])
  /\ \A v \in reviews : Earned(v)
  /\ \A v, w \in reviews : v.deal = w.deal /\ v.seller = w.seller => v = w
  /\ \A a \in People : \A v \in arbiters[a].ratings : EarnedRating(v)

(* No more of a kind than there are people, when each has one at most. *)
LEMMA OneEach ==
  ASSUME NEW S, NEW T, IsFiniteSet(T), NEW f \in [S -> T],
         \A v, w \in S : f[v] = f[w] => v = w
  PROVE  Cardinality(S) <= Cardinality(T)
<1>1. f \in Injection(S, T)
  BY DEF Injection, IsInjective
<1> QED BY <1>1, FS_Injection

(* The instance counts as its library does. *)
LEMMA SameCount ==
  ASSUME NEW S
  PROVE  M!Cardinality(S) = Cardinality(S)
BY DEF M!Cardinality, Cardinality

LEMMA MarketHolds ==
  ASSUME MarketIInv
  PROVE  M!ReviewsAreBought
<1> SUFFICES ASSUME NEW d \in Deals
    PROVE  LET of      == {v \in reviews : v.deal = d}
               ratings == UNION {{[by |-> v.rater, of |-> a] : v \in {x \in arbiters[a].ratings : x.deal = d}} :
                                 a \in People}
           IN  /\ of # {} => deals[d].status \in {"completed", "resolved"}
               /\ ratings # {} => deals[d].status = "resolved"
               /\ \A v \in of : v.buyer \in had[d].parties /\ v.seller \in had[d].sellers
               /\ M!Cardinality(of) <= M!Cardinality(had[d].sellers)
               /\ \A v \in ratings : v.by \in had[d].parties
               /\ \A a \in People :
                    M!Cardinality({v \in arbiters[a].ratings : v.deal = d}) <= M!Cardinality(had[d].parties)
  BY DEF M!ReviewsAreBought
<1> DEFINE of == {v \in reviews : v.deal = d}
           rated(a) == {v \in arbiters[a].ratings : v.deal = d}
           ratings == UNION {{[by |-> v.rater, of |-> a] : v \in rated(a)} : a \in People}
<1>1. IsFiniteSet(had[d].sellers) /\ IsFiniteSet(had[d].parties)
  BY DEF MarketIInv, Remembered
<1>2. \A v \in of : /\ deals[d].status \in Paid
                    /\ v.buyer \in had[d].parties /\ v.seller \in had[d].sellers
  BY DEF MarketIInv, Earned
<1>3. \A a \in People : \A v \in rated(a) : deals[d].status = "resolved" /\ v.rater \in had[d].parties
  BY DEF MarketIInv, EarnedRating
<1>4. Cardinality(of) <= Cardinality(had[d].sellers)
  <2> DEFINE f == [v \in of |-> v.seller]
  <2>1. f \in [of -> had[d].sellers]
    BY <1>2
  <2>2. \A v, w \in of : f[v] = f[w] => v = w
    BY DEF MarketIInv
  <2> HIDE DEF f, of
  <2> QED BY <1>1, <2>1, <2>2, OneEach
<1>5. ASSUME NEW a \in People PROVE Cardinality(rated(a)) <= Cardinality(had[d].parties)
  <2> DEFINE f == [v \in rated(a) |-> v.rater]
  <2>1. f \in [rated(a) -> had[d].parties]
    BY <1>3
  <2>2. \A v, w \in rated(a) : f[v] = f[w] => v = w
    <3>1. rated(a) \subseteq Rating
      BY DEF MarketIInv, MarketTypeOK, Arbiter
    <3>2. \A v \in rated(a) : v = [deal |-> d, rater |-> f[v]]
      BY <3>1 DEF Rating
    <3> QED BY <3>2
  <2> HIDE DEF f, rated
  <2> QED BY <1>1, <2>1, <2>2, OneEach
<1>6. \A v \in ratings : deals[d].status = "resolved" /\ v.by \in had[d].parties
  BY <1>3
<1>7. \A v \in of : deals[d].status \in {"completed", "resolved"}
  BY <1>2 DEF Paid
<1>8. M!Cardinality(of) <= M!Cardinality(had[d].sellers)
  BY <1>4, SameCount
<1>9. \A a \in People : M!Cardinality(rated(a)) <= M!Cardinality(had[d].parties)
  BY <1>5, SameCount
<1> QED BY <1>2, <1>6, <1>7, <1>8, <1>9

LEMMA MarketUntouched ==
  ASSUME MarketIInv, UNCHANGED market
  PROVE  MarketIInv'
BY DEF MarketIInv, MarketTypeOK, Remembered, Entitled, Earned, EarnedRating, market, M!OnChain

LEMMA MarketStart ==
  ASSUME M!MarketInit
  PROVE  MarketIInv
<1>1. /\ arbiters = [a \in People |-> M!NoArbiter] /\ reviews = {}
      /\ rate = [q \in Requests |-> M!Idle]
      /\ deals = [d \in Deals |-> M!NoDeal]
      /\ had = [d \in Deals |-> [sellers |-> {}, parties |-> {}, moves |-> 0]]
  BY DEF M!MarketInit
<1>2. M!NoArbiter \in Arbiter /\ M!NoArbiter.ratings = {}
  BY DEF M!NoArbiter, Arbiter
<1>3. M!NoDeal \in Deal /\ M!NoDeal.status = "none"
  BY DEF M!NoDeal, M!Nobody, Deal, Anyone
<1>4. M!Idle \in Request /\ M!Idle.of = "none"
  BY <1>3 DEF M!Idle, M!Nobody, Request, Anyone
<1>5. [sellers |-> {}, parties |-> {}, moves |-> 0] \in History
  BY DEF History
<1>6. MarketTypeOK
  BY <1>1, <1>2, <1>3, <1>4, <1>5 DEF MarketTypeOK
<1>7. \A d \in Deals : Remembered(d)
  BY <1>1, <1>3, FS_EmptySet DEF Remembered, M!OnChain
<1> QED BY <1>1, <1>2, <1>4, <1>6, <1>7 DEF MarketIInv, Entitled

(* What is on record of an escrow only grows, and an ending is final. *)
Grows ==
  \A d \in Deals :
    /\ had[d].sellers \subseteq had'[d].sellers /\ had[d].parties \subseteq had'[d].parties
    /\ deals[d].status \in Paid => deals'[d].status = deals[d].status

LEMMA GrowthKeeps ==
  ASSUME MarketIInv, Grows, deals' \in [Deals -> Deal], had' \in [Deals -> History],
         \A d \in Deals : Remembered(d)', UNCHANGED <<rate, reviews, arbiters>>
  PROVE  MarketIInv'
<1>1. MarketTypeOK'
  BY DEF MarketIInv, MarketTypeOK
<1>2. ASSUME NEW q \in Requests PROVE Entitled(rate[q])'
  BY DEF MarketIInv, Entitled, Grows, Paid
<1>3. ASSUME NEW v \in reviews PROVE Earned(v)'
  <2>1. v.deal \in Deals /\ Earned(v)
    BY DEF MarketIInv, MarketTypeOK, Review
  <2>2. deals'[v.deal].status \in Paid
    BY <2>1 DEF Earned, Grows
  <2> QED BY <2>1, <2>2 DEF Earned, Grows
<1>4. ASSUME NEW a \in People, NEW v \in arbiters[a].ratings PROVE EarnedRating(v)'
  <2>1. v.deal \in Deals /\ EarnedRating(v)
    BY DEF MarketIInv, MarketTypeOK, Arbiter, Rating
  <2> QED BY <2>1 DEF EarnedRating, Grows, Paid
<1> QED BY <1>1, <1>2, <1>3, <1>4 DEF MarketIInv

LEMMA MinIsIn ==
  ASSUME NEW S \in SUBSET Nat, S # {}
  PROVE  M!Min(S) \in S
<1>1. \E x \in S : \A y \in S : x <= y
  BY LeastNatural
<1> QED BY <1>1 DEF M!Min

LEMMA LinkMade ==
  ASSUME MarketIInv, BackendAssumption, NEW d \in Deals, NEW w \in People, M!CreateLink(d, w)
  PROVE  MarketIInv'
<1>1. /\ deals[d].status = "none" /\ UNCHANGED <<arbiters, reviews, rate, had>>
      /\ \E a \in M!DefaultArbiters(w) :
           deals' = [deals EXCEPT ![d] = [status |-> "link", buyer |-> "nobody", seller |-> w, arbiter |-> a]]
  BY DEF M!CreateLink, M!Nobody
<1>2. M!DefaultArbiters(w) \subseteq Anyone
  <2> DEFINE rest == {i \in DOMAIN Admins : Admins[i] # w}
  <2>1. rest \in SUBSET Nat
    BY DEF BackendAssumption
  <2>2. rest # {} => M!Min(rest) \in DOMAIN Admins
    BY <2>1, MinIsIn
  <2> QED BY <2>2 DEF M!DefaultArbiters, Anyone
<1>3. PICK a \in Anyone :
        deals' = [deals EXCEPT ![d] = [status |-> "link", buyer |-> "nobody", seller |-> w, arbiter |-> a]]
  BY <1>1, <1>2
<1> DEFINE l == [status |-> "link", buyer |-> "nobody", seller |-> w, arbiter |-> a]
<1>4. l \in Deal /\ l.status = "link"
  BY DEF Deal, Anyone
<1>5. deals \in [Deals -> Deal] /\ had \in [Deals -> History]
  BY DEF MarketIInv, MarketTypeOK
<1>6. deals' = [deals EXCEPT ![d] = l]
  BY <1>3
<1> HIDE DEF l
<1>7. deals' \in [Deals -> Deal] /\ \A e \in Deals : deals'[e] = IF e = d THEN l ELSE deals[e]
  BY <1>4, <1>5, <1>6
<1>8. Grows
  BY <1>1, <1>7 DEF Grows, Paid
<1>9. \A e \in Deals : Remembered(e)'
  BY <1>1, <1>4, <1>7 DEF MarketIInv, Remembered, M!OnChain
<1> QED BY <1>1, <1>5, <1>7, <1>8, <1>9, GrowthKeeps

(* An escrow that becomes another has its roles remembered. *)
LEMMA DealBecomes ==
  ASSUME MarketIInv, NEW d \in Deals, NEW new \in Deal, NEW k \in Nat, M!Become(d, new, k),
         deals[d].status \in Paid => new.status = deals[d].status
  PROVE  MarketIInv'
<1> DEFINE h == [sellers |-> had[d].sellers \cup {new.seller},
                 parties |-> had[d].parties \cup {new.buyer, new.seller},
                 moves |-> had[d].moves + k]
<1>1. deals' = [deals EXCEPT ![d] = new] /\ had' = [had EXCEPT ![d] = h]
      /\ UNCHANGED <<arbiters, reviews, rate>>
  BY DEF M!Become
<1>2. deals \in [Deals -> Deal] /\ had \in [Deals -> History] /\ had[d] \in History
  BY DEF MarketIInv, MarketTypeOK
<1>3. new.buyer \in Anyone /\ new.seller \in Anyone
  BY DEF Deal
<1>4. /\ h \in History /\ h.sellers = had[d].sellers \cup {new.seller}
      /\ h.parties = had[d].parties \cup {new.buyer, new.seller}
  BY <1>2, <1>3 DEF History
<1> HIDE DEF h
<1>5. /\ deals' \in [Deals -> Deal] /\ had' \in [Deals -> History]
      /\ \A e \in Deals : /\ deals'[e] = IF e = d THEN new ELSE deals[e]
                          /\ had'[e] = IF e = d THEN h ELSE had[e]
  BY <1>1, <1>2, <1>4
<1>6. Grows
  BY <1>4, <1>5 DEF Grows
<1>7. ASSUME NEW e \in Deals PROVE Remembered(e)'
  <2>1. CASE e = d
    <3>1. IsFiniteSet(had[d].sellers) /\ IsFiniteSet(had[d].parties)
      BY DEF MarketIInv, Remembered
    <3>2. IsFiniteSet(h.sellers)
      <4>1. IsFiniteSet(had[d].sellers \cup {new.seller})
        BY <3>1, FS_AddElement
      <4> QED BY <1>4, <4>1, Zenon
    <3>3. h.parties = (had[d].parties \cup {new.buyer}) \cup {new.seller}
      BY <1>4
    <3>5. IsFiniteSet(had[d].parties \cup {new.buyer})
      BY <3>1, FS_AddElement
    <3>4. IsFiniteSet(h.parties)
      BY <3>3, <3>5, FS_AddElement
    <3> QED BY <1>4, <1>5, <2>1, <3>2, <3>4 DEF Remembered
  <2>2. CASE e # d
    BY <1>5, <2>2 DEF MarketIInv, Remembered, M!OnChain
  <2> QED BY <2>1, <2>2
<1> QED BY <1>1, <1>5, <1>6, <1>7, GrowthKeeps

LEMMA DealFunded ==
  ASSUME MarketIInv, NEW d \in Deals, NEW w \in People, M!FundDeal(d, w)
  PROVE  MarketIInv'
<1> DEFINE new == [deals[d] EXCEPT !.status = "funded", !.buyer = w]
<1>1. deals[d] \in Deal /\ deals[d].status = "link" /\ M!Become(d, new, 0)
  BY DEF MarketIInv, MarketTypeOK, M!FundDeal
<1>2. new \in Deal
  BY <1>1 DEF Deal, Anyone
<1> HIDE DEF new
<1> QED BY <1>1, <1>2, DealBecomes DEF Paid

LEMMA DealEnded ==
  ASSUME MarketIInv, NEW d \in Deals, NEW ending \in {"completed", "resolved", "refunded"}, M!EndDeal(d, ending)
  PROVE  MarketIInv'
<1> DEFINE new == [deals[d] EXCEPT !.status = ending]
<1>1. deals[d] \in Deal /\ deals[d].status = "funded" /\ M!Become(d, new, 0)
  BY DEF MarketIInv, MarketTypeOK, M!EndDeal
<1>2. new \in Deal
  BY <1>1 DEF Deal, Paid
<1> HIDE DEF new
<1> QED BY <1>1, <1>2, DealBecomes DEF Paid

LEMMA DealRecovered ==
  ASSUME MarketIInv, NEW d \in Deals, NEW old \in People, NEW new \in People, M!RecoverDeal(d, old, new)
  PROVE  MarketIInv'
<1> DEFINE moved(who) == IF who = old THEN new ELSE who
           next == [status |-> deals[d].status, buyer |-> moved(deals[d].buyer),
                    seller |-> moved(deals[d].seller), arbiter |-> moved(deals[d].arbiter)]
<1>1. deals[d] \in Deal /\ M!Become(d, next, 1)
  BY DEF MarketIInv, MarketTypeOK, M!RecoverDeal
<1>2. next \in Deal /\ next.status = deals[d].status
  BY <1>1 DEF Deal, Anyone
<1> HIDE DEF next
<1> QED BY <1>1, <1>2, DealBecomes

(* Who looks at an escrow and finds a role there is entitled. *)
LEMMA LookedAt ==
  ASSUME MarketIInv, NEW q \in Requests, NEW me \in People, NEW of \in {"seller", "arbiter"}, NEW d \in Deals,
         M!Look(q, me, of, d),
         of = "seller" => deals[d].buyer = me /\ deals[d].status \in {"completed", "resolved"},
         of = "arbiter" => deals[d].status = "resolved" /\ me \in {deals[d].buyer, deals[d].seller}
  PROVE  MarketIInv'
<1> DEFINE r == [me |-> me, of |-> of, deal |-> d, view |-> deals[d]]
<1>1. /\ M!OnChain(d) /\ rate' = [rate EXCEPT ![q] = r]
      /\ UNCHANGED <<arbiters, reviews, deals, had>>
  BY DEF M!Look
<1>2. deals[d] \in Deal /\ rate \in [Requests -> Request]
  BY DEF MarketIInv, MarketTypeOK
<1>3. r \in Request /\ r.me = me /\ r.of = of /\ r.deal = d /\ r.view = deals[d]
  BY <1>2 DEF Request, Anyone
<1> HIDE DEF r
<1>4. Entitled(r)
  <2>1. {deals[d].buyer, deals[d].seller} \subseteq had[d].parties /\ deals[d].seller \in had[d].sellers
    BY <1>1 DEF MarketIInv, Remembered
  <2> QED BY <1>3, <2>1 DEF Entitled, Paid
<1>5. rate' \in [Requests -> Request] /\ \A p \in Requests : rate'[p] = IF p = q THEN r ELSE rate[p]
  BY <1>1, <1>2, <1>3
<1>6. \A p \in Requests : Entitled(rate'[p])
  BY <1>4, <1>5 DEF MarketIInv
<1>7. \A p \in Requests : Entitled(rate[p])'
  BY <1>1, <1>6 DEF Entitled
<1>8. MarketTypeOK'
  BY <1>1, <1>5 DEF MarketIInv, MarketTypeOK
<1> QED BY <1>1, <1>7, <1>8 DEF MarketIInv, Remembered, Earned, EarnedRating, M!OnChain

(* The request is done with. *)
LEMMA RequestDone ==
  ASSUME MarketIInv, NEW q \in Requests, rate' = [rate EXCEPT ![q] = M!Idle], UNCHANGED <<deals, had>>
  PROVE  rate' \in [Requests -> Request] /\ \A p \in Requests : Entitled(rate[p])'
<1>1. rate \in [Requests -> Request]
  BY DEF MarketIInv, MarketTypeOK
<1>2. M!Idle \in Request /\ M!Idle.of = "none"
  BY DEF M!Idle, M!NoDeal, M!Nobody, Request, Deal, Anyone
<1>3. rate' \in [Requests -> Request] /\ \A p \in Requests : rate'[p] = IF p = q THEN M!Idle ELSE rate[p]
  BY <1>1, <1>2
<1>4. \A p \in Requests : Entitled(rate'[p])
  BY <1>2, <1>3 DEF MarketIInv, Entitled
<1> QED BY <1>3, <1>4 DEF Entitled

LEMMA SellerRated ==
  ASSUME MarketIInv, NEW q \in Requests, M!RateSeller(q)
  PROVE  MarketIInv'
<1> DEFINE r == rate[q]
           v == [seller |-> r.view.seller, deal |-> r.deal, buyer |-> r.me]
<1>1. /\ r.of = "seller" /\ rate' = [rate EXCEPT ![q] = M!Idle] /\ UNCHANGED <<arbiters, deals, had>>
      /\ reviews' = IF M!Reviewed(r) THEN reviews ELSE reviews \cup {v}
  BY DEF M!RateSeller
<1>2. r \in Request /\ Entitled(r)
  BY DEF MarketIInv, MarketTypeOK
<1>3. v.seller = r.view.seller /\ v.deal = r.deal /\ v.buyer = r.me
  OBVIOUS
<1>4. v \in Review /\ Earned(v)
  BY <1>1, <1>2 DEF Request, Review, Deal, Entitled, Earned
<1> HIDE DEF v, r
<1>5. \A w \in reviews' : w \in Review /\ Earned(w)
  BY <1>1, <1>4 DEF MarketIInv, MarketTypeOK
<1>6. \A u, w \in reviews' : u.deal = w.deal /\ u.seller = w.seller => u = w
  <2>1. CASE M!Reviewed(r)
    BY <1>1, <2>1 DEF MarketIInv
  <2>2. CASE ~ M!Reviewed(r)
    <3>1. \A w \in reviews : ~ (w.seller = v.seller /\ w.deal = v.deal)
      BY <1>3, <2>2 DEF M!Reviewed
    <3> QED BY <1>1, <2>2, <3>1 DEF MarketIInv
  <2> QED BY <2>1, <2>2
<1>7. rate' \in [Requests -> Request] /\ \A p \in Requests : Entitled(rate[p])'
  BY <1>1, RequestDone
<1>8. MarketTypeOK'
  BY <1>1, <1>5, <1>7 DEF MarketIInv, MarketTypeOK
<1>9. \A w \in reviews' : Earned(w)'
  BY <1>1, <1>5 DEF Earned
<1> QED BY <1>1, <1>6, <1>7, <1>8, <1>9 DEF MarketIInv, Remembered, EarnedRating, M!OnChain

(* An arbiter's standing changes, or gains a rating that was earned. *)
LEMMA ArbitersKeep ==
  ASSUME MarketIInv, arbiters' \in [People -> Arbiter],
         \A a \in People : \A v \in arbiters'[a].ratings : v \in arbiters[a].ratings \/ EarnedRating(v),
         rate' \in [Requests -> Request], \A p \in Requests : Entitled(rate[p])',
         UNCHANGED <<reviews, deals, had>>
  PROVE  MarketIInv'
<1>1. MarketTypeOK'
  BY DEF MarketIInv, MarketTypeOK
<1>2. \A a \in People : \A v \in arbiters'[a].ratings : EarnedRating(v)'
  BY DEF MarketIInv, EarnedRating
<1> QED BY <1>1, <1>2 DEF MarketIInv, Remembered, Earned, M!OnChain

LEMMA ArbiterRated ==
  ASSUME MarketIInv, NEW q \in Requests, M!RateArbiter(q)
  PROVE  MarketIInv'
<1> DEFINE r == rate[q]
           a == r.view.arbiter
           v == [deal |-> r.deal, rater |-> r.me]
<1>1. /\ r.of = "arbiter" /\ rate' = [rate EXCEPT ![q] = M!Idle] /\ UNCHANGED <<reviews, deals, had>>
      /\ arbiters' = IF ~M!InMarket(a) \/ M!Rated(r, a) THEN arbiters
                     ELSE [arbiters EXCEPT ![a].ratings = @ \cup {v}]
  BY DEF M!RateArbiter
<1>2. r \in Request /\ Entitled(r) /\ arbiters \in [People -> Arbiter]
  BY DEF MarketIInv, MarketTypeOK
<1>3. v \in Rating /\ EarnedRating(v)
  BY <1>1, <1>2 DEF Request, Rating, Entitled, EarnedRating
<1>4. rate' \in [Requests -> Request] /\ \A p \in Requests : Entitled(rate[p])'
  BY <1>1, RequestDone
<1> HIDE DEF v, a, r
<1>5. CASE M!InMarket(a) /\ arbiters' = [arbiters EXCEPT ![a].ratings = @ \cup {v}]
  <2>1. a \in People /\ arbiters[a] \in Arbiter
    BY <1>2, <1>5 DEF M!InMarket
  <2> DEFINE x == [arbiters[a] EXCEPT !.ratings = @ \cup {v}]
  <2>2. x \in Arbiter /\ x.ratings = arbiters[a].ratings \cup {v}
    BY <1>3, <2>1 DEF Arbiter
  <2>3. arbiters' = [arbiters EXCEPT ![a] = x]
    BY <1>5
  <2> HIDE DEF x
  <2>4. arbiters' \in [People -> Arbiter] /\ \A b \in People : arbiters'[b] = IF b = a THEN x ELSE arbiters[b]
    BY <1>2, <2>1, <2>2, <2>3
  <2> QED BY <1>1, <1>3, <1>4, <2>2, <2>4, ArbitersKeep
<1>6. CASE arbiters' = arbiters
  BY <1>1, <1>2, <1>4, <1>6, ArbitersKeep
<1> QED BY <1>1, <1>5, <1>6

LEMMA StandingChanges ==
  ASSUME MarketIInv, NEW a \in People, NEW s \in {"none", "pending", "approved", "rejected"},
         arbiters' = [arbiters EXCEPT ![a].status = s], UNCHANGED <<rate, reviews, deals, had>>
  PROVE  MarketIInv'
<1> DEFINE x == [arbiters[a] EXCEPT !.status = s]
<1>1. arbiters \in [People -> Arbiter] /\ rate \in [Requests -> Request]
  BY DEF MarketIInv, MarketTypeOK
<1>2. x \in Arbiter /\ x.ratings = arbiters[a].ratings
  BY <1>1 DEF Arbiter
<1>3. arbiters' = [arbiters EXCEPT ![a] = x]
  OBVIOUS
<1> HIDE DEF x
<1>4. arbiters' \in [People -> Arbiter] /\ \A b \in People : arbiters'[b] = IF b = a THEN x ELSE arbiters[b]
  BY <1>1, <1>2, <1>3
<1>5. \A p \in Requests : Entitled(rate[p])'
  BY DEF MarketIInv, Entitled
<1> QED BY <1>1, <1>2, <1>4, <1>5, ArbitersKeep

LEMMA MarketKept ==
  ASSUME BackendAssumption, MarketIInv, M!MarketNext
  PROVE  MarketIInv'
<1>1. ASSUME NEW a \in Applicants, M!ApplyArbiter(a) PROVE MarketIInv'
  <2>1. a \in People /\ arbiters[a] \in Arbiter
    BY DEF BackendAssumption, MarketIInv, MarketTypeOK
  <2>2. PICK s \in {"none", "pending", "approved", "rejected"} :
          s = IF arbiters[a].status \in {"none", "rejected"} THEN "pending" ELSE arbiters[a].status
    BY <2>1 DEF Arbiter
  <2>3. arbiters' = [arbiters EXCEPT ![a].status = s] /\ UNCHANGED <<rate, reviews, deals, had>>
    BY <1>1, <2>2 DEF M!ApplyArbiter
  <2> QED BY <2>1, <2>3, StandingChanges
<1>2. ASSUME NEW a \in Applicants, NEW s \in {"approved", "rejected"}, M!ReviewArbiter(a, s)
      PROVE  MarketIInv'
  <2>1. a \in People
    BY DEF BackendAssumption
  <2>2. arbiters' = [arbiters EXCEPT ![a].status = s] /\ UNCHANGED <<rate, reviews, deals, had>>
    BY <1>2 DEF M!ReviewArbiter
  <2> QED BY <2>1, <2>2, StandingChanges
<1>3. ASSUME NEW d \in Deals, NEW w \in People, M!CreateLink(d, w) \/ M!FundDeal(d, w) PROVE MarketIInv'
  BY <1>3, LinkMade, DealFunded
<1>4. ASSUME NEW d \in Deals, NEW ending \in {"completed", "resolved", "refunded"}, M!EndDeal(d, ending)
      PROVE  MarketIInv'
  BY <1>4, DealEnded
<1>5. ASSUME NEW d \in Deals, NEW old \in People, NEW new \in People, M!RecoverDeal(d, old, new)
      PROVE  MarketIInv'
  BY <1>5, DealRecovered
<1>6. ASSUME NEW d \in Deals, NEW q \in Requests, NEW me \in People,
             M!LookToRateSeller(q, me, d) \/ M!LookToRateArbiter(q, me, d)
      PROVE  MarketIInv'
  <2>1. CASE M!LookToRateSeller(q, me, d)
    BY <2>1, LookedAt DEF M!LookToRateSeller
  <2>2. CASE M!LookToRateArbiter(q, me, d)
    BY <2>2, LookedAt DEF M!LookToRateArbiter
  <2> QED BY <1>6, <2>1, <2>2
<1>7. ASSUME NEW q \in Requests, M!RateSeller(q) \/ M!RateArbiter(q) PROVE MarketIInv'
  BY <1>7, SellerRated, ArbiterRated
<1> QED BY <1>1, <1>2, <1>3, <1>4, <1>5, <1>6, <1>7 DEF M!MarketNext

-----------------------------------------------------------------------------
(* Invites. *)

(* The recursive definition inside Deleted. *)
Kept(F, l, s, x) ==
  F = [n \in 0..l |-> IF n = 0 THEN <<>>
                      ELSE IF s[n] = x THEN F[n - 1] ELSE Append(F[n - 1], s[n])]

LEMMA KeptExists ==
  ASSUME NEW S, NEW l \in Nat, NEW s \in [1..l -> S], NEW x
  PROVE  \E F : Kept(F, l, s, x)
<1> DEFINE V == Seq(S)
           G == [p \in V \X (1..l) |-> IF s[p[2]] = x THEN p[1] ELSE Append(p[1], s[p[2]])]
<1>1. ASSUME NEW t \in V, NEW n \in 1..l PROVE (IF s[n] = x THEN t ELSE Append(t, s[n])) \in V
  <2>1. s[n] \in S
    OBVIOUS
  <2> QED BY <2>1
<1>4. <<>> \in V
  OBVIOUS
<1> HIDE DEF V
<1>2. G \in [V \X (1..l) -> V]
  BY <1>1
<1>3. \A t \in V, n \in 1..l : G[<<t, n>>] = IF s[n] = x THEN t ELSE Append(t, s[n])
  OBVIOUS
<1> HIDE DEF G
<1>5. PICK F \in [0..l -> V] : F[0] = <<>> /\ \A n \in 1..l : F[n] = G[<<F[n - 1], n>>]
  <2>1. Unrolls(l, V, <<>>, G)
    BY <1>2, <1>4, IntervalRecursion
  <2> QED BY <2>1 DEF Unrolls
<1>6. ASSUME NEW n \in 1..l PROVE F[n] = IF s[n] = x THEN F[n - 1] ELSE Append(F[n - 1], s[n])
  <2>2. F[n - 1] \in V /\ F[n] = G[<<F[n - 1], n>>]
    BY <1>5
  <2> QED BY <1>3, <2>2
<1>7. ASSUME NEW n \in 0..l
      PROVE  F[n] = IF n = 0 THEN <<>>
                    ELSE IF s[n] = x THEN F[n - 1] ELSE Append(F[n - 1], s[n])
  <2>1. CASE n = 0
    BY <1>5, <2>1, Zenon
  <2>2. CASE n # 0
    <3>1. n \in 1..l
      BY <2>2
    <3> QED BY <1>6, <2>2, <3>1, Zenon
  <2> QED BY <2>1, <2>2, Zenon
<1>8. F = [n \in 0..l |-> F[n]]
  BY <1>5
<1>9. Kept(F, l, s, x)
  BY <1>7, <1>8 DEF Kept
<1> QED BY <1>9

LEMMA KeptUnfolds ==
  ASSUME NEW l \in Nat, NEW s, NEW x, NEW F, Kept(F, l, s, x)
  PROVE  /\ F[0] = <<>>
         /\ \A n \in 1..l : /\ s[n] = x => F[n] = F[n - 1]
                            /\ s[n] # x => F[n] = Append(F[n - 1], s[n])
<1>1. \A m \in 0..l : F[m] = IF m = 0 THEN <<>>
                             ELSE IF s[m] = x THEN F[m - 1] ELSE Append(F[m - 1], s[m])
  BY DEF Kept
<1>2. 0 \in 0..l /\ \A n \in 1..l : n \in 0..l /\ n # 0
  OBVIOUS
<1> QED BY <1>1, <1>2, Zenon

LEMMA KeptType ==
  ASSUME NEW S, NEW l \in Nat, NEW s \in [1..l -> S], NEW x, NEW F, Kept(F, l, s, x)
  PROVE  \A m \in 0..l : F[m] \in Seq(S)
<1> DEFINE T == {m \in 0..l : F[m] \in Seq(S)}
<1>2. /\ F[0] = <<>>
      /\ \A n \in 1..l : /\ s[n] = x => F[n] = F[n - 1]
                         /\ s[n] # x => F[n] = Append(F[n - 1], s[n])
  BY KeptUnfolds
<1>3. 0 \in T
  <2>1. <<>> \in Seq(S) /\ 0 \in 0..l
    OBVIOUS
  <2> QED BY <1>2, <2>1, Zenon
<1>4. ASSUME NEW m \in 1..l, m - 1 \in T PROVE m \in T
  <2>1. F[m - 1] \in Seq(S) /\ s[m] \in S
    BY <1>4
  <2>2. F[m] = F[m - 1] \/ F[m] = Append(F[m - 1], s[m])
    BY <1>2, Zenon
  <2>3. Append(F[m - 1], s[m]) \in Seq(S)
    BY <2>1
  <2>4. m \in 0..l
    OBVIOUS
  <2> QED BY <2>1, <2>2, <2>3, <2>4, Zenon
<1> HIDE DEF T
<1>5. \A m \in 0..l : m \in T
  BY <1>3, <1>4, IntervalInduction
<1> QED BY <1>5 DEF T

(* What is kept of the first m: the others, each as often as before. *)
KeptWell(F, s, x, m) ==
  /\ Len(F[m]) <= m
  /\ {F[m][i] : i \in DOMAIN F[m]} = {s[i] : i \in 1..m} \ {x}
  /\ I!IsInjective(s) => I!IsInjective(F[m])

LEMMA AppendAdds ==
  ASSUME NEW S, NEW t \in Seq(S), NEW y \in S
  PROVE  /\ Append(t, y) \in Seq(S) /\ Len(t) \in Nat /\ Len(Append(t, y)) = Len(t) + 1
         /\ DOMAIN t = 1..Len(t) /\ DOMAIN Append(t, y) = 1..(Len(t) + 1)
         /\ Append(t, y)[Len(t) + 1] = y /\ \A i \in 1..Len(t) : Append(t, y)[i] = t[i]
OBVIOUS

LEMMA KeptOneMore ==
  ASSUME NEW S, NEW l \in Nat, NEW s \in [1..l -> S], NEW x, NEW F, Kept(F, l, s, x),
         NEW m \in 1..l, KeptWell(F, s, x, m - 1)
  PROVE  KeptWell(F, s, x, m)
<1>1. m - 1 \in 0..l /\ F[m - 1] \in Seq(S) /\ s[m] \in S
  BY KeptType
<1>5. (s[m] = x => F[m] = F[m - 1]) /\ (s[m] # x => F[m] = Append(F[m - 1], s[m]))
  <2>1. \A n \in 1..l : /\ s[n] = x => F[n] = F[n - 1]
                        /\ s[n] # x => F[n] = Append(F[n - 1], s[n])
    BY KeptUnfolds
  <2> QED BY <2>1, Zenon
<1>2. {s[i] : i \in 1..m} = {s[i] : i \in 1..(m - 1)} \cup {s[m]}
  OBVIOUS
<1>3. CASE s[m] = x
  <2>1. F[m] = F[m - 1]
    BY <1>3, <1>5, Zenon
  <2>2. Len(F[m - 1]) <= m
    BY <1>1 DEF KeptWell
  <2>3. {F[m - 1][i] : i \in DOMAIN F[m - 1]} = {s[i] : i \in 1..m} \ {x}
    <3>1. {F[m - 1][i] : i \in DOMAIN F[m - 1]} = {s[i] : i \in 1..(m - 1)} \ {x}
      BY Zenon DEF KeptWell
    <3>2. ({s[i] : i \in 1..(m - 1)} \cup {s[m]}) \ {x} = {s[i] : i \in 1..(m - 1)} \ {x}
      BY <1>3, Zenon
    <3> QED BY <1>2, <3>1, <3>2, Zenon
  <2>4. I!IsInjective(s) => I!IsInjective(F[m - 1])
    BY Zenon DEF KeptWell
  <2> QED BY <2>1, <2>2, <2>3, <2>4, Zenon DEF KeptWell
<1>4. CASE s[m] # x
  <2>9. F[m] = Append(F[m - 1], s[m])
    BY <1>4, <1>5, Zenon
  <2>1. PICK t \in Seq(S) : t = F[m - 1] /\ F[m] = Append(t, s[m])
    BY <1>1, <2>9, Zenon
  <2>2. /\ Len(t) <= m - 1 /\ {t[i] : i \in DOMAIN t} = {s[i] : i \in 1..(m - 1)} \ {x}
        /\ I!IsInjective(s) => I!IsInjective(t)
    BY <2>1 DEF KeptWell
  <2>8. PICK y \in S : y = s[m]
    BY <1>1
  <2>10. Append(t, y) \in Seq(S)
    OBVIOUS
  <2>3. PICK u \in Seq(S) : u = Append(t, y) /\ u = F[m]
    BY <2>1, <2>8, <2>10, Zenon
  <2>4. /\ Len(t) \in Nat /\ Len(u) = Len(t) + 1 /\ DOMAIN t = 1..Len(t) /\ DOMAIN u = 1..(Len(t) + 1)
        /\ u[Len(t) + 1] = s[m] /\ \A i \in 1..Len(t) : u[i] = t[i]
    <3>1. /\ Len(t) \in Nat /\ Len(Append(t, y)) = Len(t) + 1
          /\ DOMAIN t = 1..Len(t) /\ DOMAIN Append(t, y) = 1..(Len(t) + 1)
          /\ Append(t, y)[Len(t) + 1] = y /\ \A i \in 1..Len(t) : Append(t, y)[i] = t[i]
      BY AppendAdds
    <3> QED BY <2>3, <2>8, <3>1, Zenon
  <2>5. {u[i] : i \in DOMAIN u} = {t[i] : i \in DOMAIN t} \cup {s[m]}
    BY <2>4
  <2>6. ASSUME I!IsInjective(s) PROVE I!IsInjective(u)
    <3>1. \A i \in 1..(m - 1) : s[i] # s[m]
      BY <2>6 DEF I!IsInjective
    <3>2. s[m] \notin {t[i] : i \in DOMAIN t}
      BY <2>2, <3>1
    <3>3. \A i \in DOMAIN t : t[i] # s[m]
      BY <3>2
    <3> QED BY <2>2, <2>4, <2>6, <3>3 DEF I!IsInjective
  <2>7. Len(u) <= m
    BY <2>2, <2>4
  <2>11. {u[i] : i \in DOMAIN u} = {s[i] : i \in 1..m} \ {x}
    BY <1>2, <1>4, <2>2, <2>5
  <2> QED BY <2>3, <2>6, <2>7, <2>11 DEF KeptWell
<1> QED BY <1>3, <1>4

(* What is left are the others, each as often as before. *)
LEMMA DeletedLeaves ==
  ASSUME NEW S, NEW s \in Seq(S), NEW x
  PROVE  /\ I!Deleted(s, x) \in Seq(S) /\ Len(I!Deleted(s, x)) <= Len(s)
         /\ I!ToSet(I!Deleted(s, x)) = I!ToSet(s) \ {x}
         /\ I!IsInjective(s) => I!IsInjective(I!Deleted(s, x))
<1>1. PICK l \in Nat : l = Len(s) /\ s \in [1..l -> S]
  OBVIOUS
<1> DEFINE F == CHOOSE f : Kept(f, l, s, x)
<1>2. I!Deleted(s, x) = F[l]
  BY <1>1 DEF I!Deleted, Kept
<1>3. Kept(F, l, s, x)
  BY <1>1, KeptExists
<1> HIDE DEF F
<1> DEFINE T == {m \in 0..l : KeptWell(F, s, x, m)}
<1>4. F[0] = <<>> /\ \A m \in 0..l : F[m] \in Seq(S)
  BY <1>1, <1>3, KeptUnfolds, KeptType
<1>5. KeptWell(F, s, x, 0)
  BY <1>4 DEF KeptWell, I!IsInjective
<1>6. 0 \in T
  BY <1>5
<1>7. ASSUME NEW m \in 1..l, m - 1 \in T PROVE m \in T
  <2>1. KeptWell(F, s, x, m)
    BY <1>1, <1>3, <1>7, KeptOneMore
  <2> QED BY <2>1
<1> HIDE DEF T
<1>8. \A m \in 0..l : m \in T
  BY <1>6, <1>7, IntervalInduction
<1>9. KeptWell(F, s, x, l)
  BY <1>8 DEF T
<1>10. I!ToSet(F[l]) = {F[l][i] : i \in DOMAIN F[l]} /\ I!ToSet(s) = {s[i] : i \in 1..l}
  BY <1>1 DEF I!ToSet
<1>11. F[l] \in Seq(S)
  BY <1>4
<1>12. /\ Len(F[l]) <= Len(s) /\ I!ToSet(F[l]) = I!ToSet(s) \ {x}
       /\ I!IsInjective(s) => I!IsInjective(F[l])
  BY <1>1, <1>9, <1>10 DEF KeptWell
<1> QED BY <1>2, <1>11, <1>12, Zenon

Owners == Wallets \cup {"none"}
Draft  == [organizer : Owners, options : Options \cup {"none"}, slots : Nat, members : Seq(Wallets),
           status : {"none", "open", "started", "cancelled"}, pool : Pools \cup {"none"}]
Circle == [creator : Owners, options : Options \cup {"none"}, members : Seq(Wallets)]
Answer == [draft : Drafts \cup {"none"}, pool : Pools \cup {"none"}, view : Circle]

InvitesTypeOK ==
  /\ drafts \in [Drafts -> Draft] /\ pools \in [Pools -> Circle]
  /\ look \in [Wallets -> Answer]
  /\ agreed \in [Drafts -> SUBSET Wallets] /\ past \in [Pools -> SUBSET Circle]

(* What a draft shows is what was agreed to and what the chain has had. *)
Agreed(d) ==
  LET x == drafts[d]
  IN  x.status # "none" =>
        /\ I!IsInjective(x.members) /\ Len(x.members) <= x.slots
        /\ I!ToSet(x.members) = {x.organizer} \cup agreed[d]
        /\ x.status = "started" =>
             [creator |-> x.organizer, options |-> x.options, members |-> x.members] \in past[x.pool]

(* Answers of the node are about pools there have been. *)
InvitesIInv ==
  /\ InvitesTypeOK
  /\ \A d \in Drafts : Agreed(d)
  /\ \A d \in Drafts : drafts[d].status = "none" => agreed[d] = {}
  /\ \A d \in Drafts : drafts[d].status = "started" => drafts[d].pool \in Pools
  /\ \A w \in Wallets : look[w] # I!NoLook =>
       look[w].draft \in Drafts /\ look[w].pool \in Pools /\ look[w].view \in past[look[w].pool]
  /\ \A p \in Pools : pools[p] # I!NoPool => pools[p] \in past[p]

LEMMA InvitesHold ==
  ASSUME InvitesIInv
  PROVE  I!CircleHasJoinedMembers
BY DEF InvitesIInv, Agreed, I!CircleHasJoinedMembers

LEMMA InvitesUntouched ==
  ASSUME InvitesIInv, UNCHANGED invites
  PROVE  InvitesIInv'
BY DEF InvitesIInv, InvitesTypeOK, Agreed, invites

LEMMA NoDraftIs ==
  /\ I!NoDraft \in Draft /\ I!NoDraft.status = "none"
  /\ I!NoPool \in Circle
  /\ I!NoLook \in Answer
<1>1. <<>> \in Seq(Wallets)
  OBVIOUS
<1>2. I!NoPool \in Circle
  BY <1>1 DEF I!NoPool, Circle, Owners
<1> QED BY <1>1, <1>2 DEF I!NoDraft, I!NoLook, Draft, Answer, Owners

LEMMA InvitesStart ==
  ASSUME I!InvitesInit
  PROVE  InvitesIInv
<1>1. /\ drafts = [d \in Drafts |-> I!NoDraft] /\ look = [w \in Wallets |-> I!NoLook]
      /\ pools = [p \in Pools |-> I!NoPool]
      /\ agreed = [d \in Drafts |-> {}] /\ past = [p \in Pools |-> {}]
  BY DEF I!InvitesInit
<1>2. InvitesTypeOK
  BY <1>1, NoDraftIs DEF InvitesTypeOK
<1> QED BY <1>1, <1>2, NoDraftIs DEF InvitesIInv, Agreed

(* One draft changes, and who agreed to it. *)
LEMMA DraftChanges ==
  ASSUME InvitesIInv, NEW d \in Drafts, NEW x \in Draft, NEW g \in SUBSET Wallets,
         drafts' = [drafts EXCEPT ![d] = x], agreed' = [agreed EXCEPT ![d] = g],
         x.status # "none",
         I!IsInjective(x.members), Len(x.members) <= x.slots,
         I!ToSet(x.members) = {x.organizer} \cup g,
         x.status = "started" =>
           /\ x.pool \in Pools
           /\ [creator |-> x.organizer, options |-> x.options, members |-> x.members] \in past[x.pool],
         UNCHANGED <<pools, past>>, look' \in [Wallets -> Answer],
         \A w \in Wallets : look'[w] = look[w] \/ look'[w] = I!NoLook
  PROVE  InvitesIInv'
<1>1. /\ drafts \in [Drafts -> Draft] /\ agreed \in [Drafts -> SUBSET Wallets]
      /\ pools \in [Pools -> Circle] /\ past \in [Pools -> SUBSET Circle]
  BY DEF InvitesIInv, InvitesTypeOK
<1>2. /\ drafts' \in [Drafts -> Draft] /\ agreed' \in [Drafts -> SUBSET Wallets]
      /\ \A e \in Drafts : /\ drafts'[e] = IF e = d THEN x ELSE drafts[e]
                           /\ agreed'[e] = IF e = d THEN g ELSE agreed[e]
  BY <1>1
<1>3. InvitesTypeOK'
  BY <1>1, <1>2 DEF InvitesTypeOK
<1>4. ASSUME NEW e \in Drafts PROVE Agreed(e)'
  <2>1. CASE e = d
    <3>1. drafts'[e] = x /\ agreed'[e] = g /\ past' = past
      BY <1>2, <2>1
    <3> QED BY <3>1 DEF Agreed
  <2>2. CASE e # d
    <3>1. drafts'[e] = drafts[e] /\ agreed'[e] = agreed[e] /\ past' = past /\ Agreed(e)
      BY <1>2, <2>2 DEF InvitesIInv
    <3> QED BY <3>1 DEF Agreed
  <2> QED BY <2>1, <2>2
<1>5. \A e \in Drafts : /\ drafts'[e].status = "none" => agreed'[e] = {}
                        /\ drafts'[e].status = "started" => drafts'[e].pool \in Pools
  BY <1>2 DEF InvitesIInv
<1>6. \A w \in Wallets : look'[w] # I!NoLook =>
        look'[w].draft \in Drafts /\ look'[w].pool \in Pools /\ look'[w].view \in past'[look'[w].pool]
  BY DEF InvitesIInv
<1>7. \A p \in Pools : pools'[p] # I!NoPool => pools'[p] \in past'[p]
  BY DEF InvitesIInv
<1> QED BY <1>3, <1>4, <1>5, <1>6, <1>7 DEF InvitesIInv

LEMMA DraftCreated ==
  ASSUME InvitesIInv, BackendAssumption, NEW d \in Drafts, NEW me \in Wallets, NEW o \in Options, NEW n \in Slots,
         I!CreateDraft(d, me, o, n)
  PROVE  InvitesIInv'
<1> DEFINE x == [organizer |-> me, options |-> o, slots |-> n,
                 members |-> <<me>>, status |-> "open", pool |-> "none"]
<1>1. drafts[d].status = "none" /\ drafts' = [drafts EXCEPT ![d] = x] /\ UNCHANGED <<look, pools, agreed, past>>
  BY DEF I!CreateDraft
<1>2. <<me>> \in Seq(Wallets) /\ Len(<<me>>) = 1 /\ I!ToSet(<<me>>) = {me} /\ I!IsInjective(<<me>>)
  BY DEF I!ToSet, I!IsInjective
<1>3. n \in Nat /\ 1 <= n
  BY DEF BackendAssumption
<1>4. /\ x \in Draft /\ x.organizer = me /\ x.slots = n /\ x.members = <<me>> /\ x.status = "open"
  BY <1>2, <1>3 DEF Draft, Owners
<1> HIDE DEF x
<1>5. agreed[d] = {} /\ agreed \in [Drafts -> SUBSET Wallets] /\ look \in [Wallets -> Answer]
  BY <1>1 DEF InvitesIInv, InvitesTypeOK
<1>6. agreed' = [agreed EXCEPT ![d] = agreed[d]] /\ agreed[d] \in SUBSET Wallets
  BY <1>1, <1>5
<1>7. /\ I!IsInjective(x.members) /\ Len(x.members) <= x.slots
      /\ I!ToSet(x.members) = {x.organizer} \cup agreed[d]
  BY <1>2, <1>3, <1>4, <1>5
<1>8. x.status # "none" /\ x.status # "started" /\ look' \in [Wallets -> Answer]
      /\ \A w \in Wallets : look'[w] = look[w] \/ look'[w] = I!NoLook
  BY <1>1, <1>4, <1>5
<1> QED BY <1>1, <1>4, <1>6, <1>7, <1>8, DraftChanges

(* An open draft gets other members. *)
LEMMA MembersChange ==
  ASSUME InvitesIInv, NEW d \in Drafts, NEW ms \in Seq(Wallets), NEW g \in SUBSET Wallets,
         drafts[d].status = "open",
         drafts' = [drafts EXCEPT ![d] = I!WithMembers(d, ms)], agreed' = [agreed EXCEPT ![d] = g],
         I!IsInjective(ms), Len(ms) <= drafts[d].slots, I!ToSet(ms) = {drafts[d].organizer} \cup g,
         UNCHANGED <<look, pools, past>>
  PROVE  InvitesIInv'
<1> DEFINE x == I!WithMembers(d, ms)
<1>1. drafts[d] \in Draft /\ look \in [Wallets -> Answer]
  BY DEF InvitesIInv, InvitesTypeOK
<1>2. /\ x \in Draft /\ x.members = ms /\ x.organizer = drafts[d].organizer /\ x.slots = drafts[d].slots
      /\ x.status = "open"
  BY <1>1 DEF I!WithMembers, Draft
<1> HIDE DEF x
<1>3. drafts' = [drafts EXCEPT ![d] = x]
  BY DEF x
<1>4. \A w \in Wallets : look'[w] = look[w]
  OBVIOUS
<1>5. /\ I!IsInjective(x.members) /\ Len(x.members) <= x.slots
      /\ I!ToSet(x.members) = {x.organizer} \cup g /\ x.status # "none" /\ x.status # "started"
  BY <1>2
<1> QED BY <1>1, <1>2, <1>3, <1>4, <1>5, DraftChanges

LEMMA MembersAre ==
  ASSUME InvitesIInv, NEW d \in Drafts
  PROVE  /\ drafts[d] \in Draft /\ drafts[d].members \in Seq(Wallets) /\ drafts[d].slots \in Nat
         /\ agreed[d] \in SUBSET Wallets /\ agreed \in [Drafts -> SUBSET Wallets]
         /\ drafts \in [Drafts -> Draft]
         /\ drafts[d].status = "open" =>
              /\ I!IsInjective(drafts[d].members) /\ Len(drafts[d].members) <= drafts[d].slots
              /\ I!ToSet(drafts[d].members) = {drafts[d].organizer} \cup agreed[d]
<1>1. drafts[d] \in Draft /\ agreed \in [Drafts -> SUBSET Wallets] /\ drafts \in [Drafts -> Draft]
  BY DEF InvitesIInv, InvitesTypeOK
<1>2. Agreed(d)
  BY DEF InvitesIInv
<1> QED BY <1>1, <1>2 DEF Draft, Agreed

LEMMA AppendNew ==
  ASSUME NEW S, NEW t \in Seq(S), NEW y \in S, I!IsInjective(t), \A i \in DOMAIN t : t[i] # y
  PROVE  /\ I!IsInjective(Append(t, y))
         /\ I!ToSet(Append(t, y)) = I!ToSet(t) \cup {y}
<1>5. /\ Len(t) \in Nat /\ DOMAIN t = 1..Len(t) /\ DOMAIN Append(t, y) = 1..(Len(t) + 1)
      /\ Append(t, y)[Len(t) + 1] = y /\ \A i \in 1..Len(t) : Append(t, y)[i] = t[i]
  BY AppendAdds
<1>8. PICK n \in Nat : n = Len(t)
  BY <1>5, Zenon
<1>9. PICK u : u = Append(t, y)
  OBVIOUS
<1>6. n = Len(t) /\ u = Append(t, y)
  BY <1>8, <1>9
<1>1. DOMAIN t = 1..n /\ DOMAIN u = 1..(n + 1) /\ u[n + 1] = y /\ \A i \in 1..n : u[i] = t[i]
  BY <1>5, <1>6, Zenon
<1>2. \A i \in DOMAIN u : i \in DOMAIN t \/ i = n + 1
  BY <1>1
<1>3. \A i, j \in DOMAIN u : u[i] = u[j] => i = j
  BY <1>1, <1>2 DEF I!IsInjective
<1>4. {u[i] : i \in DOMAIN u} = {t[i] : i \in DOMAIN t} \cup {y}
  <2>1. \A i \in DOMAIN t : i \in DOMAIN u /\ u[i] = t[i]
    BY <1>1
  <2>2. n + 1 \in DOMAIN u /\ u[n + 1] = y
    BY <1>1
  <2> QED BY <1>2, <2>1, <2>2
<1>7. I!IsInjective(u) /\ I!ToSet(u) = I!ToSet(t) \cup {y}
  BY <1>3, <1>4 DEF I!IsInjective, I!ToSet
<1> QED BY <1>6, <1>7, Zenon

LEMMA DraftJoined ==
  ASSUME InvitesIInv, NEW d \in Drafts, NEW me \in Wallets, I!JoinDraft(d, me)
  PROVE  InvitesIInv'
<1> DEFINE ms == drafts[d].members
           g  == agreed[d] \cup {me}
<1>1. drafts[d].status = "open" /\ agreed' = [agreed EXCEPT ![d] = g] /\ UNCHANGED <<look, pools, past>>
  BY DEF I!JoinDraft
<1>2. /\ drafts[d] \in Draft /\ ms \in Seq(Wallets) /\ drafts[d].slots \in Nat /\ g \in SUBSET Wallets
      /\ drafts \in [Drafts -> Draft]
      /\ I!IsInjective(ms) /\ Len(ms) <= drafts[d].slots
      /\ I!ToSet(ms) = {drafts[d].organizer} \cup agreed[d]
  BY <1>1, MembersAre
<1>3. CASE I!Contains(ms, me) /\ UNCHANGED drafts
  <2>1. me \in I!ToSet(ms)
    BY <1>2, <1>3 DEF I!Contains, I!ToSet
  <2>2. I!ToSet(ms) = {drafts[d].organizer} \cup g
    BY <1>2, <2>1
  <2>3. I!WithMembers(d, ms) = drafts[d]
    BY <1>2 DEF I!WithMembers, Draft
  <2>4. drafts' = [drafts EXCEPT ![d] = I!WithMembers(d, ms)]
    BY <1>2, <1>3, <2>3
  <2> HIDE DEF ms, g
  <2> QED BY <1>1, <1>2, <2>2, <2>4, MembersChange
<1>4. CASE ~I!Contains(ms, me) /\ ~I!Full(d) /\ I!ChangeDraft(d, I!WithMembers(d, Append(ms, me)))
  <2> DEFINE as == Append(ms, me)
  <2> HIDE DEF ms
  <2>1. /\ as \in Seq(Wallets) /\ Len(ms) \in Nat /\ Len(as) = Len(ms) + 1
        /\ DOMAIN ms = 1..Len(ms) /\ DOMAIN as = 1..(Len(ms) + 1)
        /\ as[Len(ms) + 1] = me /\ \A i \in 1..Len(ms) : as[i] = ms[i]
    BY <1>2, AppendAdds
  <2> HIDE DEF as, g
  <2>2. \A i \in DOMAIN ms : ms[i] # me
    BY <1>4, <2>1 DEF I!Contains
  <2>3. I!IsInjective(as) /\ I!ToSet(as) = I!ToSet(ms) \cup {me}
    BY <1>2, <2>2, AppendNew DEF as
  <2>5. I!ToSet(as) = {drafts[d].organizer} \cup g
    BY <1>2, <2>3 DEF g
  <2>6. Len(as) <= drafts[d].slots
    BY <1>2, <1>4, <2>1 DEF I!Full, ms
  <2>7. drafts' = [drafts EXCEPT ![d] = I!WithMembers(d, as)]
    BY <1>4 DEF I!ChangeDraft, as
  <2> QED BY <1>1, <1>2, <2>1, <2>3, <2>5, <2>6, <2>7, MembersChange
<1> QED BY <1>3, <1>4 DEF I!JoinDraft

(* Someone other than the organiser is out. *)
LEMMA DraftLeft ==
  ASSUME InvitesIInv, NEW d \in Drafts, NEW who \in Wallets, who # drafts[d].organizer,
         drafts[d].status = "open", I!ChangeDraft(d, I!Without(d, who)),
         agreed' = [agreed EXCEPT ![d] = @ \ {who}], UNCHANGED <<look, pools, past>>
  PROVE  InvitesIInv'
<1> DEFINE ms == drafts[d].members
           g  == agreed[d] \ {who}
           t  == I!Deleted(ms, who)
<1>1. /\ ms \in Seq(Wallets) /\ drafts[d].slots \in Nat /\ g \in SUBSET Wallets
      /\ I!IsInjective(ms) /\ Len(ms) <= drafts[d].slots
      /\ I!ToSet(ms) = {drafts[d].organizer} \cup agreed[d]
  BY MembersAre
<1>2. drafts' = [drafts EXCEPT ![d] = I!WithMembers(d, t)] /\ agreed' = [agreed EXCEPT ![d] = g]
  BY DEF I!ChangeDraft, I!Without
<1> HIDE DEF ms
<1>3. t \in Seq(Wallets) /\ Len(t) <= Len(ms) /\ I!ToSet(t) = I!ToSet(ms) \ {who} /\ I!IsInjective(t)
  BY <1>1, DeletedLeaves
<1> HIDE DEF t
<1>4. I!ToSet(t) = {drafts[d].organizer} \cup g
  BY <1>1, <1>3
<1>5. Len(t) <= drafts[d].slots
  <2>1. Len(t) \in Nat /\ Len(ms) \in Nat
    BY <1>1, <1>3
  <2> QED BY <1>1, <1>3, <2>1
<1> HIDE DEF g
<1> QED BY <1>1, <1>2, <1>3, <1>4, <1>5, MembersChange

LEMMA PermutedIs ==
  ASSUME NEW S, NEW a \in Seq(S), NEW b \in Seq(S), I!SameMembers(a, b), I!IsInjective(b)
  PROVE  I!IsInjective(a) /\ I!ToSet(a) = I!ToSet(b) /\ Len(a) <= Len(b)
<1>1. PICK f \in I!Bijection(DOMAIN a, DOMAIN b) : \A i \in DOMAIN a : a[i] = b[f[i]]
  BY DEF I!SameMembers
<1>2. /\ f \in [DOMAIN a -> DOMAIN b] /\ \A i, j \in DOMAIN a : f[i] = f[j] => i = j
      /\ \A k \in DOMAIN b : \E i \in DOMAIN a : f[i] = k
  BY <1>1 DEF I!Bijection, I!Injection, I!Surjection, I!IsInjective
<1>3. I!IsInjective(a)
  BY <1>1, <1>2 DEF I!IsInjective
<1>4. I!ToSet(a) = I!ToSet(b)
  BY <1>1, <1>2 DEF I!ToSet
<1>5. /\ Len(a) \in Nat /\ Len(b) \in Nat /\ DOMAIN a = 1..Len(a) /\ DOMAIN b = 1..Len(b)
  OBVIOUS
<1>6. /\ IsFiniteSet(DOMAIN b) /\ Cardinality(DOMAIN b) = Len(b)
      /\ IsFiniteSet(DOMAIN a) /\ Cardinality(DOMAIN a) = Len(a)
  <2>1. \A n \in Nat : IsFiniteSet(1..n) /\ Cardinality(1..n) = n
    BY FS_Interval
  <2> QED BY <1>5, <2>1
<1>7. Cardinality(DOMAIN a) <= Cardinality(DOMAIN b)
  BY <1>2, <1>6, OneEach
<1> QED BY <1>3, <1>4, <1>6, <1>7

LEMMA DraftOrdered ==
  ASSUME InvitesIInv, NEW d \in Drafts, NEW me \in Wallets, NEW ms \in Seq(Wallets), I!OrderDraft(d, me, ms)
  PROVE  InvitesIInv'
<1>1. /\ drafts[d].status = "open" /\ drafts' = [drafts EXCEPT ![d] = I!WithMembers(d, ms)]
      /\ I!SameMembers(ms, drafts[d].members) /\ UNCHANGED <<look, pools, agreed, past>>
  BY DEF I!OrderDraft, I!ChangeDraft
<1>2. /\ drafts[d].members \in Seq(Wallets) /\ drafts[d].slots \in Nat
      /\ agreed[d] \in SUBSET Wallets /\ agreed \in [Drafts -> SUBSET Wallets]
      /\ I!IsInjective(drafts[d].members) /\ Len(drafts[d].members) <= drafts[d].slots
      /\ I!ToSet(drafts[d].members) = {drafts[d].organizer} \cup agreed[d]
  BY <1>1, MembersAre
<1>3. I!IsInjective(ms) /\ I!ToSet(ms) = I!ToSet(drafts[d].members) /\ Len(ms) <= Len(drafts[d].members)
  BY <1>1, <1>2, PermutedIs
<1>4. Len(ms) \in Nat /\ Len(drafts[d].members) \in Nat
  BY <1>2
<1>5. Len(ms) <= drafts[d].slots /\ I!ToSet(ms) = {drafts[d].organizer} \cup agreed[d]
  BY <1>2, <1>3, <1>4
<1>6. agreed' = [agreed EXCEPT ![d] = agreed[d]]
  BY <1>1, <1>2
<1> QED BY <1>1, <1>2, <1>3, <1>5, <1>6, MembersChange

LEMMA DraftDeleted ==
  ASSUME InvitesIInv, NEW d \in Drafts, NEW me \in Wallets, I!DeleteDraft(d, me)
  PROVE  InvitesIInv'
<1> DEFINE x == [drafts[d] EXCEPT !.status = "cancelled"]
<1>1. drafts[d].status = "open" /\ drafts' = [drafts EXCEPT ![d] = x] /\ UNCHANGED <<look, pools, agreed, past>>
  BY DEF I!DeleteDraft, I!ChangeDraft
<1>2. /\ drafts[d] \in Draft
      /\ agreed[d] \in SUBSET Wallets /\ agreed \in [Drafts -> SUBSET Wallets]
      /\ I!IsInjective(drafts[d].members) /\ Len(drafts[d].members) <= drafts[d].slots
      /\ I!ToSet(drafts[d].members) = {drafts[d].organizer} \cup agreed[d]
  BY <1>1, MembersAre
<1>3. /\ x \in Draft /\ x.members = drafts[d].members /\ x.organizer = drafts[d].organizer
      /\ x.slots = drafts[d].slots /\ x.status = "cancelled"
  BY <1>2 DEF Draft
<1> HIDE DEF x
<1>4. agreed' = [agreed EXCEPT ![d] = agreed[d]] /\ look \in [Wallets -> Answer]
  BY <1>1, <1>2 DEF InvitesIInv, InvitesTypeOK
<1>5. /\ I!IsInjective(x.members) /\ Len(x.members) <= x.slots
      /\ I!ToSet(x.members) = {x.organizer} \cup agreed[d] /\ x.status # "none" /\ x.status # "started"
  BY <1>2, <1>3
<1> QED BY <1>1, <1>2, <1>3, <1>4, <1>5, DraftChanges

LEMMA PoolLookedAt ==
  ASSUME InvitesIInv, NEW d \in Drafts, NEW me \in Wallets, NEW p \in Pools, I!LookAtPool(d, me, p)
  PROVE  InvitesIInv'
<1> DEFINE l == [draft |-> d, pool |-> p, view |-> pools[p]]
<1>1. pools[p] # I!NoPool /\ look' = [look EXCEPT ![me] = l] /\ UNCHANGED <<drafts, pools, agreed, past>>
  BY DEF I!LookAtPool
<1>2. pools \in [Pools -> Circle] /\ look \in [Wallets -> Answer] /\ pools[p] \in past[p]
  BY <1>1 DEF InvitesIInv, InvitesTypeOK
<1>3. l \in Answer /\ l.draft = d /\ l.pool = p /\ l.view = pools[p]
  BY <1>2 DEF Answer
<1> HIDE DEF l
<1>4. look' \in [Wallets -> Answer] /\ \A w \in Wallets : look'[w] = IF w = me THEN l ELSE look[w]
  BY <1>1, <1>2, <1>3
<1>5. InvitesTypeOK'
  BY <1>1, <1>4 DEF InvitesIInv, InvitesTypeOK
<1>6. \A e \in Drafts : Agreed(e)'
  BY <1>1 DEF InvitesIInv, Agreed
<1>7. \A w \in Wallets : look'[w] # I!NoLook =>
        look'[w].draft \in Drafts /\ look'[w].pool \in Pools /\ look'[w].view \in past'[look'[w].pool]
  BY <1>1, <1>2, <1>3, <1>4 DEF InvitesIInv
<1> QED BY <1>1, <1>5, <1>6, <1>7 DEF InvitesIInv

LEMMA DraftStarted ==
  ASSUME InvitesIInv, NEW me \in Wallets, I!StartedDraft(me)
  PROVE  InvitesIInv'
<1> DEFINE d == look[me].draft
           v == look[me].view
           p == look[me].pool
           x == [drafts[d] EXCEPT !.status = "started", !.pool = p]
           Starts == /\ drafts[d].status = "open"
                     /\ me = drafts[d].organizer /\ v.creator = me
                     /\ I!Matches(v, drafts[d])
<1>1. /\ look[me] # I!NoLook /\ look' = [look EXCEPT ![me] = I!NoLook] /\ UNCHANGED <<pools, agreed, past>>
      /\ IF Starts THEN I!ChangeDraft(d, x) ELSE UNCHANGED drafts
  BY DEF I!StartedDraft
<1>2. /\ d \in Drafts /\ p \in Pools /\ v \in past[p] /\ look \in [Wallets -> Answer]
      /\ past \in [Pools -> SUBSET Circle]
  BY <1>1 DEF InvitesIInv, InvitesTypeOK
<1> HIDE DEF d, v, p
<1>3. look' \in [Wallets -> Answer] /\ \A w \in Wallets : look'[w] = look[w] \/ look'[w] = I!NoLook
  BY <1>1, <1>2, NoDraftIs
<1>4. CASE Starts
  <2>1. /\ drafts[d] \in Draft
        /\ agreed[d] \in SUBSET Wallets /\ agreed \in [Drafts -> SUBSET Wallets]
        /\ I!IsInjective(drafts[d].members) /\ Len(drafts[d].members) <= drafts[d].slots
        /\ I!ToSet(drafts[d].members) = {drafts[d].organizer} \cup agreed[d]
    BY <1>2, <1>4, MembersAre
  <2>2. /\ x \in Draft /\ x.members = drafts[d].members /\ x.organizer = drafts[d].organizer
        /\ x.slots = drafts[d].slots /\ x.status = "started" /\ x.pool = p /\ x.options = drafts[d].options
    BY <1>2, <2>1 DEF Draft
  <2>3. drafts' = [drafts EXCEPT ![d] = x]
    BY <1>1, <1>4 DEF I!ChangeDraft
  <2> HIDE DEF x
  <2>4. v \in Circle
    BY <1>2
  <2>5. v.creator = x.organizer /\ v.options = x.options /\ v.members = x.members
    BY <1>4, <2>2 DEF I!Matches
  <2>6. v = [creator |-> x.organizer, options |-> x.options, members |-> x.members]
    BY <2>4, <2>5 DEF Circle
  <2>7. [creator |-> x.organizer, options |-> x.options, members |-> x.members] \in past[x.pool] /\ x.pool \in Pools
    BY <1>2, <2>2, <2>6
  <2>8. agreed' = [agreed EXCEPT ![d] = agreed[d]]
    BY <1>1, <2>1
  <2>9. /\ I!IsInjective(x.members) /\ Len(x.members) <= x.slots
        /\ I!ToSet(x.members) = {x.organizer} \cup agreed[d] /\ x.status # "none"
    BY <2>1, <2>2
  <2> HIDE DEF Starts
  <2> QED BY <1>1, <1>2, <1>3, <2>1, <2>2, <2>3, <2>7, <2>8, <2>9, DraftChanges
<1>5. CASE ~Starts
  <2>1. UNCHANGED <<drafts, agreed, pools, past>>
    BY <1>1, <1>5
  <2> HIDE DEF Starts
  <2>2. InvitesTypeOK'
    BY <1>3, <2>1 DEF InvitesIInv, InvitesTypeOK
  <2>3. \A e \in Drafts : Agreed(e)'
    BY <2>1 DEF InvitesIInv, Agreed
  <2>4. \A w \in Wallets : look'[w] # I!NoLook =>
          look'[w].draft \in Drafts /\ look'[w].pool \in Pools /\ look'[w].view \in past'[look'[w].pool]
    BY <1>3, <2>1 DEF InvitesIInv
  <2> QED BY <2>1, <2>2, <2>3, <2>4 DEF InvitesIInv
<1> QED BY <1>4, <1>5

(* The chain shows a new state of a pool. *)
LEMMA PoolPut ==
  ASSUME InvitesIInv, NEW p \in Pools, NEW v \in Circle, I!Put(p, v)
  PROVE  InvitesIInv'
<1>1. /\ pools' = [pools EXCEPT ![p] = v] /\ past' = [past EXCEPT ![p] = @ \cup {v}]
      /\ UNCHANGED <<drafts, look, agreed>>
  BY DEF I!Put
<1>2. pools \in [Pools -> Circle] /\ past \in [Pools -> SUBSET Circle]
  BY DEF InvitesIInv, InvitesTypeOK
<1>3. /\ pools' \in [Pools -> Circle] /\ past' \in [Pools -> SUBSET Circle]
      /\ \A q \in Pools : pools'[q] = (IF q = p THEN v ELSE pools[q]) /\ past[q] \subseteq past'[q]
      /\ v \in past'[p]
  BY <1>1, <1>2
<1>4. InvitesTypeOK'
  BY <1>1, <1>3 DEF InvitesIInv, InvitesTypeOK
<1>5. ASSUME NEW e \in Drafts PROVE Agreed(e)'
  <2>1. Agreed(e) /\ (drafts[e].status = "started" => drafts[e].pool \in Pools)
    BY DEF InvitesIInv
  <2>2. drafts'[e] = drafts[e] /\ agreed'[e] = agreed[e]
    BY <1>1
  <2>3. drafts[e].status = "started" => past[drafts[e].pool] \subseteq past'[drafts[e].pool]
    BY <1>3, <2>1
  <2> QED BY <2>1, <2>2, <2>3 DEF Agreed
<1>6. \A w \in Wallets : look'[w] # I!NoLook =>
        look'[w].draft \in Drafts /\ look'[w].pool \in Pools /\ look'[w].view \in past'[look'[w].pool]
  BY <1>1, <1>3 DEF InvitesIInv
<1>7. \A q \in Pools : pools'[q] # I!NoPool => pools'[q] \in past'[q]
  BY <1>3 DEF InvitesIInv
<1> QED BY <1>1, <1>4, <1>5, <1>6, <1>7 DEF InvitesIInv

LEMMA RostersAre ==
  ASSUME BackendAssumption
  PROVE  I!SeqOf(Wallets, I!Cardinality(Wallets)) \subseteq Seq(Wallets)
<1>1. I!Cardinality(Wallets) = Cardinality(Wallets)
  BY DEF I!Cardinality, Cardinality
<1>2. PICK n \in Nat : n = I!Cardinality(Wallets)
  BY <1>1, FS_CardinalityType DEF BackendAssumption
<1>3. ASSUME NEW m \in 0..n, NEW s \in [1..m -> Wallets] PROVE s \in Seq(Wallets)
  OBVIOUS
<1> QED BY <1>2, <1>3 DEF I!SeqOf

LEMMA PoolCreated ==
  ASSUME InvitesIInv, BackendAssumption, NEW p \in Pools, NEW me \in Wallets, NEW o \in Options,
         NEW ms \in I!Rosters, I!CreatePool(p, me, o, ms)
  PROVE  InvitesIInv'
<1> DEFINE v == [creator |-> me, options |-> o, members |-> ms]
<1>1. ms \in Seq(Wallets)
  BY RostersAre DEF I!Rosters
<1>2. v \in Circle
  BY <1>1 DEF Circle, Owners
<1>3. I!Put(p, v)
  BY DEF I!CreatePool
<1> HIDE DEF v
<1> QED BY <1>2, <1>3, PoolPut

LEMMA PoolReseated ==
  ASSUME InvitesIInv, NEW p \in Pools, NEW old \in Wallets, NEW new \in Wallets, I!Reseat(p, old, new)
  PROVE  InvitesIInv'
<1> DEFINE ms == pools[p].members
           us == [i \in DOMAIN ms |-> IF ms[i] = old THEN new ELSE ms[i]]
           v  == [pools[p] EXCEPT !.members = us, !.creator = IF @ = old THEN new ELSE @]
<1>1. pools[p] \in Circle /\ ms \in Seq(Wallets)
  BY DEF InvitesIInv, InvitesTypeOK, Circle
<1>2. us \in Seq(Wallets)
  <2>1. PICK l \in Nat : l = Len(ms) /\ DOMAIN ms = 1..l /\ \A i \in 1..l : ms[i] \in Wallets
    BY <1>1
  <2>2. us \in [1..l -> Wallets]
    BY <2>1
  <2> HIDE DEF us
  <2> QED BY <2>2
<1>3. I!Put(p, v)
  BY DEF I!Reseat
<1> HIDE DEF us
<1>4. v \in Circle
  BY <1>1, <1>2 DEF Circle, Owners
<1> HIDE DEF v
<1> QED BY <1>3, <1>4, PoolPut

LEMMA InvitesKept ==
  ASSUME BackendAssumption, InvitesIInv, I!InvitesNext
  PROVE  InvitesIInv'
<1>1. ASSUME NEW me \in Wallets, NEW d \in Drafts, NEW o \in Options, NEW n \in Slots, I!CreateDraft(d, me, o, n)
      PROVE  InvitesIInv'
  BY <1>1, DraftCreated
<1>2. ASSUME NEW me \in Wallets, NEW d \in Drafts, I!JoinDraft(d, me) \/ I!DeleteDraft(d, me)
      PROVE  InvitesIInv'
  BY <1>2, DraftJoined, DraftDeleted
<1>3. ASSUME NEW me \in Wallets, NEW d \in Drafts, I!LeaveDraft(d, me) PROVE InvitesIInv'
  BY <1>3, DraftLeft DEF I!LeaveDraft
<1>4. ASSUME NEW me \in Wallets, NEW d \in Drafts, NEW who \in Wallets, I!RemoveFromDraft(d, me, who)
      PROVE  InvitesIInv'
  BY <1>4, DraftLeft DEF I!RemoveFromDraft
<1>5. ASSUME NEW me \in Wallets, NEW d \in Drafts, NEW ms \in I!SeqOf(Wallets, I!Cardinality(Wallets)),
             I!OrderDraft(d, me, ms)
      PROVE  InvitesIInv'
  BY <1>5, RostersAre, DraftOrdered
<1>6. ASSUME NEW me \in Wallets, NEW d \in Drafts, NEW p \in Pools, I!LookAtPool(d, me, p) PROVE InvitesIInv'
  BY <1>6, PoolLookedAt
<1>7. ASSUME NEW me \in Wallets, I!StartedDraft(me) PROVE InvitesIInv'
  BY <1>7, DraftStarted
<1>8. ASSUME NEW p \in Pools, NEW me \in Wallets, NEW o \in Options, NEW ms \in I!Rosters, I!CreatePool(p, me, o, ms)
      PROVE  InvitesIInv'
  BY <1>8, PoolCreated
<1>9. ASSUME NEW p \in Pools, NEW old \in Wallets, NEW new \in Wallets, I!Reseat(p, old, new) PROVE InvitesIInv'
  BY <1>9, PoolReseated
<1> QED BY <1>1, <1>2, <1>3, <1>4, <1>5, <1>6, <1>7, <1>8, <1>9 DEF I!InvitesNext

-----------------------------------------------------------------------------
(* Push notifications. *)

Reminders == {"due", "pot"} \X Nat
View      == [status : P!Escrows!Live \cup {"none", "completed", "resolved", "refunded"},
              released : Nat, ship : BOOLEAN]

LifeIs(l) ==
  /\ l.status \in P!Escrows!Live \cup {"none", "completed", "resolved", "refunded"}
  /\ l.released \in Nat /\ l.count \in Nat /\ l.released <= l.count
  /\ l.status = "none" => l.released = 0
  /\ l.status \in P!Escrows!Undisputed => l.released < l.count

(* How far an escrow has come: every change of it is a step ahead, so what  *)
(* a scan finds is never a view that was announced before.                  *)
Stage == [status \in {"none", "funded", "dispatched", "disputed", "completed", "resolved", "refunded"} |->
            IF status = "none" THEN 0 ELSE IF status = "funded" THEN 1
            ELSE IF status = "dispatched" THEN 2 ELSE IF status = "disputed" THEN 3 ELSE 4]
Rank(view) == Stage[view.status] + view.released

Follows(new, old) == new = old \/ Rank(old) < Rank(new)

IsScan(s) ==
  s = [at |-> s.at, txs |-> s.txs, pool |-> s.pool, escrow |-> s.escrow,
       news |-> s.news, to |-> s.to, gone |-> s.gone]

PushTypeOK ==
  /\ months \in Nat /\ txs \in Seq(BOOLEAN) /\ ship \in BOOLEAN
  /\ circle \in [round : Nat, paid : BOOLEAN, full : BOOLEAN, due : BOOLEAN]
  /\ life = [i \in {1} |-> life[1]] /\ LifeIs(life[1])
  /\ life[1] = [status |-> life[1].status, released |-> life[1].released, count |-> life[1].count]
  /\ seen \in [lastTx : Nat, sent : SUBSET Reminders, old : SUBSET Reminders,
               escrow : SUBSET View, primed : BOOLEAN]
  /\ IsScan(scan)

AtMostOne(S) == \A x, y \in S : x = y

(* What the watcher has read is of the chain as it was.                     *)
ScanIsOfChain ==
  scan.at = "read" =>
    /\ scan.txs \in Seq(BOOLEAN) /\ seen.lastTx <= Len(scan.txs) /\ Len(scan.txs) <= Len(txs)
    /\ AtMostOne(scan.pool) /\ \A p \in scan.pool : p.round \in Nat
    /\ AtMostOne(scan.escrow) /\ scan.escrow \subseteq View
    /\ \A e \in scan.escrow : /\ Follows(P!EscrowKey, e)
                              /\ \A p \in seen.escrow : Follows(e, p)

(* What was told is on record: a payment by the last one seen, a reminder   *)
(* of this month by its key, a change of the escrow by a view as late.      *)
MoneyTold(n)  == n[1] = "money" /\ n[2] \in Nat /\ told[n] <= 1 /\ n[2] <= seen.lastTx
CircleTold(n) == /\ n \in Reminders /\ told[n] <= months + 1
                 /\ n \notin seen.sent \ seen.old => told[n] <= months
EscrowTold(n) == /\ n[1] = "escrow" /\ n[2] \in View /\ told[n] <= 1
                 /\ \E p \in seen.escrow : Rank(n[2]) <= Rank(p)

PushIInv ==
  /\ PushTypeOK
  /\ seen.old \subseteq seen.sent /\ seen.lastTx <= Len(txs)
  /\ \A p \in seen.escrow : Follows(P!EscrowKey, p)
  /\ ScanIsOfChain
  /\ \A n \in DOMAIN told : told[n] \in Nat /\ (MoneyTold(n) \/ CircleTold(n) \/ EscrowTold(n))

LEMMA RankType ==
  ASSUME NEW v \in View
  PROVE  Rank(v) \in Nat
BY DEF View, Rank, Stage, P!Escrows!Live, P!Escrows!Undisputed

LEMMA PushHolds ==
  ASSUME PushIInv
  PROVE  P!AnnouncedOnce
<1>1. ASSUME NEW n \in DOMAIN told PROVE told[n] <= IF n[1] \in {"due", "pot"} THEN 1 + months ELSE 1
  <2>1. months \in Nat /\ told[n] \in Nat /\ (MoneyTold(n) \/ CircleTold(n) \/ EscrowTold(n))
    BY DEF PushIInv, PushTypeOK
  <2>2. n \in Reminders => n[1] \in {"due", "pot"}
    BY DEF Reminders
  <2> QED BY <2>1, <2>2 DEF MoneyTold, CircleTold, EscrowTold
<1> QED BY <1>1 DEF P!AnnouncedOnce

LEMMA PushUntouched ==
  ASSUME PushIInv, UNCHANGED <<months, txs, ship, life, circle, seen, scan, told>>
  PROVE  PushIInv'
BY DEF PushIInv, PushTypeOK, ScanIsOfChain, MoneyTold, CircleTold, EscrowTold, IsScan, LifeIs, P!EscrowKey

LEMMA PushStart ==
  ASSUME P!PushInit
  PROVE  PushIInv
<1>1. /\ seen = P!Unscanned /\ scan = P!Resting /\ txs = <<>> /\ life = [i \in {1} |-> P!Escrows!Unborn]
      /\ ship = FALSE /\ months = 0 /\ told = << >>
      /\ circle = [round |-> 0, paid |-> FALSE, full |-> FALSE, due |-> FALSE]
  BY DEF P!PushInit
<1>2. /\ seen.lastTx = 0 /\ seen.sent = {} /\ seen.old = {} /\ seen.escrow = {}
      /\ seen \in [lastTx : Nat, sent : SUBSET Reminders, old : SUBSET Reminders,
                   escrow : SUBSET View, primed : BOOLEAN]
  BY <1>1 DEF P!Unscanned
<1>3. IsScan(scan) /\ scan.at = "idle"
  BY <1>1 DEF P!Resting, IsScan
<1>4. /\ life = [i \in {1} |-> life[1]] /\ LifeIs(life[1])
      /\ life[1] = [status |-> life[1].status, released |-> life[1].released, count |-> life[1].count]
  BY <1>1 DEF LifeIs, P!Escrows!Unborn, P!Escrows!Undisputed
<1>5. txs \in Seq(BOOLEAN) /\ Len(txs) = 0 /\ DOMAIN told = {}
  BY <1>1
<1>6. PushTypeOK
  BY <1>1, <1>2, <1>3, <1>4, <1>5 DEF PushTypeOK
<1> QED BY <1>2, <1>3, <1>5, <1>6 DEF PushIInv, ScanIsOfChain

(* Whatever the watcher does after it has recorded a scan. *)
LEMMA ScanIsOver ==
  ASSUME PushIInv, UNCHANGED <<months, txs, ship, life, circle, seen, told>>, IsScan(scan'), scan'.at # "read"
  PROVE  PushIInv'
<1>1. PushTypeOK'
  BY DEF PushIInv, PushTypeOK, LifeIs
<1>2. ScanIsOfChain'
  BY DEF ScanIsOfChain
<1> QED BY <1>1, <1>2 DEF PushIInv, MoneyTold, CircleTold, EscrowTold, P!EscrowKey

LEMMA RestingIs ==
  IsScan(P!Resting) /\ P!Resting.at = "idle"
BY DEF IsScan, P!Resting

LEMMA ScanStarted ==
  ASSUME PushIInv, P!StartScan
  PROVE  PushIInv'
<1>1. PICK pool \in P!Answers("circle", circle), escrow \in P!Answers("escrow", P!EscrowKey) :
        scan' = [P!Resting EXCEPT !.at = "read", !.txs = txs, !.pool = pool,
                                  !.escrow = {e \in escrow : e.status # "none"}]
  BY DEF P!StartScan
<1>2. pool \in {{}, {circle}} /\ escrow \in {{}, {P!EscrowKey}}
  BY DEF P!Answers
<1>3. /\ IsScan(scan') /\ scan'.at = "read" /\ scan'.txs = txs /\ scan'.pool = pool
      /\ scan'.escrow = {e \in escrow : e.status # "none"}
  BY <1>1 DEF IsScan, P!Resting
<1>4. UNCHANGED <<months, txs, ship, life, circle, seen, told>>
  BY DEF P!StartScan, P!chainView
<1>5. PushTypeOK'
  BY <1>3, <1>4 DEF PushIInv, PushTypeOK, LifeIs
<1>6. P!EscrowKey \in View
  BY DEF PushIInv, PushTypeOK, LifeIs, View, P!EscrowKey
<1>7. P!EscrowKey' = P!EscrowKey
  BY <1>4 DEF P!EscrowKey
<1>8. ScanIsOfChain'
  <2>1. txs \in Seq(BOOLEAN) /\ Len(txs) \in Nat /\ seen.lastTx <= Len(txs)
    BY DEF PushIInv, PushTypeOK
  <2>2. AtMostOne(pool) /\ \A p \in pool : p.round \in Nat
    <3>1. circle.round \in Nat
      BY DEF PushIInv, PushTypeOK
    <3> QED BY <1>2, <3>1 DEF AtMostOne
  <2>3. /\ AtMostOne(scan'.escrow) /\ scan'.escrow \subseteq View
        /\ \A e \in scan'.escrow : e = P!EscrowKey
    BY <1>2, <1>3, <1>6 DEF AtMostOne
  <2>4. \A e \in scan'.escrow : /\ Follows(P!EscrowKey, e)
                                /\ \A p \in seen.escrow : Follows(e, p)
    BY <2>3 DEF PushIInv, Follows
  <2> QED BY <1>3, <1>4, <1>7, <2>1, <2>2, <2>3, <2>4 DEF ScanIsOfChain
<1> QED BY <1>4, <1>5, <1>7, <1>8 DEF PushIInv, MoneyTold, CircleTold, EscrowTold

LEMMA ListedOnce ==
  ASSUME NEW S, IsFiniteSet(S)
  PROVE  P!SetToSeq(S) \in Seq(S)
<1>1. PICK n \in Nat : n = Cardinality(S) /\ ExistsBijection(1..n, S)
  BY FS_CardinalityType
<1>2. PICK f \in Bijection(1..n, S) : TRUE
  BY <1>1 DEF ExistsBijection
<1>3. f \in [1..n -> S] /\ \A i, j \in 1..n : f[i] = f[j] => i = j
  BY DEF Bijection, Injection, IsInjective
<1>4. P!IsInjective(f)
  BY <1>3 DEF P!IsInjective
<1>5. P!Cardinality(S) = n
  BY <1>1 DEF P!Cardinality, Cardinality
<1>6. P!SetToSeq(S) \in [1..n -> S]
  BY <1>3, <1>4, <1>5 DEF P!SetToSeq
<1> QED BY <1>6

(* The recursive definition inside MoneyNews. *)
News(F, l, s, low) ==
  F = [k \in 0..l |-> IF k = 0 THEN <<>>
                      ELSE IF k > low /\ s[k] THEN <<<<"money", k>>>> \o F[k - 1] ELSE F[k - 1]]

PaymentsIn(low, l) == {<<"money", k>> : k \in (low + 1)..l}

LEMMA NewsPrepend ==
  ASSUME NEW low \in Nat, NEW l \in Nat, NEW n \in 1..l, NEW t \in Seq(PaymentsIn(low, l)), n > low
  PROVE  <<<<"money", n>>>> \o t \in Seq(PaymentsIn(low, l))
<1>1. <<"money", n>> \in PaymentsIn(low, l)
  BY DEF PaymentsIn
<1> QED BY <1>1

LEMMA NewsExists ==
  ASSUME NEW l \in Nat, NEW s \in [1..l -> BOOLEAN], NEW low \in Nat
  PROVE  \E F : News(F, l, s, low)
<1> DEFINE V == Seq(PaymentsIn(low, l))
           G == [p \in V \X (1..l) |->
                   IF p[2] > low /\ s[p[2]] THEN <<<<"money", p[2]>>>> \o p[1] ELSE p[1]]
<1>1. ASSUME NEW t \in V, NEW n \in 1..l
      PROVE  (IF n > low /\ s[n] THEN <<<<"money", n>>>> \o t ELSE t) \in V
  <2>1. n > low => <<<<"money", n>>>> \o t \in V
    BY NewsPrepend
  <2> QED BY <2>1, Zenon
<1>4. <<>> \in V
  OBVIOUS
<1> HIDE DEF V
<1>2. G \in [V \X (1..l) -> V]
  BY <1>1
<1>3. \A t \in V, n \in 1..l : G[<<t, n>>] = IF n > low /\ s[n] THEN <<<<"money", n>>>> \o t ELSE t
  OBVIOUS
<1> HIDE DEF G
<1>5. PICK F \in [0..l -> V] : F[0] = <<>> /\ \A n \in 1..l : F[n] = G[<<F[n - 1], n>>]
  <2>1. Unrolls(l, V, <<>>, G)
    BY <1>2, <1>4, IntervalRecursion
  <2> QED BY <2>1 DEF Unrolls
<1>6. ASSUME NEW n \in 1..l
      PROVE  F[n] = IF n > low /\ s[n] THEN <<<<"money", n>>>> \o F[n - 1] ELSE F[n - 1]
  <2>2. F[n - 1] \in V /\ F[n] = G[<<F[n - 1], n>>]
    BY <1>5
  <2> QED BY <1>3, <2>2
<1>7. ASSUME NEW n \in 0..l
      PROVE  F[n] = IF n = 0 THEN <<>>
                    ELSE IF n > low /\ s[n] THEN <<<<"money", n>>>> \o F[n - 1] ELSE F[n - 1]
  <2>1. CASE n = 0
    BY <1>5, <2>1, Zenon
  <2>2. CASE n # 0
    <3>1. n \in 1..l
      BY <2>2
    <3> QED BY <1>6, <2>2, <3>1, Zenon
  <2> QED BY <2>1, <2>2, Zenon
<1>8. F = [n \in 0..l |-> F[n]]
  BY <1>5
<1>9. News(F, l, s, low)
  BY <1>7, <1>8 DEF News
<1> QED BY <1>9

LEMMA NewsType ==
  ASSUME NEW l \in Nat, NEW s \in [1..l -> BOOLEAN], NEW low \in Nat, NEW F, News(F, l, s, low)
  PROVE  F[l] \in Seq(PaymentsIn(low, l))
<1> DEFINE T == {m \in 0..l : F[m] \in Seq(PaymentsIn(low, l))}
<1>1. \A m \in 0..l : F[m] = IF m = 0 THEN <<>>
                             ELSE IF m > low /\ s[m] THEN <<<<"money", m>>>> \o F[m - 1] ELSE F[m - 1]
  BY DEF News
<1>2. 0 \in 0..l /\ l \in 0..l /\ \A n \in 1..l : n \in 0..l /\ n # 0
  OBVIOUS
<1>3. 0 \in T
  <2>1. <<>> \in Seq(PaymentsIn(low, l))
    OBVIOUS
  <2> QED BY <1>1, <1>2, <2>1, Zenon
<1>4. ASSUME NEW m \in 1..l, m - 1 \in T PROVE m \in T
  <2>1. PICK t \in Seq(PaymentsIn(low, l)) : t = F[m - 1]
    BY <1>4
  <2>2. F[m] = IF m > low /\ s[m] THEN <<<<"money", m>>>> \o t ELSE t
    BY <1>1, <1>2, <2>1, Zenon
  <2>3. m > low => <<<<"money", m>>>> \o t \in Seq(PaymentsIn(low, l))
    BY NewsPrepend
  <2> QED BY <1>2, <2>2, <2>3, Zenon
<1> HIDE DEF T
<1>5. \A m \in 0..l : m \in T
  BY <1>3, <1>4, IntervalInduction
<1>6. l \in T
  BY <1>2, <1>5
<1> QED BY <1>6 DEF T

LEMMA MoneyNewsIs ==
  ASSUME scan.txs \in Seq(BOOLEAN), seen.lastTx \in Nat
  PROVE  P!MoneyNews \in Seq(PaymentsIn(seen.lastTx, Len(scan.txs)))
<1>6. PICK l \in Nat, low \in Nat : l = Len(scan.txs) /\ low = seen.lastTx
  OBVIOUS
<1>7. PICK s : s = scan.txs
  OBVIOUS
<1>1. l = Len(scan.txs) /\ low = seen.lastTx /\ s = scan.txs
  BY <1>6, <1>7
<1>2. s \in [1..l -> BOOLEAN]
  BY <1>1
<1> DEFINE F == CHOOSE F : News(F, l, s, low)
<1>3. P!MoneyNews = F[l]
  BY <1>1 DEF P!MoneyNews, News
<1>4. News(F, l, s, low)
  BY <1>2, NewsExists
<1> HIDE DEF F
<1>5. F[l] \in Seq(PaymentsIn(low, l))
  BY <1>2, <1>4, NewsType
<1> QED BY <1>1, <1>3, <1>5

LEMMA RemindersAre ==
  ASSUME AtMostOne(scan.pool), \A p \in scan.pool : p.round \in Nat
  PROVE  P!CircleKeys \subseteq Reminders /\ IsFiniteSet(P!CircleKeys)
<1>1. P!CircleKeys \subseteq Reminders
  BY DEF P!CircleKeys, Reminders
<1>2. CASE scan.pool = {}
  <2>1. P!CircleKeys = {}
    BY <1>2 DEF P!CircleKeys
  <2> QED BY <1>1, <2>1, FS_EmptySet
<1>3. CASE scan.pool # {}
  <2>1. PICK x : scan.pool = {x}
    BY <1>3 DEF AtMostOne
  <2>2. P!CircleKeys \in SUBSET ({<<"due", x.round>>} \cup {<<"pot", x.round>>})
    BY <2>1 DEF P!CircleKeys
  <2>3. IsFiniteSet({<<"due", x.round>>})
    BY FS_Singleton
  <2>4. IsFiniteSet({<<"due", x.round>>} \cup {<<"pot", x.round>>})
    BY <2>3, FS_AddElement
  <2> QED BY <1>1, <2>2, <2>4, FS_Subset
<1> QED BY <1>2, <1>3

(* What a scan may announce. *)
Newsworthy ==
  PaymentsIn(seen.lastTx, Len(scan.txs)) \cup (P!CircleKeys \ seen.sent)
    \cup {<<"escrow", e>> : e \in scan.escrow \ seen.escrow}

LEMMA EscrowNewsIs ==
  ASSUME AtMostOne(scan.escrow)
  PROVE  P!EscrowNews \in Seq({<<"escrow", e>> : e \in scan.escrow \ seen.escrow})
<1> DEFINE changes == {e \in scan.escrow \ seen.escrow : \E prev \in seen.escrow : P!Telling(prev, e)}
           keys == {<<"escrow", e>> : e \in changes}
           all == {<<"escrow", e>> : e \in scan.escrow \ seen.escrow}
<1>1. P!EscrowNews = P!SetToSeq(keys)
  BY DEF P!EscrowNews
<1>2. keys \subseteq all
  OBVIOUS
<1>3. IsFiniteSet(keys)
  <2>1. keys = {} \/ \E k : keys = {k}
    BY DEF AtMostOne
  <2> HIDE DEF keys
  <2>2. CASE keys = {}
    BY <2>2, FS_EmptySet
  <2>3. CASE \E k : keys = {k}
    BY <2>3, FS_Singleton
  <2> QED BY <2>1, <2>2, <2>3
<1>4. P!SetToSeq(keys) \in Seq(keys)
  BY <1>3, ListedOnce
<1>5. Seq(keys) \subseteq Seq(all)
  BY <1>2
<1> HIDE DEF keys, all, changes
<1>6. P!EscrowNews \in Seq(all)
  BY <1>1, <1>4, <1>5
<1> QED BY <1>6 DEF all

LEMMA NewsIs ==
  ASSUME PushIInv, scan.at = "read"
  PROVE  P!MoneyNews \o P!SetToSeq(P!CircleKeys \ seen.sent) \o P!EscrowNews \in Seq(Newsworthy)
<1> DEFINE M1 == PaymentsIn(seen.lastTx, Len(scan.txs))
           M2 == P!CircleKeys \ seen.sent
           M3 == {<<"escrow", e>> : e \in scan.escrow \ seen.escrow}
<1>1. P!MoneyNews \in Seq(M1)
  BY MoneyNewsIs DEF PushIInv, PushTypeOK, ScanIsOfChain
<1>2. P!SetToSeq(M2) \in Seq(M2)
  <2>1. IsFiniteSet(P!CircleKeys)
    BY RemindersAre DEF PushIInv, ScanIsOfChain
  <2>2. IsFiniteSet(M2)
    BY <2>1, FS_Subset
  <2> QED BY <2>2, ListedOnce
<1>3. P!EscrowNews \in Seq(M3)
  BY EscrowNewsIs DEF PushIInv, ScanIsOfChain
<1>4. Newsworthy = M1 \cup M2 \cup M3
  BY DEF Newsworthy
<1> HIDE DEF M1, M3
<1>5. PICK a, b, c : a = P!MoneyNews /\ b = P!SetToSeq(M2) /\ c = P!EscrowNews
  OBVIOUS
<1>6. a \in Seq(Newsworthy) /\ b \in Seq(Newsworthy) /\ c \in Seq(Newsworthy)
  <2> DEFINE M2h == M2
  <2>1. Seq(M1) \subseteq Seq(Newsworthy) /\ Seq(M2) \subseteq Seq(Newsworthy) /\ Seq(M3) \subseteq Seq(Newsworthy)
    BY <1>4
  <2> QED BY <1>1, <1>2, <1>3, <1>5, <2>1
<1> HIDE DEF M2
<1>7. a \o b \o c \in Seq(Newsworthy)
  BY <1>6
<1> QED BY <1>5, <1>7 DEF M2

(* What told is after news of N. *)
LEMMA ToldIs ==
  ASSUME NEW news, NEW N, N = P!ToSet(news), told' = P!Tell(news), \A n \in DOMAIN told : told[n] \in Nat
  PROVE  /\ DOMAIN told' = DOMAIN told \cup N
         /\ \A n \in N : told'[n] = (IF n \in DOMAIN told THEN told[n] ELSE 0) + 1
         /\ \A n \in DOMAIN told \ N : told'[n] = told[n]
<1>1. told' = [n \in DOMAIN told \cup N |-> P!Count(told, n) + IF n \in N THEN 1 ELSE 0]
  BY DEF P!Tell
<1>2. \A n \in DOMAIN told \ N : P!Count(told, n) = told[n] /\ told[n] + 0 = told[n]
  BY DEF P!Count
<1> QED BY <1>1, <1>2 DEF P!Count

LEMMA ScanRecorded ==
  ASSUME PushIInv, P!RecordScan
  PROVE  PushIInv'
<1>1. /\ scan.at = "read" /\ UNCHANGED <<months, txs, ship, life, circle>>
      /\ seen' = [lastTx |-> P!LastSeen, sent |-> (seen.sent \cup P!CircleKeys) \ seen.old, old |-> {},
                  escrow |-> IF scan.escrow = {} THEN seen.escrow ELSE scan.escrow, primed |-> TRUE]
  BY DEF P!RecordScan, P!chainView
<1>2. PICK news, N : /\ told' = P!Tell(news) /\ N = P!ToSet(news)
                     /\ news = <<>> \/ news = P!MoneyNews \o P!SetToSeq(P!CircleKeys \ seen.sent) \o P!EscrowNews
                     /\ scan' = IF news = <<>> THEN P!Resting
                                ELSE [P!Resting EXCEPT !.at = "notify", !.news = news]
  BY DEF P!RecordScan
<1>3. N \subseteq Newsworthy
  <2>2. P!MoneyNews \o P!SetToSeq(P!CircleKeys \ seen.sent) \o P!EscrowNews \in Seq(Newsworthy)
    BY <1>1, NewsIs
  <2>3. <<>> \in Seq(Newsworthy)
    OBVIOUS
  <2>1. news \in Seq(Newsworthy)
    BY <1>2, <2>2, <2>3, Zenon
  <2> QED BY <1>2, <2>1, SeqElement DEF P!ToSet
<1>4. IsScan(scan') /\ scan'.at # "read"
  BY <1>2, RestingIs DEF IsScan, P!Resting
<1>5. /\ seen \in [lastTx : Nat, sent : SUBSET Reminders, old : SUBSET Reminders, escrow : SUBSET View, primed : BOOLEAN]
      /\ months \in Nat /\ seen.old \subseteq seen.sent /\ Len(txs) \in Nat
  BY DEF PushIInv, PushTypeOK
<1>6. /\ scan.txs \in Seq(BOOLEAN) /\ seen.lastTx <= Len(scan.txs) /\ Len(scan.txs) <= Len(txs)
      /\ scan.escrow \subseteq View /\ P!CircleKeys \subseteq Reminders
  BY <1>1, RemindersAre DEF PushIInv, ScanIsOfChain
<1>7. /\ seen'.lastTx = Len(scan.txs) /\ seen'.sent = (seen.sent \cup P!CircleKeys) \ seen.old /\ seen'.old = {}
      /\ seen'.escrow = IF scan.escrow = {} THEN seen.escrow ELSE scan.escrow
      /\ seen'.primed = TRUE
  <2>1. P!LastSeen = Len(scan.txs)
    BY <1>5, <1>6 DEF P!LastSeen
  <2> QED BY <1>1, <2>1
<1>8. PushTypeOK'
  <2>1. seen' \in [lastTx : Nat, sent : SUBSET Reminders, old : SUBSET Reminders, escrow : SUBSET View, primed : BOOLEAN]
    BY <1>1, <1>5, <1>6, <1>7
  <2> QED BY <1>1, <1>4, <2>1 DEF PushIInv, PushTypeOK, LifeIs
<1>9. P!EscrowKey' = P!EscrowKey
  BY <1>1 DEF P!EscrowKey
<1>10. \A p \in seen'.escrow : Follows(P!EscrowKey, p)
  BY <1>1, <1>7 DEF PushIInv, ScanIsOfChain
(* A view that was announced is no later than the one the scan found. *)
<1>11. ASSUME NEW v \in View, NEW p \in seen.escrow, Rank(v) <= Rank(p)
       PROVE  \E q \in seen'.escrow : Rank(v) <= Rank(q)
  <2>1. CASE scan.escrow = {}
    BY <1>7, <1>11, <2>1
  <2>2. CASE scan.escrow # {}
    <3>1. PICK e \in scan.escrow : Follows(e, p)
      BY <1>1, <2>2 DEF PushIInv, ScanIsOfChain
    <3>2. Rank(v) \in Nat /\ Rank(p) \in Nat /\ Rank(e) \in Nat
      BY <1>5, <1>6, RankType
    <3>3. Rank(v) <= Rank(e)
      BY <1>11, <3>1, <3>2 DEF Follows
    <3> QED BY <1>7, <2>2, <3>3
  <2> QED BY <2>1, <2>2
<1>12. /\ DOMAIN told' = DOMAIN told \cup N
       /\ \A n \in N : told'[n] = (IF n \in DOMAIN told THEN told[n] ELSE 0) + 1
       /\ \A n \in DOMAIN told \ N : told'[n] = told[n]
  BY <1>2, ToldIs DEF PushIInv
<1>13. \A n \in DOMAIN told : told[n] \in Nat /\ (MoneyTold(n) \/ CircleTold(n) \/ EscrowTold(n))
  BY DEF PushIInv
<1> DEFINE Fine(n) == told'[n] \in Nat /\ (MoneyTold(n)' \/ CircleTold(n)' \/ EscrowTold(n)')
<1>14. ASSUME NEW n \in DOMAIN told \ N PROVE Fine(n)
  <2>1. told'[n] = told[n] /\ told[n] \in Nat
    BY <1>12, <1>13
  <2>2. CASE MoneyTold(n)
    BY <1>5, <1>6, <1>7, <2>1, <2>2 DEF MoneyTold
  <2>3. CASE CircleTold(n)
    <3>1. n \notin (seen.sent \cup P!CircleKeys) \ seen.old => n \notin seen.sent \ seen.old
      OBVIOUS
    <3> QED BY <1>1, <1>7, <2>1, <2>3, <3>1 DEF CircleTold
  <2>4. CASE EscrowTold(n)
    BY <1>11, <2>1, <2>4 DEF EscrowTold
  <2> QED BY <1>13, <2>2, <2>3, <2>4
<1>15. ASSUME NEW n \in N PROVE Fine(n)
  <2>1. told'[n] = (IF n \in DOMAIN told THEN told[n] ELSE 0) + 1
    BY <1>12
  <2>2. CASE n \in PaymentsIn(seen.lastTx, Len(scan.txs))
    <3>1. PICK k \in (seen.lastTx + 1)..Len(scan.txs) : n = <<"money", k>>
      BY <2>2 DEF PaymentsIn
    <3>2. k \in Nat /\ k > seen.lastTx /\ k <= Len(scan.txs) /\ n[1] = "money" /\ n[2] = k
      BY <1>5, <1>6, <3>1
    <3>3. n \notin DOMAIN told
      BY <1>5, <1>13, <3>2 DEF MoneyTold, CircleTold, EscrowTold, Reminders
    <3>4. told'[n] = 1
      BY <2>1, <3>3
    <3> QED BY <1>7, <3>2, <3>4 DEF MoneyTold
  <2>3. CASE n \in P!CircleKeys \ seen.sent
    <3>1. n \in Reminders /\ n[1] \in {"due", "pot"} /\ n \in seen'.sent /\ n \notin seen'.old
      BY <1>5, <1>6, <1>7, <2>3 DEF Reminders
    <3>2. n \in DOMAIN told => told[n] \in Nat /\ told[n] <= months
      BY <1>13, <2>3, <3>1 DEF MoneyTold, CircleTold, EscrowTold
    <3>3. told'[n] \in Nat /\ told'[n] <= months + 1
      BY <1>5, <2>1, <3>2
    <3> QED BY <1>1, <3>1, <3>3 DEF CircleTold
  <2>4. CASE n \in {<<"escrow", e>> : e \in scan.escrow \ seen.escrow}
    <3>1. PICK e \in scan.escrow \ seen.escrow : n = <<"escrow", e>>
      BY <2>4
    <3>2. n[1] = "escrow" /\ n[2] = e /\ e \in View /\ Rank(e) \in Nat
      BY <1>6, <3>1, RankType
    <3>3. n \notin DOMAIN told
      <4> SUFFICES ASSUME n \in DOMAIN told PROVE FALSE
        OBVIOUS
      <4>1. EscrowTold(n)
        BY <1>13, <3>2 DEF MoneyTold, CircleTold, Reminders
      <4>2. PICK p \in seen.escrow : Rank(e) <= Rank(p)
        BY <3>2, <4>1 DEF EscrowTold
      <4>3. Follows(e, p) /\ e # p /\ Rank(p) \in Nat
        BY <1>1, <1>5, <3>1, RankType DEF PushIInv, ScanIsOfChain
      <4> QED BY <3>2, <4>2, <4>3 DEF Follows
    <3>4. told'[n] = 1
      BY <2>1, <3>3
    <3>5. e \in seen'.escrow /\ Rank(e) <= Rank(e)
      BY <1>7, <3>1, <3>2
    <3> QED BY <3>2, <3>4, <3>5 DEF EscrowTold
  <2> QED BY <1>3, <2>2, <2>3, <2>4 DEF Newsworthy
<1>16. \A n \in DOMAIN told' : Fine(n)
  BY <1>12, <1>14, <1>15
<1>17. ScanIsOfChain'
  BY <1>4 DEF ScanIsOfChain
<1>18. (seen.old \subseteq seen.sent /\ seen.lastTx <= Len(txs))'
  BY <1>1, <1>6, <1>7
<1> QED BY <1>8, <1>9, <1>10, <1>16, <1>17, <1>18 DEF PushIInv

(* Every change of the escrow is a step ahead. *)
LEMMA EscrowAdvances ==
  ASSUME PushIInv, BackendAssumption, P!EscrowMoves
  PROVE  PushIInv'
<1> DEFINE l == life[1]
<1>1. /\ UNCHANGED <<txs, circle, months, seen, scan, told>>
      /\ \/ (\E n \in Counts : P!Escrows!Born(1, n)) /\ UNCHANGED ship
         \/ P!Escrows!Moves(1) /\ ship' = (ship \/ life'[1].status = "dispatched")
  BY DEF P!EscrowMoves, P!Outside
<1>2. /\ LifeIs(l) /\ ship \in BOOLEAN /\ life = [i \in {1} |-> life[1]]
      /\ l = [status |-> l.status, released |-> l.released, count |-> l.count]
  BY DEF PushIInv, PushTypeOK
<1>3. PICK new : /\ life' = [life EXCEPT ![1] = new]
                 /\ new = [status |-> new.status, released |-> new.released, count |-> new.count]
                 /\ LifeIs(new) /\ Stage[l.status] + l.released < Stage[new.status] + new.released
  <2>1. ASSUME NEW n \in Counts, P!Escrows!Born(1, n)
        PROVE  \E new : /\ life' = [life EXCEPT ![1] = new]
                        /\ new = [status |-> new.status, released |-> new.released, count |-> new.count]
                        /\ LifeIs(new) /\ Stage[l.status] + l.released < Stage[new.status] + new.released
    <3> DEFINE b == [status |-> "funded", released |-> 0, count |-> n]
    <3>1. life' = [life EXCEPT ![1] = b] /\ l.status = "none"
      BY <2>1 DEF P!Escrows!Born
    <3>2. n \in Nat /\ 0 < n
      BY DEF BackendAssumption
    <3>3. b.status = "funded" /\ b.released = 0 /\ b.count = n
      OBVIOUS
    <3>4. b = [status |-> b.status, released |-> b.released, count |-> b.count]
      OBVIOUS
    <3> HIDE DEF b
    <3>5. LifeIs(b)
      BY <3>2, <3>3 DEF LifeIs, P!Escrows!Live, P!Escrows!Undisputed
    <3>6. Stage[l.status] + l.released < Stage[b.status] + b.released
      BY <1>2, <3>1, <3>3 DEF LifeIs, Stage
    <3> QED BY <3>1, <3>4, <3>5, <3>6
  <2>2. ASSUME NEW status \in P!Escrows!Live \cup {"completed", "resolved", "refunded"}, NEW released \in Nat,
               P!Escrows!Become(1, status, released), released <= l.count,
               status \in P!Escrows!Undisputed => released < l.count,
               Stage[l.status] + l.released < Stage[status] + released
        PROVE  \E new : /\ life' = [life EXCEPT ![1] = new]
                        /\ new = [status |-> new.status, released |-> new.released, count |-> new.count]
                        /\ LifeIs(new) /\ Stage[l.status] + l.released < Stage[new.status] + new.released
    <3> DEFINE b == [status |-> status, released |-> released, count |-> l.count]
    <3>1. life' = [life EXCEPT ![1] = b]
      BY <2>2 DEF P!Escrows!Become
    <3>3. b.status = status /\ b.released = released /\ b.count = l.count
      OBVIOUS
    <3>4. b = [status |-> b.status, released |-> b.released, count |-> b.count]
      OBVIOUS
    <3> HIDE DEF b
    <3>5. LifeIs(b)
      BY <1>2, <2>2, <3>3 DEF LifeIs, P!Escrows!Live, P!Escrows!Undisputed
    <3> QED BY <2>2, <3>1, <3>3, <3>4, <3>5
  <2>3. ASSUME P!Escrows!Moves(1)
        PROVE  \E status \in P!Escrows!Live \cup {"completed", "resolved", "refunded"}, released \in Nat :
                 /\ P!Escrows!Become(1, status, released) /\ released <= l.count
                 /\ status \in P!Escrows!Undisputed => released < l.count
                 /\ Stage[l.status] + l.released < Stage[status] + released
    <3> USE <1>2 DEF LifeIs, P!Escrows!Live, P!Escrows!Undisputed, Stage
    <3>1. CASE P!Escrows!Dispatched(1)
      BY <3>1 DEF P!Escrows!Dispatched
    <3>2. CASE P!Escrows!Released(1)
      <4>1. /\ l.status \in {"funded", "dispatched"}
            /\ P!Escrows!Become(1, IF l.released + 1 = l.count THEN "completed" ELSE l.status, l.released + 1)
        BY <3>2 DEF P!Escrows!Released
      <4>2. CASE l.released + 1 = l.count
        BY <4>1, <4>2
      <4>3. CASE l.released + 1 # l.count
        <5>1. P!Escrows!Become(1, l.status, l.released + 1)
          BY <4>1, <4>3, Zenon
        <5>2. l.released + 1 \in Nat /\ l.released + 1 < l.count
          BY <4>1, <4>3
        <5>3. Stage[l.status] + l.released < Stage[l.status] + (l.released + 1)
          BY <4>1
        <5> QED BY <4>1, <5>1, <5>2, <5>3
      <4> QED BY <4>2, <4>3
    <3>3. CASE P!Escrows!Disputed(1)
      BY <3>3 DEF P!Escrows!Disputed
    <3>4. CASE P!Escrows!Resolved(1)
      BY <3>4 DEF P!Escrows!Resolved
    <3>5. CASE P!Escrows!Refunded(1)
      BY <3>5 DEF P!Escrows!Refunded
    <3>6. CASE P!Escrows!Claimed(1)
      BY <3>6 DEF P!Escrows!Claimed
    <3> QED BY <2>3, <3>1, <3>2, <3>3, <3>4, <3>5, <3>6 DEF P!Escrows!Moves
  <2> QED BY <1>1, <2>1, <2>2, <2>3
<1>4. life' = [i \in {1} |-> new] /\ life'[1] = new
  BY <1>2, <1>3
<1>5. ship' \in BOOLEAN
  BY <1>1, <1>2
<1>6. PushTypeOK'
  <2>1. LifeIs(life'[1])
    BY <1>3, <1>4
  <2>2. /\ life' = [i \in {1} |-> life'[1]]
        /\ life'[1] = [status |-> life'[1].status, released |-> life'[1].released, count |-> life'[1].count]
    BY <1>3, <1>4
  <2>3. LifeIs(life[1])'
    BY <2>1 DEF LifeIs
  <2> QED BY <1>1, <1>5, <2>2, <2>3 DEF PushIInv, PushTypeOK, IsScan
<1> DEFINE old == P!EscrowKey
<1>7. Rank(old) = Stage[l.status] + l.released /\ Rank(P!EscrowKey') = Stage[new.status] + new.released
  BY <1>4 DEF Rank, P!EscrowKey
<1>8. old \in View /\ Rank(old) \in Nat /\ Rank(P!EscrowKey') \in Nat
  <2>1. old \in View
    BY <1>2 DEF LifeIs, View, P!EscrowKey
  <2>2. P!EscrowKey' \in View
    BY <1>3, <1>4, <1>5 DEF LifeIs, View, P!EscrowKey
  <2> QED BY <2>1, <2>2, RankType
<1>9. Rank(old) < Rank(P!EscrowKey')
  BY <1>3, <1>7
<1> HIDE DEF old
<1>10. ASSUME NEW v \in View, Follows(old, v) PROVE Follows(P!EscrowKey', v)
  <2>1. Rank(v) \in Nat
    BY RankType
  <2>2. Rank(v) < Rank(P!EscrowKey')
    BY <1>8, <1>9, <1>10, <2>1 DEF Follows
  <2> QED BY <2>2 DEF Follows
<1>11. seen.escrow \subseteq View /\ \A p \in seen.escrow : Follows(old, p)
  BY DEF PushIInv, PushTypeOK, old
<1>12. ScanIsOfChain'
  <2>1. scan.at = "read" => scan.escrow \subseteq View /\ \A e \in scan.escrow : Follows(old, e)
    BY DEF PushIInv, ScanIsOfChain, old
  <2> QED BY <1>1, <1>10, <2>1 DEF PushIInv, ScanIsOfChain
<1>13. \A p \in seen.escrow : Follows(P!EscrowKey', p)
  BY <1>10, <1>11
<1> QED BY <1>1, <1>6, <1>12, <1>13 DEF PushIInv, MoneyTold, CircleTold, EscrowTold

LEMMA MonthGone ==
  ASSUME PushIInv, P!MonthPasses
  PROVE  PushIInv'
<1>1. /\ months' = months + 1 /\ seen' = [seen EXCEPT !.old = seen.sent]
      /\ UNCHANGED <<txs, ship, life, circle, scan, told>>
  BY DEF P!MonthPasses, P!chainView
<1>2. months \in Nat /\ seen \in [lastTx : Nat, sent : SUBSET Reminders, old : SUBSET Reminders,
                                  escrow : SUBSET View, primed : BOOLEAN]
  BY DEF PushIInv, PushTypeOK
<1>3. /\ seen'.lastTx = seen.lastTx /\ seen'.sent = seen.sent /\ seen'.old = seen.sent
      /\ seen'.escrow = seen.escrow
      /\ seen' \in [lastTx : Nat, sent : SUBSET Reminders, old : SUBSET Reminders,
                    escrow : SUBSET View, primed : BOOLEAN]
  BY <1>1, <1>2
<1>4. PushTypeOK'
  BY <1>1, <1>2, <1>3 DEF PushIInv, PushTypeOK, IsScan, LifeIs
<1>5. ScanIsOfChain' /\ P!EscrowKey' = P!EscrowKey
  BY <1>1, <1>3 DEF PushIInv, ScanIsOfChain, P!EscrowKey
<1>6. ASSUME NEW n \in DOMAIN told
      PROVE  told[n] \in Nat /\ (MoneyTold(n)' \/ CircleTold(n)' \/ EscrowTold(n)')
  <2>1. told[n] \in Nat /\ (MoneyTold(n) \/ CircleTold(n) \/ EscrowTold(n))
    BY DEF PushIInv
  <2>2. CASE MoneyTold(n)
    BY <1>1, <1>3, <2>1, <2>2 DEF MoneyTold
  <2>3. CASE CircleTold(n)
    <3>1. n \in Reminders /\ told[n] <= months' + 1 /\ told[n] <= months'
      BY <1>1, <1>2, <2>1, <2>3 DEF CircleTold
    <3>2. CircleTold(n)'
      BY <1>1, <3>1 DEF CircleTold
    <3> QED BY <2>1, <3>2
  <2>4. CASE EscrowTold(n)
    BY <1>1, <1>3, <2>1, <2>4 DEF EscrowTold
  <2> QED BY <2>1, <2>2, <2>3, <2>4
<1>7. (\A n \in DOMAIN told : told[n] \in Nat /\ (MoneyTold(n) \/ CircleTold(n) \/ EscrowTold(n)))'
  BY <1>1, <1>6
<1>8. (/\ seen.old \subseteq seen.sent /\ seen.lastTx <= Len(txs)
       /\ \A p \in seen.escrow : Follows(P!EscrowKey, p))'
  BY <1>1, <1>3, <1>5 DEF PushIInv
<1> QED BY <1>4, <1>5, <1>7, <1>8 DEF PushIInv

LEMMA MoneyMoved ==
  ASSUME PushIInv, NEW money \in BOOLEAN, P!Transact(money)
  PROVE  PushIInv'
<1>1. txs' = Append(txs, money) /\ UNCHANGED <<months, ship, life, circle, seen, scan, told>>
  BY DEF P!Transact, P!Outside
<1>2. txs' \in Seq(BOOLEAN) /\ Len(txs') = Len(txs) + 1 /\ Len(txs) \in Nat
  BY <1>1 DEF PushIInv, PushTypeOK
<1>3. seen.lastTx \in Nat /\ seen.lastTx <= Len(txs')
  BY <1>2 DEF PushIInv, PushTypeOK
<1>4. PushTypeOK'
  BY <1>1, <1>2 DEF PushIInv, PushTypeOK, IsScan, LifeIs
<1>5. P!EscrowKey' = P!EscrowKey
  BY <1>1 DEF P!EscrowKey
<1>6. scan.at = "read" => Len(scan.txs) <= Len(txs')
  <2>1. scan.at = "read" => Len(scan.txs) \in Nat /\ Len(scan.txs) <= Len(txs)
    BY DEF PushIInv, ScanIsOfChain
  <2> QED BY <1>2, <2>1
<1>7. ScanIsOfChain'
  BY <1>1, <1>5, <1>6 DEF PushIInv, ScanIsOfChain
<1> QED BY <1>1, <1>3, <1>4, <1>5, <1>7 DEF PushIInv, MoneyTold, CircleTold, EscrowTold

LEMMA CircleMoved ==
  ASSUME PushIInv, P!CircleMoves
  PROVE  PushIInv'
<1>1. UNCHANGED <<months, txs, ship, life, seen, scan, told>>
  BY DEF P!CircleMoves, P!Outside
<1>2. circle' \in [round : Nat, paid : BOOLEAN, full : BOOLEAN, due : BOOLEAN]
  <2>1. circle \in [round : Nat, paid : BOOLEAN, full : BOOLEAN, due : BOOLEAN]
    BY DEF PushIInv, PushTypeOK
  <2>2. \/ circle' = [circle EXCEPT !.paid = TRUE]
        \/ circle' = [circle EXCEPT !.paid = TRUE, !.full = TRUE]
        \/ circle' = [circle EXCEPT !.due = TRUE]
        \/ circle' = [round |-> circle.round + 1, paid |-> FALSE, full |-> FALSE, due |-> FALSE]
    BY DEF P!CircleMoves
  <2> DEFINE T == [round : Nat, paid : BOOLEAN, full : BOOLEAN, due : BOOLEAN]
             c == [circle EXCEPT !.paid = TRUE]
  <2>3. c \in T
    BY <2>1
  <2>4. [c EXCEPT !.full = TRUE] \in T
    <3> HIDE DEF c
    <3> QED BY <2>3
  <2>5. [circle EXCEPT !.due = TRUE] \in T
    BY <2>1
  <2>6. [round |-> circle.round + 1, paid |-> FALSE, full |-> FALSE, due |-> FALSE] \in T
    BY <2>1
  <2> HIDE DEF T
  <2>7. circle' \in T
    BY <2>2, <2>3, <2>4, <2>5, <2>6, Zenon
  <2> QED BY <2>7 DEF T
<1> QED BY <1>1, <1>2 DEF PushIInv, PushTypeOK, ScanIsOfChain, MoneyTold, CircleTold, EscrowTold, IsScan, LifeIs,
                          P!EscrowKey

LEMMA PushKept ==
  ASSUME PushIInv, BackendAssumption, P!PushNext
  PROVE  PushIInv'
<1>s. scan = [at |-> scan.at, txs |-> scan.txs, pool |-> scan.pool, escrow |-> scan.escrow,
              news |-> scan.news, to |-> scan.to, gone |-> scan.gone]
  BY DEF PushIInv, PushTypeOK, IsScan
<1>1. CASE P!ReadSubs
  <2>1. scan' = [scan EXCEPT !.at = "send", !.to = subs]
        /\ UNCHANGED <<months, txs, ship, life, circle, seen, told>>
    BY <1>1 DEF P!ReadSubs, P!chainView
  <2>2. IsScan(scan') /\ scan'.at = "send"
    BY <1>s, <2>1 DEF IsScan
  <2> QED BY <2>1, <2>2, ScanIsOver
<1>2. ASSUME NEW ok \in BOOLEAN, P!Send(ok) PROVE PushIInv'
  <2>1. PICK to, gone : scan' = [scan EXCEPT !.to = to, !.gone = gone]
    BY <1>2 DEF P!Send
  <2>2. scan.at = "send" /\ UNCHANGED <<months, txs, ship, life, circle, seen, told>>
    BY <1>2 DEF P!Send, P!chainView
  <2>3. IsScan(scan') /\ scan'.at = "send"
    BY <1>s, <2>1, <2>2 DEF IsScan
  <2> QED BY <2>2, <2>3, ScanIsOver
<1>3. CASE P!DropGone
  <2>1. scan' = P!AfterNotice /\ UNCHANGED <<months, txs, ship, life, circle, seen, told>>
    BY <1>3 DEF P!DropGone, P!chainView
  <2>2. IsScan(scan') /\ scan'.at # "read"
    BY <2>1 DEF IsScan, P!AfterNotice, P!Resting
  <2> QED BY <2>1, <2>2, ScanIsOver
<1>4. CASE P!Crash
  <2>1. scan' = P!Resting /\ UNCHANGED <<months, txs, ship, life, circle, seen, told>>
    BY <1>4 DEF P!Crash, P!chainView
  <2> QED BY <2>1, RestingIs, ScanIsOver
<1>5. ASSUME NEW dev \in Devices, P!PushSubscribe(dev) PROVE PushIInv'
  <2>1. UNCHANGED <<months, txs, ship, life, circle, seen, scan, told>>
    BY <1>5 DEF P!PushSubscribe, P!chainView
  <2> QED BY <2>1, PushUntouched
<1>6. ASSUME NEW which, P!PushUnsubscribe(which) PROVE PushIInv'
  <2>1. UNCHANGED <<months, txs, ship, life, circle, seen, scan, told>>
    BY <1>6 DEF P!PushUnsubscribe, P!chainView
  <2> QED BY <2>1, PushUntouched
<1>7. ASSUME NEW dev \in Devices, P!DeviceGone(dev) PROVE PushIInv'
  <2>1. UNCHANGED <<months, txs, ship, life, circle, seen, scan, told>>
    BY <1>7 DEF P!DeviceGone, P!chainView, P!Outside
  <2> QED BY <2>1, PushUntouched
<1>8. CASE P!Watch
  BY <1>1, <1>2, <1>3, <1>8, ScanStarted, ScanRecorded DEF P!Watch
<1> QED BY <1>4, <1>5, <1>6, <1>7, <1>8, MoneyMoved, EscrowAdvances, CircleMoved, MonthGone DEF P!PushNext

-----------------------------------------------------------------------------
(* The backend: each store keeps its own invariant, and a step of one       *)
(* leaves the others alone.                                                 *)

BackendIInv == LimitsIInv /\ MarketIInv /\ InvitesIInv /\ PushIInv

LEMMA BackendStart ==
  ASSUME BackendAssumption, BackendInit
  PROVE  BackendIInv
<1>1. LimitsIInv
  BY LimitsStart DEF BackendInit
<1>2. MarketIInv
  BY MarketStart DEF BackendInit
<1>3. InvitesIInv
  BY InvitesStart DEF BackendInit
<1>4. PushIInv
  BY PushStart DEF BackendInit
<1> QED BY <1>1, <1>2, <1>3, <1>4 DEF BackendIInv

LEMMA PushRests ==
  ASSUME PushIInv, UNCHANGED push
  PROVE  PushIInv'
BY PushUntouched DEF push

LEMMA BackendKept ==
  ASSUME BackendAssumption, BackendIInv, [BackendNext]_vars
  PROVE  BackendIInv'
<1>i. LimitsIInv /\ MarketIInv /\ InvitesIInv /\ PushIInv
  BY DEF BackendIInv
<1>1. CASE I!InvitesNext /\ UNCHANGED <<market, push, courier, limits>>
  BY <1>i, <1>1, InvitesKept, MarketUntouched, PushRests, LimitsUntouched DEF BackendIInv
<1>2. CASE M!MarketNext /\ UNCHANGED <<invites, push, courier, limits>>
  BY <1>i, <1>2, MarketKept, InvitesUntouched, PushRests, LimitsUntouched DEF BackendIInv
<1>3. CASE P!PushNext /\ UNCHANGED <<invites, market, courier, limits>>
  BY <1>i, <1>3, PushKept, InvitesUntouched, MarketUntouched, LimitsUntouched DEF BackendIInv
<1>4. CASE C!CourierNext /\ UNCHANGED <<invites, market, push, limits>>
  BY <1>i, <1>4, InvitesUntouched, MarketUntouched, PushRests, LimitsUntouched DEF BackendIInv
<1>5. CASE L!LimitsNext /\ UNCHANGED <<invites, market, push, courier>>
  BY <1>i, <1>5, LimitsKept, InvitesUntouched, MarketUntouched, PushRests DEF BackendIInv
<1>6. CASE UNCHANGED vars
  <2>1. UNCHANGED <<invites, market, push, limits>>
    BY <1>6 DEF vars
  <2> QED BY <1>i, <2>1, InvitesUntouched, MarketUntouched, PushRests, LimitsUntouched DEF BackendIInv
<1> QED BY <1>1, <1>2, <1>3, <1>4, <1>5, <1>6 DEF BackendNext

LEMMA BackendHolds ==
  ASSUME BackendIInv
  PROVE  /\ CircleHasJoinedMembers /\ ReviewsAreBought /\ AnnouncedOnce
         /\ RequestsAreLimited /\ DripsAreApart
<1>1. CircleHasJoinedMembers
  BY InvitesHold DEF BackendIInv, CircleHasJoinedMembers
<1>2. ReviewsAreBought
  BY MarketHolds DEF BackendIInv, ReviewsAreBought
<1>3. AnnouncedOnce
  BY PushHolds DEF BackendIInv, AnnouncedOnce
<1>4. RequestsAreLimited /\ DripsAreApart
  BY DEF BackendIInv, LimitsIInv, FaucetIInv, LimiterIInv, RequestsAreLimited, DripsAreApart
<1> QED BY <1>1, <1>2, <1>3, <1>4

LEMMA BackendAlways ==
  ASSUME BackendAssumption
  PROVE  BackendFairSpec => []BackendIInv
<1>1. BackendInit => BackendIInv
  BY BackendStart
<1>2. BackendIInv /\ [BackendNext]_vars => BackendIInv'
  BY BackendKept
<1> QED BY <1>1, <1>2, PTL DEF BackendFairSpec

(* A circle's draft lists the wallets that agreed to it, each once, however *)
(* drafts are joined, left, reordered and started, and is started only when *)
(* the chain had such a circle (joinDraft, startedDraft).                   *)
THEOREM CirclesHaveJoinedMembers ==
  BackendFairSpec => []CircleHasJoinedMembers
<1>1. BackendIInv => CircleHasJoinedMembers
  BY BackendHolds
<1> QED BY <1>1, BackendAssumption, BackendAlways, PTL

(* Every rating comes from an escrow that ended, and nobody is rated more   *)
(* often than the escrow had sellers or parties, although the request looks *)
(* at the chain before it writes (rateSeller, rateArbiter).                 *)
THEOREM ReviewsStayBought ==
  BackendFairSpec => []ReviewsAreBought
<1>1. BackendIInv => ReviewsAreBought
  BY BackendHolds
<1> QED BY <1>1, BackendAssumption, BackendAlways, PTL

(* A payment or a change of an escrow is put in a notice once, a reminder   *)
(* of a circle once in a month, whatever crashes (pushEvents).              *)
THEOREM NothingIsAnnouncedTwice ==
  BackendFairSpec => []AnnouncedOnce
<1>1. BackendIInv => AnnouncedOnce
  BY BackendHolds
<1> QED BY <1>1, BackendAssumption, BackendAlways, PTL

(* A client gets its burst and what its bucket gained since, the sweep of   *)
(* idle buckets giving nothing away (Limiter.Allow, gc).                    *)
THEOREM ClientsStayLimited ==
  BackendFairSpec => []RequestsAreLimited
<1>1. BackendIInv => RequestsAreLimited
  BY BackendHolds
<1> QED BY <1>1, BackendAssumption, BackendAlways, PTL

(* The faucet pays an address once in a cooldown, unless a fault came       *)
(* between a payment and its record (drip).                                 *)
THEOREM DripsStayApart ==
  BackendFairSpec => []DripsAreApart
<1>1. BackendIInv => DripsAreApart
  BY BackendHolds
<1> QED BY <1>1, BackendAssumption, BackendAlways, PTL

-----------------------------------------------------------------------------
(* Usernames, phone numbers and sign-in: names and their index are inverse, *)
(* guesses are limited, and names and numbers move only with a recovery.    *)

CallStates == {"idle", "link", "recover", "refer", "signin", "open",
               "migrate phones", "migrate signin", "migrate name"}
Migrating  == {"migrate phones", "migrate signin", "migrate name"}

(* What a request in the middle of its work relies on: what the chain       *)
(* showed when a migration was allowed still stands.                        *)
FoundedCall(r) ==
  /\ r.at # "idle" => r.me \in Addrs
  /\ r.at = "link" => r.other \in Numbers
  /\ r.at \in {"recover", "refer"} \cup Migrating => r.other \in Addrs
  /\ r.at \in Migrating => recoveredTo[r.other] = r.me

CallsOf == [at : CallStates, me : Addrs \cup {None}, other : Addrs \cup Numbers \cup {None}]

CountsAre ==
  /\ call \in [Clients -> CallsOf]
  /\ recoveredTo \in [Addrs -> Addrs \cup {None}]
  /\ right \in [Codes -> Nat] /\ wrong \in [Codes -> Nat] /\ strikes \in [Addrs -> Nat]
  /\ mishaps \in [crash : Nat, unsaved : Nat]

(* A code that was accepted is nowhere left, and the wrong guesses of this  *)
(* life of the process are in the record's own count.                       *)
CodeCounted(k) ==
  LET code == mem.phones.codes[k] IN
  /\ right[k] <= 1
  /\ right[k] = 1 => code = NoCode /\ disk.phones.codes[k] = NoCode
  /\ wrong[k] <= mishaps.crash * MaxTries + (IF code = NoCode THEN MaxTries ELSE code.tries)

(* A record whose count is full and whose lock has ended locks at the next *)
(* wrong token.                                                             *)
StrikesCounted(a) ==
  LET rec == mem.signins[a] IN
  strikes[a] <= mishaps.crash * MaxFails +
                (IF rec.fails = MaxFails /\ ~rec.locked THEN 0 ELSE rec.fails)

IdentityIInv ==
  /\ IdentityTypeOK /\ NamesAreInverse /\ CountsAre
  /\ \A c \in Clients : FoundedCall(call[c])
  /\ \A k \in Codes : CodeCounted(k)
  /\ \A a \in Addrs : StrikesCounted(a)

IdentityStep == IdentityIInv' /\ MovesByRecovery

-----------------------------------------------------------------------------
(* The stores. *)

UsersOf    == [Names -> Addrs \cup {None}]
CodeOf     == {NoCode} \cup [number : Numbers, purpose : {"link", "recover"},
                             addr : Addrs \cup {None}, tries : 0..MaxTries]
PhonesOf   == [owner : [Numbers -> Addrs \cup {None}], codes : [Codes -> CodeOf],
               sent : [Numbers -> 0..MaxSends], requests : SUBSET (Addrs \X Addrs)]
SignInOf   == [set : BOOLEAN, fails : 0..MaxFails, locked : BOOLEAN]
ReferralOf == [Addrs -> Addrs \cup {None}]

LEMMA StoresAre ==
  Stores = [users : UsersOf, phones : PhonesOf, signins : [Addrs -> SignInOf], referrals : ReferralOf]
BY DEF Stores, UsersOf, PhonesOf, CodeOf, SignInOf, ReferralOf

LEMMA Limits ==
  /\ MaxTries \in Nat \ {0} /\ MaxSends \in Nat \ {0} /\ MaxFails \in Nat \ {0}
  /\ None \notin Addrs /\ None \notin Names /\ None \notin Numbers /\ None \notin Codes
BY IdentityAssumption

(* The parts of a store's value. *)
LEMMA StoreParts ==
  ASSUME NEW s \in Stores
  PROVE  /\ s.users \in UsersOf /\ s.phones \in PhonesOf
         /\ s.signins \in [Addrs -> SignInOf] /\ s.referrals \in ReferralOf
         /\ \A k \in Codes : s.phones.codes[k] \in CodeOf
BY StoresAre DEF PhonesOf

LEMMA UsersUpdate ==
  ASSUME IdentityTypeOK, CountsAre, NEW v \in UsersOf, NEW saved \in BOOLEAN, Update("users", v, saved)
  PROVE  /\ mem' \in Stores /\ disk' \in Stores
         /\ mem'.users = v /\ mem'.phones = mem.phones
         /\ mem'.signins = mem.signins /\ mem'.referrals = mem.referrals
         /\ disk'.users \in {v, disk.users} /\ disk'.phones = disk.phones
         /\ mishaps' \in [crash : Nat, unsaved : Nat] /\ mishaps'.crash = mishaps.crash
BY StoresAre DEF Update, IdentityTypeOK, CountsAre

(* The store of numbers and codes, or of sign-ins, becomes v, the file      *)
(* perhaps with it.                                                         *)
PhonesBecome(v) ==
  /\ mem' \in Stores /\ disk' \in Stores
  /\ mem'.phones = v /\ mem'.users = mem.users
  /\ mem'.signins = mem.signins /\ mem'.referrals = mem.referrals
  /\ disk'.users = disk.users /\ disk'.phones \in {v, disk.phones}
  /\ mishaps' \in [crash : Nat, unsaved : Nat] /\ mishaps'.crash = mishaps.crash

SignInsBecome(v) ==
  /\ mem' \in Stores /\ disk' \in Stores
  /\ mem'.signins = v /\ mem'.users = mem.users
  /\ mem'.phones = mem.phones /\ mem'.referrals = mem.referrals
  /\ disk'.users = disk.users /\ disk'.phones = disk.phones
  /\ mishaps' \in [crash : Nat, unsaved : Nat] /\ mishaps'.crash = mishaps.crash

LEMMA PhonesUpdate ==
  ASSUME IdentityTypeOK, CountsAre, NEW v \in PhonesOf, NEW saved \in BOOLEAN, Update("phones", v, saved)
  PROVE  PhonesBecome(v) /\ (saved => disk'.phones = v)
BY StoresAre DEF Update, IdentityTypeOK, CountsAre, PhonesBecome

LEMMA PhonesRefuse ==
  ASSUME IdentityTypeOK, CountsAre, NEW v \in PhonesOf, Refuse("phones", v)
  PROVE  PhonesBecome(v)
BY StoresAre DEF Refuse, IdentityTypeOK, CountsAre, PhonesBecome

LEMMA PhonesStay ==
  ASSUME IdentityTypeOK, CountsAre, UNCHANGED <<mem, disk, mishaps>>
  PROVE  PhonesBecome(mem.phones) /\ SignInsBecome(mem.signins)
BY DEF IdentityTypeOK, CountsAre, PhonesBecome, SignInsBecome

LEMMA SignInsUpdate ==
  ASSUME IdentityTypeOK, CountsAre, NEW v \in [Addrs -> SignInOf], NEW saved \in BOOLEAN,
         Update("signins", v, saved)
  PROVE  SignInsBecome(v)
BY StoresAre DEF Update, IdentityTypeOK, CountsAre, SignInsBecome

LEMMA SignInsRefuse ==
  ASSUME IdentityTypeOK, CountsAre, NEW v \in [Addrs -> SignInOf], Refuse("signins", v)
  PROVE  SignInsBecome(v)
BY StoresAre DEF Refuse, IdentityTypeOK, CountsAre, SignInsBecome

LEMMA ReferralsUpdate ==
  ASSUME IdentityTypeOK, CountsAre, NEW v \in ReferralOf, NEW saved \in BOOLEAN,
         Update("referrals", v, saved)
  PROVE  /\ mem' \in Stores /\ disk' \in Stores
         /\ mem'.referrals = v /\ mem'.users = mem.users
         /\ mem'.phones = mem.phones /\ mem'.signins = mem.signins
         /\ disk'.users = disk.users /\ disk'.phones = disk.phones
         /\ mishaps' \in [crash : Nat, unsaved : Nat] /\ mishaps'.crash = mishaps.crash
BY StoresAre DEF Update, IdentityTypeOK, CountsAre

-----------------------------------------------------------------------------
(* What a step leaves alone stays as it was. *)

LEMMA NamesKept ==
  ASSUME NamesAreInverse, mem'.users = mem.users, disk'.users \in {mem.users, disk.users},
         byAddr' = byAddr
  PROVE  NamesAreInverse'
BY DEF NamesAreInverse

(* A code that is dropped, or copied to the file, stays counted. *)
LEMMA CodesKept ==
  ASSUME IdentityIInv, mem' \in Stores, disk' \in Stores,
         \A k \in Codes : /\ mem'.phones.codes[k] \in {mem.phones.codes[k], NoCode}
                         /\ disk'.phones.codes[k] \in {disk.phones.codes[k], mem'.phones.codes[k]},
         right' = right, wrong' = wrong, mishaps'.crash = mishaps.crash
  PROVE  \A k \in Codes : CodeCounted(k)'
<1> SUFFICES ASSUME NEW k \in Codes PROVE CodeCounted(k)'
  OBVIOUS
<1>1. mem.phones.codes[k] \in CodeOf /\ CodeCounted(k) /\ wrong[k] \in Nat /\ mishaps.crash \in Nat
  BY StoreParts DEF IdentityIInv, IdentityTypeOK, CountsAre
<1>2. mem.phones.codes[k].tries \in 0..MaxTries /\ MaxTries \in Nat /\ mishaps.crash * MaxTries \in Nat
  BY <1>1, Limits DEF CodeOf, NoCode
<1> QED BY <1>1, <1>2 DEF CodeCounted

LEMMA StrikesKept ==
  ASSUME IdentityIInv, \A a \in Addrs : mem'.signins[a] = mem.signins[a],
         strikes' = strikes, mishaps'.crash = mishaps.crash
  PROVE  \A a \in Addrs : StrikesCounted(a)'
BY DEF IdentityIInv, StrikesCounted

LEMMA CallMoves ==
  ASSUME IdentityIInv, NEW c \in Clients, NEW r \in CallsOf, call' = [call EXCEPT ![c] = r],
         recoveredTo' = recoveredTo, FoundedCall(r)
  PROVE  call' \in [Clients -> CallsOf] /\ \A x \in Clients : FoundedCall(call[x])'
BY DEF IdentityIInv, CountsAre, FoundedCall

LEMMA IdleIsFounded == Idle \in CallsOf /\ FoundedCall(Idle)
BY DEF Idle, CallsOf, FoundedCall, CallStates, Migrating

(* Nothing passes when the owners of names and numbers stay.               *)
LEMMA NothingPasses ==
  ASSUME mem'.users = mem.users, mem'.phones = mem.phones, mem'.referrals = mem.referrals
  PROVE  MovesByRecovery
BY DEF MovesByRecovery, Passed

LEMMA CallsKept ==
  ASSUME IdentityIInv, call' = call, recoveredTo' = recoveredTo
  PROVE  call' \in [Clients -> CallsOf] /\ \A x \in Clients : FoundedCall(call[x])'
BY DEF IdentityIInv, CountsAre, FoundedCall

-----------------------------------------------------------------------------
(* directory.go *)

LEMMA ClaimKeeps ==
  ASSUME IdentityIInv, NEW a \in Addrs, NEW n \in Names, NEW saved \in BOOLEAN, Claim(a, n, saved)
  PROVE  IdentityStep
<1> DEFINE v == [mem.users EXCEPT ![n] = a]
<1>1. IdentityTypeOK /\ CountsAre /\ NamesAreInverse /\ mem \in Stores /\ disk \in Stores
  BY DEF IdentityIInv, IdentityTypeOK
<1>2. mem.users \in UsersOf /\ v \in UsersOf
  BY <1>1, StoreParts DEF UsersOf
<1>3. /\ Update("users", v, saved) /\ mem.users[n] = None /\ byAddr[a] = None
      /\ byAddr' = [byAddr EXCEPT ![a] = n] /\ UNCHANGED <<call, world, guesses>>
  BY DEF Claim
<1>4. /\ mem' \in Stores /\ disk' \in Stores
      /\ mem'.users = v /\ mem'.phones = mem.phones
      /\ mem'.signins = mem.signins /\ mem'.referrals = mem.referrals
      /\ disk'.users \in {v, disk.users} /\ disk'.phones = disk.phones
      /\ mishaps' \in [crash : Nat, unsaved : Nat] /\ mishaps'.crash = mishaps.crash
  BY <1>1, <1>2, <1>3, UsersUpdate
<1>5. IdentityTypeOK' /\ NamesAreInverse'
  BY <1>1, <1>2, <1>3, <1>4, Limits DEF IdentityTypeOK, NamesAreInverse, UsersOf
<1>6. CountsAre' /\ \A c \in Clients : FoundedCall(call[c])'
  BY <1>1, <1>3, <1>4, CallsKept DEF CountsAre, world, guesses
<1>7. \A k \in Codes : CodeCounted(k)'
  BY <1>3, <1>4, CodesKept DEF guesses
<1>8. \A x \in Addrs : StrikesCounted(x)'
  BY <1>3, <1>4, StrikesKept DEF guesses
<1>9. MovesByRecovery
  BY <1>2, <1>3, <1>4 DEF MovesByRecovery, Passed, UsersOf
<1> QED BY <1>5, <1>6, <1>7, <1>8, <1>9 DEF IdentityStep, IdentityIInv
-----------------------------------------------------------------------------
(* phone.go *)

(* A step on numbers and codes: what is left to show of it is that codes    *)
(* stay counted, that requests are founded and that no number passes        *)
(* without a recovery.                                                      *)
LEMMA PhonesStep ==
  ASSUME IdentityIInv, NEW v \in PhonesOf, PhonesBecome(v),
         byAddr' = byAddr, recoveredTo' = recoveredTo, strikes' = strikes,
         right' \in [Codes -> Nat], wrong' \in [Codes -> Nat],
         call' \in [Clients -> CallsOf] /\ \A c \in Clients : FoundedCall(call[c])',
         \A k \in Codes : CodeCounted(k)',
         \A p \in Numbers : Passed(mem.phones.owner, v.owner, p) =>
                              recoveredTo[mem.phones.owner[p]] = v.owner[p]
  PROVE  IdentityStep
<1>1. IdentityTypeOK' /\ NamesAreInverse'
  BY NamesKept DEF IdentityIInv, IdentityTypeOK, PhonesBecome
<1>2. CountsAre'
  BY DEF IdentityIInv, CountsAre, PhonesBecome
<1>3. \A x \in Addrs : StrikesCounted(x)'
  BY StrikesKept DEF PhonesBecome
<1>4. MovesByRecovery
  BY DEF MovesByRecovery, Passed, PhonesBecome
<1> QED BY <1>1, <1>2, <1>3, <1>4 DEF IdentityStep, IdentityIInv

(* Its codes are as they were, or dropped. *)
LEMMA PhonesCodesKept ==
  ASSUME IdentityIInv, NEW v \in PhonesOf, PhonesBecome(v),
         \A k \in Codes : v.codes[k] \in {mem.phones.codes[k], NoCode},
         right' = right, wrong' = wrong
  PROVE  \A k \in Codes : CodeCounted(k)'
BY CodesKept DEF PhonesBecome

LEMMA PhonesFacts ==
  ASSUME IdentityIInv
  PROVE  /\ IdentityTypeOK /\ CountsAre
         /\ mem.phones \in PhonesOf
         /\ mem.phones.owner \in [Numbers -> Addrs \cup {None}]
         /\ mem.phones.codes \in [Codes -> CodeOf]
         /\ mem.phones.sent \in [Numbers -> 0..MaxSends]
         /\ mem.phones.requests \in SUBSET (Addrs \X Addrs)
         /\ NoCode \in CodeOf
         /\ \A k \in Codes : CodeCounted(k)
<1>1. IdentityTypeOK /\ CountsAre /\ \A k \in Codes : CodeCounted(k)
  BY DEF IdentityIInv
<1>2. mem.phones \in PhonesOf
  BY <1>1, StoreParts DEF IdentityTypeOK
<1>3. NoCode \in CodeOf
  BY Limits DEF NoCode, CodeOf
<1> QED BY <1>1, <1>2, <1>3 DEF PhonesOf

LEMMA StartPhoneKeeps ==
  ASSUME IdentityIInv, NEW k \in Codes, NEW p \in Numbers, NEW a \in Addrs \cup {None},
         NEW saved \in BOOLEAN, StartPhone(k, p, a, saved)
  PROVE  IdentityStep
<1> DEFINE fresh == [number |-> p, purpose |-> IF a = None THEN "recover" ELSE "link",
                     addr |-> a, tries |-> 0]
           kept  == [j \in Codes |-> IF j \in lapsed THEN NoCode ELSE mem.phones.codes[j]]
           v     == [mem.phones EXCEPT !.sent[p] = @ + 1, !.codes = [kept EXCEPT ![k] = fresh]]
<1>1. /\ Update("phones", v, saved) /\ right[k] = 0 /\ wrong[k] = 0
      /\ mem.phones.sent[p] < MaxSends
      /\ UNCHANGED <<byAddr, call, world, guesses>>
  BY DEF StartPhone, Phones
<1>2. fresh \in CodeOf
  BY Limits DEF CodeOf
<1>3. kept \in [Codes -> CodeOf] /\ [kept EXCEPT ![k] = fresh] \in [Codes -> CodeOf]
  BY <1>2, PhonesFacts
<1>4. mem.phones.sent[p] + 1 \in 0..MaxSends
  BY <1>1, PhonesFacts, Limits
<1>5. [mem.phones.sent EXCEPT ![p] = @ + 1] \in [Numbers -> 0..MaxSends]
  BY <1>4, PhonesFacts
<1>6. /\ v \in PhonesOf /\ v.owner = mem.phones.owner
      /\ v.codes = [kept EXCEPT ![k] = fresh]
  BY <1>3, <1>5, PhonesFacts DEF PhonesOf
<1>7. PhonesBecome(v)
  BY <1>1, <1>6, PhonesFacts, PhonesUpdate
<1>8. CodeCounted(k)'
  <2>1. fresh # NoCode /\ fresh.tries = 0
    BY Limits DEF NoCode
  <2>2. mem'.phones.codes[k] = fresh
    BY <1>3, <1>6, <1>7 DEF PhonesBecome
  <2>3. mishaps'.crash * MaxTries \in Nat
    BY <1>7, Limits DEF PhonesBecome
  <2> QED BY <1>1, <2>1, <2>2, <2>3 DEF CodeCounted, guesses
<1>9. ASSUME NEW j \in Codes, j # k PROVE CodeCounted(j)'
  <2>1. CodeCounted(j) /\ mem.phones.codes[j] \in CodeOf /\ wrong[j] \in Nat
    BY PhonesFacts DEF CountsAre
  <2>2. mem'.phones.codes[j] \in {mem.phones.codes[j], NoCode}
    BY <1>3, <1>6, <1>7, <1>9 DEF PhonesBecome
  <2>3. disk'.phones.codes[j] \in {mem'.phones.codes[j], disk.phones.codes[j]}
    BY <1>7 DEF PhonesBecome
  <2>4. mem.phones.codes[j].tries \in 0..MaxTries /\ MaxTries \in Nat /\ mishaps.crash * MaxTries \in Nat
    BY <2>1, Limits, PhonesFacts DEF CodeOf, NoCode, CountsAre
  <2>5. right'[j] = right[j] /\ wrong'[j] = wrong[j] /\ mishaps'.crash = mishaps.crash
    BY <1>1, <1>7 DEF guesses, PhonesBecome
  <2> QED BY <2>1, <2>2, <2>3, <2>4, <2>5 DEF CodeCounted
<1>10. \A j \in Codes : CodeCounted(j)'
  BY <1>8, <1>9
<1>11. call' \in [Clients -> CallsOf] /\ \A c \in Clients : FoundedCall(call[c])'
  BY <1>1, CallsKept DEF world
<1>12. \A x \in Numbers : ~Passed(mem.phones.owner, v.owner, x)
  BY <1>6 DEF Passed
<1> QED BY <1>1, <1>6, <1>7, <1>10, <1>11, <1>12, PhonesStep, PhonesFacts DEF world, guesses, CountsAre
LEMMA ConsumedIs ==
  ASSUME IdentityIInv, NEW k \in Codes
  PROVE  /\ Consumed(k) \in PhonesOf /\ Consumed(k).owner = mem.phones.owner
         /\ Consumed(k).codes = [mem.phones.codes EXCEPT ![k] = NoCode]
BY PhonesFacts DEF Consumed, Phones, PhonesOf

LEMMA WrongCodeKeeps ==
  ASSUME IdentityIInv, NEW k \in Codes, NEW purpose \in {"link", "recover"}, WrongCode(k, purpose)
  PROVE  IdentityStep
<1>1. UNCHANGED <<byAddr, call, world, right, strikes>>
  BY DEF WrongCode
<1>2. call' \in [Clients -> CallsOf] /\ \A c \in Clients : FoundedCall(call[c])'
  BY <1>1, CallsKept DEF world
<1>3. CASE Comparable(k, purpose)
  <2> DEFINE v == [mem.phones EXCEPT !.codes[k].tries = @ + 1]
  <2>1. /\ Refuse("phones", v) /\ wrong' = [wrong EXCEPT ![k] = @ + 1]
        /\ mem.phones.codes[k] # NoCode /\ mem.phones.codes[k].tries < MaxTries
    BY <1>3 DEF WrongCode, Comparable, Phones
  <2> DEFINE code == [mem.phones.codes[k] EXCEPT !.tries = @ + 1]
  <2>2. mem.phones.codes[k] \in CodeOf /\ mem.phones.codes[k].tries \in 0..MaxTries
    BY PhonesFacts, Limits DEF CodeOf, NoCode
  <2>3. code \in CodeOf /\ code.tries = mem.phones.codes[k].tries + 1
    BY <2>1, <2>2, Limits DEF CodeOf
  <2>4. v = [mem.phones EXCEPT !.codes = [@ EXCEPT ![k] = code]]
    BY PhonesFacts DEF PhonesOf
  <2>5. /\ v \in PhonesOf /\ v.owner = mem.phones.owner
        /\ v.codes = [mem.phones.codes EXCEPT ![k] = code]
    BY <2>3, <2>4, PhonesFacts DEF PhonesOf
  <2>6. PhonesBecome(v)
    BY <2>1, <2>5, PhonesFacts, PhonesRefuse
  <2>7. /\ wrong \in [Codes -> Nat] /\ wrong' \in [Codes -> Nat] /\ right' \in [Codes -> Nat]
        /\ mishaps.crash * MaxTries \in Nat /\ mishaps'.crash = mishaps.crash
    BY <1>1, <2>1, <2>6, PhonesFacts, Limits DEF CountsAre, PhonesBecome
  <2>8. disk'.phones = disk.phones
    BY <2>1 DEF Refuse
  <2>9. CodeCounted(k)'
    <3>1. code # NoCode
      BY <2>2, <2>3 DEF NoCode, CodeOf
    <3>2. mem'.phones.codes[k] = code
      BY <2>5, <2>6, PhonesFacts DEF PhonesBecome
    <3>3. right[k] # 1 /\ right[k] <= 1 /\ wrong[k] <= mishaps.crash * MaxTries + mem.phones.codes[k].tries
      BY <2>1, PhonesFacts DEF CodeCounted
    <3> QED BY <1>1, <2>1, <2>2, <2>3, <2>7, <3>1, <3>2, <3>3 DEF CodeCounted
  <2>10. ASSUME NEW j \in Codes, j # k PROVE CodeCounted(j)'
    <3>1. mem'.phones.codes[j] = mem.phones.codes[j] /\ right'[j] = right[j] /\ wrong'[j] = wrong[j]
      BY <1>1, <2>1, <2>5, <2>6, <2>7, <2>10, PhonesFacts DEF PhonesBecome
    <3> QED BY <2>7, <2>8, <3>1, PhonesFacts DEF CodeCounted
  <2>11. \A x \in Numbers : ~Passed(mem.phones.owner, v.owner, x)
    BY <2>5 DEF Passed
  <2>12. \A j \in Codes : CodeCounted(j)'
    BY <2>9, <2>10
  <2> QED BY <1>1, <1>2, <2>5, <2>6, <2>7, <2>11, <2>12, PhonesStep DEF world
<1>4. CASE ~Comparable(k, purpose)
  <2>1. Refuse("phones", Consumed(k)) /\ wrong' = wrong
    BY <1>4 DEF WrongCode
  <2>2. PhonesBecome(Consumed(k))
    BY <2>1, ConsumedIs, PhonesFacts, PhonesRefuse
  <2>3. \A j \in Codes : Consumed(k).codes[j] \in {mem.phones.codes[j], NoCode}
    BY ConsumedIs, PhonesFacts
  <2>4. \A j \in Codes : CodeCounted(j)'
    BY <1>1, <2>1, <2>2, <2>3, ConsumedIs, PhonesCodesKept
  <2>5. \A x \in Numbers : ~Passed(mem.phones.owner, Consumed(k).owner, x)
    BY ConsumedIs DEF Passed
  <2> QED BY <1>1, <1>2, <2>1, <2>2, <2>4, <2>5, ConsumedIs, PhonesFacts, PhonesStep DEF world, CountsAre
<1> QED BY <1>3, <1>4

(* A code that is compared equal is taken, by verifyLink or verifyRecover,  *)
(* whatever the request then does with it.                                  *)
LEMMA AcceptedKeeps ==
  ASSUME IdentityIInv, NEW k \in Codes, NEW purpose \in {"link", "recover"}, Comparable(k, purpose),
         NEW saved \in BOOLEAN, Update("phones", Consumed(k), saved),
         right' = IF saved THEN [right EXCEPT ![k] = @ + 1] ELSE right,
         UNCHANGED <<byAddr, world, wrong, strikes>>,
         NEW c \in Clients, NEW r \in CallsOf, call' = [call EXCEPT ![c] = r], FoundedCall(r)
  PROVE  IdentityStep
<1>1. PhonesBecome(Consumed(k)) /\ (saved => disk'.phones = Consumed(k))
  BY ConsumedIs, PhonesFacts, PhonesUpdate
<1>2. /\ right \in [Codes -> Nat] /\ right' \in [Codes -> Nat] /\ wrong' \in [Codes -> Nat]
      /\ wrong \in [Codes -> Nat]
      /\ mishaps.crash * MaxTries \in Nat /\ mishaps'.crash = mishaps.crash
  BY <1>1, PhonesFacts, Limits DEF CountsAre, PhonesBecome
<1>3. \A j \in Codes : Consumed(k).codes[j] = IF j = k THEN NoCode ELSE mem.phones.codes[j]
  BY ConsumedIs, PhonesFacts
<1>4. CodeCounted(k)'
  <2>1. mem'.phones.codes[k] = NoCode /\ (saved => disk'.phones.codes[k] = NoCode)
    BY <1>1, <1>3 DEF PhonesBecome
  <2>2. right[k] = 0
    BY <1>2, PhonesFacts DEF CodeCounted, Comparable, Phones
  <2>3. wrong[k] <= mishaps.crash * MaxTries + MaxTries
    <3>1. mem.phones.codes[k].tries \in 0..MaxTries /\ MaxTries \in Nat
      BY PhonesFacts, Limits DEF CodeOf, NoCode
    <3> QED BY <1>2, <3>1, PhonesFacts DEF CodeCounted
  <2> QED BY <1>2, <2>1, <2>2, <2>3 DEF CodeCounted
<1>5. ASSUME NEW j \in Codes, j # k PROVE CodeCounted(j)'
  <2>1. /\ mem'.phones.codes[j] = mem.phones.codes[j] /\ right'[j] = right[j] /\ wrong'[j] = wrong[j]
        /\ disk'.phones.codes[j] \in {disk.phones.codes[j], mem.phones.codes[j]}
    BY <1>1, <1>2, <1>3, <1>5 DEF PhonesBecome
  <2> QED BY <1>2, <2>1, PhonesFacts DEF CodeCounted
<1>6. \A j \in Codes : CodeCounted(j)'
  BY <1>4, <1>5
<1>7. call' \in [Clients -> CallsOf] /\ \A x \in Clients : FoundedCall(call[x])'
  BY CallMoves DEF world
<1>8. \A x \in Numbers : ~Passed(mem.phones.owner, Consumed(k).owner, x)
  BY ConsumedIs DEF Passed
<1> QED BY <1>1, <1>2, <1>6, <1>7, <1>8, ConsumedIs, PhonesStep DEF world

LEMMA VerifyLinkKeeps ==
  ASSUME IdentityIInv, NEW c \in Clients, NEW a \in Addrs, NEW k \in Codes, NEW saved \in BOOLEAN,
         VerifyLink(c, a, k, saved)
  PROVE  IdentityStep
<1> DEFINE code == mem.phones.codes[k]
           r    == IF saved /\ code.addr = a THEN [at |-> "link", me |-> a, other |-> code.number] ELSE Idle
<1>1. /\ Comparable(k, "link") /\ Update("phones", Consumed(k), saved)
      /\ right' = (IF saved THEN [right EXCEPT ![k] = @ + 1] ELSE right)
      /\ call' = [call EXCEPT ![c] = r] /\ UNCHANGED <<byAddr, world, wrong, strikes>>
  BY DEF VerifyLink, Goto, Return, Phones
<1>2. code.number \in Numbers
  BY <1>1, PhonesFacts DEF CodeOf, Comparable, Phones
<1>3. r \in CallsOf /\ FoundedCall(r)
  BY <1>2, IdleIsFounded DEF CallsOf, FoundedCall, CallStates, Migrating
<1> QED BY <1>1, <1>3, AcceptedKeeps
LEMMA VerifyRecoverKeeps ==
  ASSUME IdentityIInv, NEW c \in Clients, NEW a \in Addrs, NEW k \in Codes, NEW saved \in BOOLEAN,
         VerifyRecover(c, a, k, saved)
  PROVE  IdentityStep
<1> DEFINE owner == mem.phones.owner[mem.phones.codes[k].number]
           r     == IF saved /\ owner # None THEN [at |-> "recover", me |-> a, other |-> owner] ELSE Idle
<1>1. /\ Comparable(k, "recover") /\ Update("phones", Consumed(k), saved)
      /\ right' = (IF saved THEN [right EXCEPT ![k] = @ + 1] ELSE right)
      /\ call' = [call EXCEPT ![c] = r] /\ UNCHANGED <<byAddr, world, wrong, strikes>>
  BY DEF VerifyRecover, Goto, Return, Phones
<1>2. mem.phones.codes[k].number \in Numbers
  BY <1>1, PhonesFacts DEF CodeOf, Comparable, Phones
<1>3. owner \in Addrs \cup {None}
  BY <1>2, PhonesFacts
<1>4. r \in CallsOf /\ FoundedCall(r)
  BY <1>3, IdleIsFounded DEF CallsOf, FoundedCall, CallStates, Migrating
<1> QED BY <1>1, <1>4, AcceptedKeeps

(* A step that leaves codes and counts alone, from a request that becomes r. *)
LEMMA PhonesStepOf ==
  ASSUME IdentityIInv, NEW v \in PhonesOf, PhonesBecome(v), v.codes = mem.phones.codes,
         UNCHANGED <<byAddr, world, guesses>>,
         NEW c \in Clients, NEW r \in CallsOf, call' = [call EXCEPT ![c] = r], FoundedCall(r),
         \A p \in Numbers : Passed(mem.phones.owner, v.owner, p) =>
                              recoveredTo[mem.phones.owner[p]] = v.owner[p]
  PROVE  IdentityStep
<1>1. \A j \in Codes : CodeCounted(j)'
  BY PhonesCodesKept DEF guesses
<1>2. call' \in [Clients -> CallsOf] /\ \A x \in Clients : FoundedCall(call[x])'
  BY CallMoves DEF world
<1> QED BY <1>1, <1>2, PhonesFacts, PhonesStep DEF world, guesses, CountsAre

LEMMA RequestIs ==
  ASSUME IdentityIInv, NEW c \in Clients
  PROVE  call[c] \in CallsOf /\ FoundedCall(call[c])
BY DEF IdentityIInv, CountsAre

LEMMA NothingStored ==
  ASSUME IdentityIInv, UNCHANGED <<mem, disk, byAddr, world, guesses, mishaps>>,
         NEW c \in Clients, NEW r \in CallsOf, call' = [call EXCEPT ![c] = r], FoundedCall(r)
  PROVE  IdentityStep
<1>1. PhonesBecome(mem.phones)
  BY PhonesFacts, PhonesStay
<1>2. \A p \in Numbers : ~Passed(mem.phones.owner, mem.phones.owner, p)
  BY DEF Passed
<1> QED BY <1>1, <1>2, PhonesFacts, PhonesStepOf

LEMMA LinkNumberKeeps ==
  ASSUME IdentityIInv, NEW c \in Clients, NEW saved \in BOOLEAN, LinkNumber(c, saved)
  PROVE  IdentityStep
<1> DEFINE me    == call[c].me
           owner == [p \in Numbers |-> IF p = call[c].other THEN me
                                       ELSE IF mem.phones.owner[p] = me THEN None ELSE mem.phones.owner[p]]
           v     == [mem.phones EXCEPT !.owner = owner]
<1>1. /\ call[c].at = "link" /\ call' = [call EXCEPT ![c] = Idle]
      /\ UNCHANGED <<byAddr, world, guesses>>
  BY DEF LinkNumber, Return
<1>2. me \in Addrs /\ call[c].other \in Numbers
  BY <1>1, RequestIs DEF FoundedCall
<1>3. CASE mem.phones.owner[call[c].other] \in {None, me}
  <2>1. Update("phones", v, saved)
    BY <1>3 DEF LinkNumber, Phones
  <2>2. owner \in [Numbers -> Addrs \cup {None}]
    BY <1>2, PhonesFacts
  <2>3. v \in PhonesOf /\ v.owner = owner /\ v.codes = mem.phones.codes
    BY <2>2, PhonesFacts DEF PhonesOf
  <2>4. PhonesBecome(v)
    BY <2>1, <2>3, PhonesFacts, PhonesUpdate
  <2>5. \A p \in Numbers : ~Passed(mem.phones.owner, owner, p)
    BY <1>2, <1>3 DEF Passed
  <2> QED BY <1>1, <2>3, <2>4, <2>5, IdleIsFounded, PhonesStepOf
<1>4. CASE mem.phones.owner[call[c].other] \notin {None, me}
  <2>1. UNCHANGED <<mem, disk, mishaps>>
    BY <1>4 DEF LinkNumber, Phones
  <2> QED BY <1>1, <2>1, IdleIsFounded, NothingStored
<1> QED BY <1>3, <1>4

LEMMA AskGuardiansKeeps ==
  ASSUME IdentityIInv, NEW c \in Clients, NEW g \in BOOLEAN, NEW saved \in BOOLEAN,
         AskGuardians(c, g, saved)
  PROVE  IdentityStep
<1> DEFINE v == [mem.phones EXCEPT !.requests = @ \cup {<<call[c].other, call[c].me>>}]
<1>1. /\ call[c].at = "recover" /\ call' = [call EXCEPT ![c] = Idle]
      /\ UNCHANGED <<byAddr, world, guesses>>
  BY DEF AskGuardians, Return
<1>2. call[c].me \in Addrs /\ call[c].other \in Addrs
  BY <1>1, RequestIs DEF FoundedCall
<1>3. CASE g
  <2>1. Update("phones", v, saved)
    BY <1>3 DEF AskGuardians, Phones
  <2>2. v \in PhonesOf /\ v.owner = mem.phones.owner /\ v.codes = mem.phones.codes
    BY <1>2, PhonesFacts DEF PhonesOf
  <2>3. PhonesBecome(v)
    BY <2>1, <2>2, PhonesFacts, PhonesUpdate
  <2>4. \A p \in Numbers : ~Passed(mem.phones.owner, v.owner, p)
    BY <2>2 DEF Passed
  <2> QED BY <1>1, <2>2, <2>3, <2>4, IdleIsFounded, PhonesStepOf
<1>4. CASE ~g
  <2>1. UNCHANGED <<mem, disk, mishaps>>
    BY <1>4 DEF AskGuardians
  <2> QED BY <1>1, <2>1, IdleIsFounded, NothingStored
<1> QED BY <1>3, <1>4

LEMMA HourPassesKeeps ==
  ASSUME IdentityIInv, NEW p \in Numbers, HourPasses(p)
  PROVE  IdentityStep
<1> DEFINE v == [mem.phones EXCEPT !.sent[p] = 0]
           w == [disk.phones EXCEPT !.sent[p] = 0]
<1>1. /\ mem' = [mem EXCEPT !.phones = v] /\ disk' = [disk EXCEPT !.phones = w]
      /\ UNCHANGED <<byAddr, call, world, guesses, mishaps>>
  <2>1. mem' = [mem EXCEPT !.phones.sent[p] = 0] /\ disk' = [disk EXCEPT !.phones.sent[p] = 0]
        /\ UNCHANGED <<byAddr, call, world, guesses, mishaps>>
    BY DEF HourPasses
  <2> QED BY <2>1
<1>2. mem \in Stores /\ disk \in Stores /\ disk.phones \in PhonesOf
  BY PhonesFacts, StoreParts DEF IdentityTypeOK
<1>3. /\ v \in PhonesOf /\ v.owner = mem.phones.owner /\ v.codes = mem.phones.codes
      /\ w \in PhonesOf /\ w.codes = disk.phones.codes
  BY <1>2, PhonesFacts, Limits DEF PhonesOf
<1>4. /\ mem' \in Stores /\ disk' \in Stores
      /\ mem'.phones = v /\ mem'.users = mem.users /\ mem'.signins = mem.signins
      /\ mem'.referrals = mem.referrals /\ disk'.phones = w /\ disk'.users = disk.users
  BY <1>1, <1>2, <1>3, StoresAre
<1>5. IdentityTypeOK' /\ NamesAreInverse' /\ CountsAre'
  BY <1>1, <1>4, NamesKept DEF IdentityIInv, IdentityTypeOK, CountsAre, world, guesses
<1>6. \A j \in Codes : CodeCounted(j)'
  BY <1>1, <1>3, <1>4, CodesKept DEF guesses
<1>7. \A x \in Addrs : StrikesCounted(x)'
  BY <1>1, <1>4, StrikesKept DEF guesses
<1>8. \A x \in Clients : FoundedCall(call[x])'
  BY <1>1, CallsKept DEF world
<1>9. MovesByRecovery
  BY <1>3, <1>4 DEF MovesByRecovery, Passed
<1> QED BY <1>5, <1>6, <1>7, <1>8, <1>9 DEF IdentityStep, IdentityIInv
-----------------------------------------------------------------------------
(* signin.go *)

LEMMA SignInsStep ==
  ASSUME IdentityIInv, NEW v \in [Addrs -> SignInOf], SignInsBecome(v),
         UNCHANGED <<byAddr, world, right, wrong>>, strikes' \in [Addrs -> Nat],
         call' \in [Clients -> CallsOf] /\ \A x \in Clients : FoundedCall(call[x])',
         \A a \in Addrs : StrikesCounted(a)'
  PROVE  IdentityStep
<1>1. IdentityTypeOK' /\ NamesAreInverse'
  BY NamesKept DEF IdentityIInv, IdentityTypeOK, SignInsBecome
<1>3. CountsAre'
  BY DEF IdentityIInv, CountsAre, SignInsBecome, world
<1>4. mem'.phones = mem.phones /\ disk'.phones = disk.phones /\ mishaps'.crash = mishaps.crash
      /\ mem' \in Stores /\ disk' \in Stores
  BY DEF SignInsBecome
<1>5. \A k \in Codes : CodeCounted(k)'
  BY <1>4, CodesKept
<1>6. MovesByRecovery
  BY NothingPasses DEF SignInsBecome
<1> QED BY <1>1, <1>3, <1>5, <1>6 DEF IdentityStep, IdentityIInv

(* The record of a becomes rec, and a's count of wrong tokens is as said.  *)
LEMMA OneSignIn ==
  ASSUME IdentityIInv, NEW a \in Addrs, NEW rec \in SignInOf, NEW n \in Nat,
         strikes' = [strikes EXCEPT ![a] = n], mishaps'.crash = mishaps.crash,
         mem'.signins = [mem.signins EXCEPT ![a] = rec],
         n <= mishaps.crash * MaxFails + (IF rec.fails = MaxFails /\ ~rec.locked THEN 0 ELSE rec.fails)
  PROVE  strikes' \in [Addrs -> Nat] /\ \A x \in Addrs : StrikesCounted(x)'
<1>1. strikes \in [Addrs -> Nat] /\ mem.signins \in [Addrs -> SignInOf]
  BY StoreParts DEF IdentityIInv, IdentityTypeOK, CountsAre
<1>2. StrikesCounted(a)'
  BY <1>1 DEF StrikesCounted
<1>3. ASSUME NEW x \in Addrs, x # a PROVE StrikesCounted(x)'
  <2>1. mem'.signins[x] = mem.signins[x] /\ strikes'[x] = strikes[x] /\ StrikesCounted(x)
    BY <1>1, <1>3 DEF IdentityIInv
  <2> QED BY <2>1 DEF StrikesCounted
<1> QED BY <1>1, <1>2, <1>3

LEMMA SignInFacts ==
  ASSUME IdentityIInv
  PROVE  /\ IdentityTypeOK /\ CountsAre
         /\ mem.signins \in [Addrs -> SignInOf] /\ NoSignIn \in SignInOf
         /\ NoSignIn.fails = 0
         /\ mishaps.crash * MaxFails \in Nat /\ MaxFails \in Nat \ {0}
<1>1. mishaps.crash \in Nat /\ MaxFails \in Nat \ {0} /\ IdentityTypeOK /\ CountsAre
  BY Limits DEF IdentityIInv, CountsAre
<1>2. NoSignIn \in SignInOf /\ NoSignIn.fails = 0
  BY Limits DEF NoSignIn, SignInOf
<1> QED BY <1>1, <1>2, StoreParts DEF IdentityTypeOK

(* A record that is set, opened or deleted starts counting anew. *)
LEMMA ClearedKeeps ==
  ASSUME IdentityIInv, NEW a \in Addrs, NEW rec \in SignInOf, rec.fails = 0, NEW saved \in BOOLEAN,
         Update("signins", [mem.signins EXCEPT ![a] = rec], saved),
         strikes' = [strikes EXCEPT ![a] = 0], UNCHANGED <<byAddr, world, right, wrong>>,
         call' \in [Clients -> CallsOf] /\ \A x \in Clients : FoundedCall(call[x])'
  PROVE  IdentityStep
<1> DEFINE v == [mem.signins EXCEPT ![a] = rec]
<1>1. v \in [Addrs -> SignInOf]
  BY SignInFacts
<1>2. SignInsBecome(v)
  BY <1>1, SignInFacts, SignInsUpdate
<1>3. 0 <= mishaps.crash * MaxFails + (IF rec.fails = MaxFails /\ ~rec.locked THEN 0 ELSE rec.fails)
  BY SignInFacts
<1>4. mem'.signins = v /\ mishaps'.crash = mishaps.crash
  BY <1>2 DEF SignInsBecome
<1>5. strikes' \in [Addrs -> Nat] /\ \A x \in Addrs : StrikesCounted(x)'
  <2> DEFINE none == 0
  <2>1. none \in Nat /\ strikes' = [strikes EXCEPT ![a] = none]
        /\ none <= mishaps.crash * MaxFails + (IF rec.fails = MaxFails /\ ~rec.locked THEN 0 ELSE rec.fails)
    BY <1>3
  <2> HIDE DEF none
  <2> QED BY <1>4, <2>1, OneSignIn
<1> QED BY <1>1, <1>2, <1>5, SignInsStep

LEMMA StoreSignInKeeps ==
  ASSUME IdentityIInv, NEW c \in Clients, NEW saved \in BOOLEAN, StoreSignIn(c, saved)
  PROVE  IdentityStep
<1> DEFINE rec == [NoSignIn EXCEPT !.set = TRUE]
<1>1. rec \in SignInOf /\ rec.fails = 0
  BY SignInFacts DEF SignInOf, NoSignIn
<1>2. call[c].me \in Addrs
  BY RequestIs DEF FoundedCall, StoreSignIn
<1>3. call' \in [Clients -> CallsOf] /\ \A x \in Clients : FoundedCall(call[x])'
  BY CallMoves, IdleIsFounded DEF StoreSignIn, Return, world
<1> QED BY <1>1, <1>2, <1>3, ClearedKeeps DEF StoreSignIn

LEMMA DeleteSignInKeeps ==
  ASSUME IdentityIInv, NEW a \in Addrs, NEW saved \in BOOLEAN, DeleteSignIn(a, saved)
  PROVE  IdentityStep
<1>1. call' \in [Clients -> CallsOf] /\ \A x \in Clients : FoundedCall(call[x])'
  BY CallsKept DEF DeleteSignIn, world
<1> QED BY <1>1, ClearedKeeps, SignInFacts DEF DeleteSignIn

LEMMA TryTokenKeeps ==
  ASSUME IdentityIInv, NEW c \in Clients, NEW correct \in BOOLEAN, NEW saved \in BOOLEAN,
         TryToken(c, correct, saved)
  PROVE  IdentityStep
<1> DEFINE a   == call[c].me
           rec == mem.signins[a]
<1>1. /\ call[c].at = "open" /\ call' = [call EXCEPT ![c] = Idle]
      /\ UNCHANGED <<byAddr, world, right, wrong>>
  BY DEF TryToken, Return
<1>2. a \in Addrs /\ rec \in SignInOf
  BY <1>1, RequestIs, SignInFacts DEF FoundedCall
<1>6. call' \in [Clients -> CallsOf] /\ \A x \in Clients : FoundedCall(call[x])'
  BY <1>1, CallMoves, IdleIsFounded DEF world
<1>3. CASE ~rec.set \/ rec.locked
  <2>1. UNCHANGED <<mem, disk, mishaps, strikes>>
    BY <1>3 DEF TryToken
  <2> QED BY <1>1, <2>1, IdleIsFounded, NothingStored DEF guesses
<1>4. CASE rec.set /\ ~rec.locked /\ correct
  <2> DEFINE new == [NoSignIn EXCEPT !.set = TRUE]
  <2>1. new \in SignInOf /\ new.fails = 0
    BY SignInFacts DEF SignInOf, NoSignIn
  <2>2. Update("signins", [mem.signins EXCEPT ![a] = new], saved) /\ strikes' = [strikes EXCEPT ![a] = 0]
    BY <1>4 DEF TryToken
  <2> QED BY <1>1, <1>2, <1>6, <2>1, <2>2, ClearedKeeps
<1>5. CASE rec.set /\ ~rec.locked /\ ~correct
  <2> DEFINE fails == IF rec.fails < MaxFails THEN rec.fails + 1 ELSE rec.fails
             locks == rec.fails + 1 >= MaxFails
             new   == [rec EXCEPT !.fails = fails, !.locked = locks]
             v     == [mem.signins EXCEPT ![a] = new]
  <2>1. Refuse("signins", [mem.signins EXCEPT ![a].fails = IF @ < MaxFails THEN @ + 1 ELSE @,
                                              ![a].locked = rec.fails + 1 >= MaxFails])
        /\ strikes' = [strikes EXCEPT ![a] = @ + 1]
    BY <1>5 DEF TryToken
  <2>2. /\ rec.fails \in 0..MaxFails /\ MaxFails \in Nat \ {0}
        /\ fails \in 0..MaxFails /\ (fails = MaxFails => locks) /\ rec.fails <= fails
        /\ (~locks => fails = rec.fails + 1)
        /\ (rec.fails < MaxFails => fails = rec.fails + 1)
    BY <1>2, SignInFacts DEF SignInOf
  <2>3. locks \in BOOLEAN
    OBVIOUS
  <2>4. v = [mem.signins EXCEPT ![a].fails = IF @ < MaxFails THEN @ + 1 ELSE @,
                                ![a].locked = rec.fails + 1 >= MaxFails]
    BY <1>2, SignInFacts DEF SignInOf
  <2>5. strikes[a] \in Nat /\ StrikesCounted(a)
    BY <1>2 DEF IdentityIInv, CountsAre
  <2>6. strikes[a] + 1 <= mishaps.crash * MaxFails + fails
    BY <1>5, <2>2, <2>5, SignInFacts DEF StrikesCounted
  <2>7. (fails = MaxFails => locks) /\ fails \in 0..MaxFails
    BY <2>2
  <2> HIDE DEF locks, fails
  <2>8. new \in SignInOf /\ new.fails = fails /\ new.locked = locks
    BY <1>2, <2>3, <2>7 DEF SignInOf
  <2>9. v \in [Addrs -> SignInOf]
    BY <1>2, <2>8, SignInFacts
  <2>10. SignInsBecome(v)
    BY <2>1, <2>4, <2>9, SignInFacts, SignInsRefuse
  <2>11. strikes[a] + 1 <= mishaps.crash * MaxFails
                             + (IF new.fails = MaxFails /\ ~new.locked THEN 0 ELSE new.fails)
    BY <2>6, <2>7, <2>8
  <2>12. strikes' \in [Addrs -> Nat] /\ \A x \in Addrs : StrikesCounted(x)'
    <3>1. /\ strikes[a] + 1 \in Nat /\ strikes' = [strikes EXCEPT ![a] = strikes[a] + 1]
          /\ mishaps'.crash = mishaps.crash /\ mem'.signins = v
      <4>1. strikes[a] + 1 \in Nat
        BY <2>5
      <4>2. strikes' = [strikes EXCEPT ![a] = strikes[a] + 1]
        BY <2>1, Zenon
      <4> HIDE DEF v
      <4>3. mishaps'.crash = mishaps.crash /\ mem'.signins = v
        BY <2>10, Zenon DEF SignInsBecome
      <4> QED BY <4>1, <4>2, <4>3
    <3> QED BY <1>2, <2>8, <2>11, <3>1, OneSignIn
  <2> QED BY <1>1, <1>6, <2>9, <2>10, <2>12, SignInsStep
<1> QED BY <1>3, <1>4, <1>5

LEMMA LockEndsKeeps ==
  ASSUME IdentityIInv, NEW a \in Addrs, LockEnds(a)
  PROVE  IdentityStep
<1> DEFINE new == [mem.signins[a] EXCEPT !.locked = FALSE]
           v   == [mem.signins EXCEPT ![a] = new]
           w   == [disk.signins EXCEPT ![a] = [disk.signins[a] EXCEPT !.locked = FALSE]]
<1>1. /\ mem' = [mem EXCEPT !.signins = v] /\ disk' = [disk EXCEPT !.signins = w]
      /\ strikes' = [strikes EXCEPT ![a] = 0] /\ UNCHANGED <<byAddr, call, world, right, wrong, mishaps>>
  BY DEF LockEnds
<1>2. mem \in Stores /\ disk \in Stores /\ disk.signins \in [Addrs -> SignInOf]
      /\ mem.signins \in [Addrs -> SignInOf]
  BY SignInFacts, StoreParts DEF IdentityTypeOK
<1>3. new \in SignInOf /\ v \in [Addrs -> SignInOf] /\ w \in [Addrs -> SignInOf]
  BY <1>2 DEF SignInOf
<1>4. SignInsBecome(v)
  BY <1>1, <1>2, <1>3, StoresAre, SignInFacts DEF SignInsBecome, CountsAre
<1>5. 0 <= mishaps.crash * MaxFails + (IF new.fails = MaxFails /\ ~new.locked THEN 0 ELSE new.fails)
  BY <1>3, SignInFacts DEF SignInOf
<1>6. strikes' \in [Addrs -> Nat] /\ \A x \in Addrs : StrikesCounted(x)'
  BY <1>1, <1>3, <1>4, <1>5, OneSignIn DEF SignInsBecome
<1>7. call' \in [Clients -> CallsOf] /\ \A x \in Clients : FoundedCall(call[x])'
  BY <1>1, CallsKept DEF world
<1> QED BY <1>1, <1>3, <1>4, <1>6, <1>7, SignInsStep

LEMMA SetSignInKeeps ==
  ASSUME IdentityIInv, NEW c \in Clients, NEW a \in Addrs, SetSignIn(c, a)
  PROVE  IdentityStep
<1> DEFINE r == [at |-> "signin", me |-> a, other |-> None]
<1>1. r \in CallsOf /\ FoundedCall(r)
  BY DEF CallsOf, FoundedCall, CallStates, Migrating
<1> QED BY <1>1, NothingStored DEF SetSignIn, Goto

LEMMA OpenSignInKeeps ==
  ASSUME IdentityIInv, NEW c \in Clients, NEW n \in Names, OpenSignIn(c, n)
  PROVE  IdentityStep
<1> DEFINE r == [at |-> "open", me |-> mem.users[n], other |-> None]
<1>1. mem.users[n] \in Addrs
  BY SignInFacts, StoreParts DEF OpenSignIn, UsersOf, IdentityTypeOK
<1>2. r \in CallsOf /\ FoundedCall(r)
  BY <1>1 DEF CallsOf, FoundedCall, CallStates, Migrating
<1> QED BY <1>2, NothingStored DEF OpenSignIn, Goto
-----------------------------------------------------------------------------
(* migrateIdentity and referrals.go *)

LEMMA MigrateKeeps ==
  ASSUME IdentityIInv, NEW c \in Clients, NEW old \in Addrs, NEW me \in Addrs, Migrate(c, old, me)
  PROVE  IdentityStep
<1> DEFINE r == [at |-> "migrate phones", me |-> me, other |-> old]
<1>1. r \in CallsOf /\ FoundedCall(r)
  BY DEF CallsOf, FoundedCall, CallStates, Migrating, Migrate
<1> QED BY <1>1, NothingStored DEF Migrate, Goto

(* A migration goes on with what allowed it. *)
LEMMA MigrationGoesOn ==
  ASSUME IdentityIInv, NEW c \in Clients, NEW at \in Migrating, call[c].at \in Migrating
  PROVE  /\ call[c].me \in Addrs /\ call[c].other \in Addrs
         /\ recoveredTo[call[c].other] = call[c].me
         /\ [at |-> at, me |-> call[c].me, other |-> call[c].other] \in CallsOf
         /\ FoundedCall([at |-> at, me |-> call[c].me, other |-> call[c].other])
BY RequestIs DEF CallsOf, FoundedCall, CallStates, Migrating

LEMMA MigratePhonesKeeps ==
  ASSUME IdentityIInv, NEW c \in Clients, NEW saved \in BOOLEAN, MigratePhones(c, saved)
  PROVE  IdentityStep
<1> DEFINE me    == call[c].me
           old   == call[c].other
           owner == [p \in Numbers |-> IF mem.phones.owner[p] = old THEN me ELSE mem.phones.owner[p]]
           v     == [mem.phones EXCEPT !.owner = owner]
           r     == [at |-> "migrate signin", me |-> me, other |-> old]
<1>1. /\ call[c].at = "migrate phones" /\ call' = [call EXCEPT ![c] = r]
      /\ UNCHANGED <<byAddr, world, guesses>>
  BY DEF MigratePhones, Goto
<1>2. Update("phones", v, saved)
  BY DEF MigratePhones, Phones
<1>3. r \in CallsOf /\ FoundedCall(r) /\ me \in Addrs /\ recoveredTo[old] = me
  BY <1>1, MigrationGoesOn DEF Migrating
<1>4. owner \in [Numbers -> Addrs \cup {None}]
  BY <1>3, PhonesFacts
<1>5. v \in PhonesOf /\ v.owner = owner /\ v.codes = mem.phones.codes
  BY <1>4, PhonesFacts DEF PhonesOf
<1>6. PhonesBecome(v)
  BY <1>2, <1>5, PhonesFacts, PhonesUpdate
<1>7. \A p \in Numbers : Passed(mem.phones.owner, v.owner, p) =>
                          recoveredTo[mem.phones.owner[p]] = v.owner[p]
  BY <1>3, <1>5 DEF Passed
<1> QED BY <1>1, <1>3, <1>5, <1>6, <1>7, PhonesStepOf

LEMMA MigrateSignInKeeps ==
  ASSUME IdentityIInv, NEW c \in Clients, NEW saved \in BOOLEAN, MigrateSignIn(c, saved)
  PROVE  IdentityStep
<1> DEFINE r == [at |-> "migrate name", me |-> call[c].me, other |-> call[c].other]
<1>1. r \in CallsOf /\ FoundedCall(r) /\ call[c].other \in Addrs
  BY MigrationGoesOn DEF Migrating, MigrateSignIn
<1>2. call' \in [Clients -> CallsOf] /\ \A x \in Clients : FoundedCall(call[x])'
  BY <1>1, CallMoves DEF MigrateSignIn, Goto, world
<1> QED BY <1>1, <1>2, ClearedKeeps, SignInFacts DEF MigrateSignIn

LEMMA MigrateNameKeeps ==
  ASSUME IdentityIInv, NEW c \in Clients, NEW saved \in BOOLEAN, MigrateName(c, saved)
  PROVE  IdentityStep
<1> DEFINE old   == call[c].other
           me    == call[c].me
           name  == byAddr[old]
           moves == name # None /\ byAddr[me] = None
           v     == IF moves THEN [mem.users EXCEPT ![name] = me] ELSE mem.users
<1>1. /\ call[c].at = "migrate name" /\ call' = [call EXCEPT ![c] = Idle]
      /\ UNCHANGED <<world, guesses>>
  BY DEF MigrateName, Return
<1>2. old \in Addrs /\ me \in Addrs /\ recoveredTo[old] = me
  BY <1>1, MigrationGoesOn DEF Migrating
<1>3. /\ IdentityTypeOK /\ CountsAre /\ NamesAreInverse /\ mem \in Stores /\ disk \in Stores
      /\ byAddr \in [Addrs -> Names \cup {None}]
  BY DEF IdentityIInv, IdentityTypeOK
<1>4. mem.users \in UsersOf /\ v \in UsersOf
  BY <1>2, <1>3, StoreParts DEF UsersOf
<1>5. /\ Update("users", v, saved)
      /\ byAddr' = IF moves THEN [byAddr EXCEPT ![old] = None, ![me] = name] ELSE byAddr
  BY DEF MigrateName
<1>6. /\ mem' \in Stores /\ disk' \in Stores
      /\ mem'.users = v /\ mem'.phones = mem.phones
      /\ mem'.signins = mem.signins /\ mem'.referrals = mem.referrals
      /\ disk'.users \in {v, disk.users} /\ disk'.phones = disk.phones
      /\ mishaps' \in [crash : Nat, unsaved : Nat] /\ mishaps'.crash = mishaps.crash
  BY <1>3, <1>4, <1>5, UsersUpdate
<1>7. moves => name \in Names /\ mem.users[name] = old /\ old # me
  BY <1>2, <1>3 DEF NamesAreInverse
<1>8. IdentityTypeOK' /\ NamesAreInverse'
  <2>1. CASE moves
    <3>1. byAddr' = [byAddr EXCEPT ![old] = None, ![me] = name] /\ v = [mem.users EXCEPT ![name] = me]
      BY <1>5, <2>1
    <3>2. IdentityTypeOK'
      BY <1>2, <1>3, <1>6, <1>7, <2>1, <3>1 DEF IdentityTypeOK
    <3>3. ASSUME NEW n \in Names, v[n] # None PROVE byAddr'[v[n]] = n
      <4>1. CASE n = name
        BY <1>2, <1>3, <1>4, <1>7, <3>1, <4>1 DEF UsersOf
      <4>2. CASE n # name
        <5>1. v[n] = mem.users[n] /\ mem.users[n] \in Addrs
          BY <1>4, <3>1, <3>3, <4>2 DEF UsersOf
        <5>2. byAddr[mem.users[n]] = n /\ n # None
          BY <1>3, <3>3, <5>1, Limits DEF NamesAreInverse
        <5>3. mem.users[n] # old /\ mem.users[n] # me
          BY <2>1, <4>2, <5>2
        <5> QED BY <1>3, <3>1, <5>1, <5>2, <5>3
      <4> QED BY <4>1, <4>2
    <3>4. ASSUME NEW a \in Addrs, byAddr'[a] # None PROVE v[byAddr'[a]] = a
      BY <1>2, <1>3, <1>4, <1>7, <2>1, <3>1, <3>4 DEF NamesAreInverse, UsersOf
    <3>5. \A m, n \in Names : (m # n /\ v[m] # None) => v[m] # v[n]
      BY <3>3
    <3>7. mem'.users = v /\ (disk'.users = v \/ disk'.users = disk.users)
      BY <1>6
    <3>8. \A m, n \in Names : (m # n /\ disk.users[m] # None) => disk.users[m] # disk.users[n]
      BY <1>3 DEF NamesAreInverse
    <3> HIDE DEF v
    <3>6. \A m, n \in Names : (m # n /\ disk'.users[m] # None) => disk'.users[m] # disk'.users[n]
      <4>1. CASE disk'.users = v
        BY <3>5, <4>1
      <4>2. CASE disk'.users = disk.users
        BY <3>8, <4>2
      <4> QED BY <3>7, <4>1, <4>2
    <3> QED BY <3>2, <3>3, <3>4, <3>6, <3>7 DEF NamesAreInverse
  <2>2. CASE ~moves
    <3>1. v = mem.users /\ byAddr' = byAddr
      BY <1>5, <2>2
    <3> QED BY <1>3, <1>6, <3>1, NamesKept DEF IdentityTypeOK
  <2> QED BY <2>1, <2>2
<1>9. CountsAre' /\ \A x \in Clients : FoundedCall(call[x])'
  BY <1>1, <1>3, <1>6, IdleIsFounded, CallMoves DEF CountsAre, world, guesses
<1>10. \A k \in Codes : CodeCounted(k)'
  BY <1>1, <1>6, CodesKept DEF guesses
<1>11. \A x \in Addrs : StrikesCounted(x)'
  BY <1>1, <1>6, StrikesKept DEF guesses
<1>12. MovesByRecovery
  BY <1>2, <1>4, <1>6, <1>7 DEF MovesByRecovery, Passed, UsersOf
<1> QED BY <1>8, <1>9, <1>10, <1>11, <1>12 DEF IdentityStep, IdentityIInv

LEMMA FindReferrerKeeps ==
  ASSUME IdentityIInv, NEW c \in Clients, NEW a \in Addrs, NEW n \in Names, FindReferrer(c, a, n)
  PROVE  IdentityStep
<1> DEFINE r == [at |-> "refer", me |-> a, other |-> mem.users[n]]
<1>1. mem.users[n] \in Addrs
  BY SignInFacts, StoreParts DEF FindReferrer, UsersOf, IdentityTypeOK
<1>2. r \in CallsOf /\ FoundedCall(r)
  BY <1>1 DEF CallsOf, FoundedCall, CallStates, Migrating
<1> QED BY <1>2, NothingStored DEF FindReferrer, Goto

LEMMA RecordReferralKeeps ==
  ASSUME IdentityIInv, NEW c \in Clients, NEW saved \in BOOLEAN, RecordReferral(c, saved)
  PROVE  IdentityStep
<1> DEFINE me == call[c].me
           v  == [mem.referrals EXCEPT ![me] = call[c].other]
<1>1. /\ call[c].at = "refer" /\ call' = [call EXCEPT ![c] = Idle]
      /\ UNCHANGED <<byAddr, world, guesses>>
  BY DEF RecordReferral, Return
<1>2. me \in Addrs /\ call[c].other \in Addrs
  BY <1>1, RequestIs DEF FoundedCall
<1>3. /\ IdentityTypeOK /\ CountsAre /\ NamesAreInverse
  BY DEF IdentityIInv
<1>4. CASE mem.referrals[me] = None
  <2>1. Update("referrals", v, saved)
    BY <1>4 DEF RecordReferral
  <2>2. mem.referrals \in ReferralOf /\ v \in ReferralOf
    BY <1>2, <1>3, StoreParts DEF ReferralOf, IdentityTypeOK
  <2>3. /\ mem' \in Stores /\ disk' \in Stores
        /\ mem'.referrals = v /\ mem'.users = mem.users
        /\ mem'.phones = mem.phones /\ mem'.signins = mem.signins
        /\ disk'.users = disk.users /\ disk'.phones = disk.phones
        /\ mishaps' \in [crash : Nat, unsaved : Nat] /\ mishaps'.crash = mishaps.crash
    BY <1>3, <2>1, <2>2, ReferralsUpdate
  <2>4. IdentityTypeOK' /\ NamesAreInverse'
    BY <1>1, <1>3, <2>3, NamesKept DEF IdentityTypeOK
  <2>5. CountsAre' /\ \A x \in Clients : FoundedCall(call[x])'
    BY <1>1, <1>3, <2>3, IdleIsFounded, CallMoves DEF CountsAre, world, guesses
  <2>6. \A k \in Codes : CodeCounted(k)'
    BY <1>1, <2>3, CodesKept DEF guesses
  <2>7. \A x \in Addrs : StrikesCounted(x)'
    BY <1>1, <2>3, StrikesKept DEF guesses
  <2>8. MovesByRecovery
    BY <1>4, <2>2, <2>3 DEF MovesByRecovery, Passed, ReferralOf
  <2> QED BY <2>4, <2>5, <2>6, <2>7, <2>8 DEF IdentityStep, IdentityIInv
<1>5. CASE mem.referrals[me] # None
  <2>1. UNCHANGED <<mem, disk, mishaps>>
    BY <1>5 DEF RecordReferral
  <2> QED BY <1>1, <2>1, IdleIsFounded, NothingStored
<1> QED BY <1>4, <1>5
-----------------------------------------------------------------------------
(* The chain, the clock and restarts. *)

LEMMA RecoverKeeps ==
  ASSUME IdentityIInv, NEW old \in Addrs, NEW new \in Addrs, Recover(old, new)
  PROVE  IdentityStep
<1>1. /\ recoveredTo[old] = None /\ recoveredTo' = [recoveredTo EXCEPT ![old] = new]
      /\ UNCHANGED <<mem, disk, byAddr, call, lapsed, uses, guesses, mishaps>>
  BY DEF Recover
<1>2. CountsAre'
  BY <1>1 DEF IdentityIInv, CountsAre, guesses
<1>3. ASSUME NEW c \in Clients PROVE FoundedCall(call[c])'
  <2>1. FoundedCall(call[c]) /\ recoveredTo \in [Addrs -> Addrs \cup {None}]
    BY DEF IdentityIInv, CountsAre
  <2> QED BY <1>1, <2>1, Limits DEF FoundedCall, Migrating
<1>4. IdentityTypeOK' /\ NamesAreInverse'
  BY <1>1 DEF IdentityIInv, IdentityTypeOK, NamesAreInverse
<1>5. (\A k \in Codes : CodeCounted(k)') /\ \A a \in Addrs : StrikesCounted(a)'
  BY <1>1 DEF IdentityIInv, CodeCounted, StrikesCounted, guesses
<1>6. MovesByRecovery
  BY <1>1, NothingPasses
<1> QED BY <1>2, <1>3, <1>4, <1>5, <1>6 DEF IdentityStep, IdentityIInv

(* Nothing but what has lapsed, or nothing at all. *)
LEMMA LapseKeeps ==
  ASSUME IdentityIInv, UNCHANGED <<mem, disk, byAddr, call, recoveredTo, guesses, mishaps>>
  PROVE  IdentityStep
<1>1. IdentityTypeOK' /\ NamesAreInverse' /\ CountsAre' /\ \A c \in Clients : FoundedCall(call[c])'
  BY DEF IdentityIInv, IdentityTypeOK, NamesAreInverse, CountsAre, FoundedCall, guesses
<1>2. (\A k \in Codes : CodeCounted(k)') /\ \A a \in Addrs : StrikesCounted(a)'
  BY DEF IdentityIInv, CodeCounted, StrikesCounted, guesses
<1>3. MovesByRecovery
  BY NothingPasses
<1> QED BY <1>1, <1>2, <1>3 DEF IdentityStep, IdentityIInv

(* The index of names of which no two have one address is their inverse.   *)
LEMMA IndexIsInverse ==
  ASSUME NEW users \in UsersOf,
         \A m, n \in Names : (m # n /\ users[m] # None) => users[m] # users[n]
  PROVE  /\ IndexOf(users) \in [Addrs -> Names \cup {None}]
         /\ \A n \in Names : users[n] # None => IndexOf(users)[users[n]] = n
         /\ \A a \in Addrs : IndexOf(users)[a] # None => users[IndexOf(users)[a]] = a
<1>1. ASSUME NEW a \in Addrs
      PROVE  /\ IndexOf(users)[a] \in Names \cup {None}
             /\ IndexOf(users)[a] # None => users[IndexOf(users)[a]] = a
             /\ \A n \in Names : users[n] = a => IndexOf(users)[a] = n
  <2>1. CASE \E n \in Names : users[n] = a
    <3> DEFINE m == CHOOSE n \in Names : users[n] = a
    <3>1. m \in Names /\ users[m] = a /\ IndexOf(users)[a] = m
      BY <2>1 DEF IndexOf
    <3>2. a # None
      BY Limits
    <3> QED BY <3>1, <3>2
  <2>2. CASE ~\E n \in Names : users[n] = a
    BY <2>2 DEF IndexOf
  <2> QED BY <2>1, <2>2
<1>2. IndexOf(users) = [a \in Addrs |-> IndexOf(users)[a]]
  BY DEF IndexOf
<1>3. IndexOf(users) \in [Addrs -> Names \cup {None}]
  BY <1>1, <1>2
<1>4. ASSUME NEW n \in Names, users[n] # None PROVE IndexOf(users)[users[n]] = n
  BY <1>1, <1>4 DEF UsersOf
<1> QED BY <1>1, <1>3, <1>4

LEMMA RestartKeeps ==
  ASSUME IdentityIInv, Restart
  PROVE  IdentityStep
<1>1. /\ mishaps' = [mishaps EXCEPT !.crash = @ + 1] /\ mem' = disk /\ disk' = disk
      /\ byAddr' = IndexOf(disk.users) /\ call' = [c \in Clients |-> Idle]
      /\ UNCHANGED <<world, guesses>>
  BY DEF Restart
<1>2. /\ IdentityTypeOK /\ CountsAre /\ NamesAreInverse /\ mem \in Stores /\ disk \in Stores
      /\ disk.users \in UsersOf
  BY StoreParts DEF IdentityIInv, IdentityTypeOK
<1>3. /\ mishaps.crash \in Nat /\ mishaps'.crash = mishaps.crash + 1
      /\ mishaps' \in [crash : Nat, unsaved : Nat]
  BY <1>1, <1>2 DEF CountsAre
<1>4. IdentityTypeOK' /\ NamesAreInverse'
  BY <1>1, <1>2, IndexIsInverse DEF IdentityTypeOK, NamesAreInverse
<1>5. CountsAre'
  BY <1>1, <1>2, <1>3, IdleIsFounded DEF CountsAre, world, guesses
<1>6. \A c \in Clients : FoundedCall(call[c])'
  BY <1>1 DEF FoundedCall, Idle, Migrating
<1>7. ASSUME NEW k \in Codes PROVE CodeCounted(k)'
  <2>1. /\ CodeCounted(k) /\ mem.phones.codes[k] \in CodeOf /\ disk.phones.codes[k] \in CodeOf
        /\ wrong[k] \in Nat
    BY <1>2, StoreParts DEF IdentityIInv, CountsAre
  <2>2. /\ mem.phones.codes[k].tries \in 0..MaxTries /\ disk.phones.codes[k].tries \in 0..MaxTries
        /\ MaxTries \in Nat
    BY <2>1, Limits DEF CodeOf, NoCode
  <2>3. mishaps'.crash * MaxTries = mishaps.crash * MaxTries + MaxTries /\ mishaps.crash * MaxTries \in Nat
    BY <1>3, <2>2
  <2>4. wrong[k] <= mishaps.crash * MaxTries + MaxTries
    BY <2>1, <2>2, <2>3 DEF CodeCounted
  <2> QED BY <1>1, <2>1, <2>2, <2>3, <2>4 DEF CodeCounted, guesses
<1>8. ASSUME NEW a \in Addrs PROVE StrikesCounted(a)'
  <2>1. /\ StrikesCounted(a) /\ mem.signins[a] \in SignInOf /\ disk.signins[a] \in SignInOf
        /\ strikes[a] \in Nat
    BY <1>2, StoreParts DEF IdentityIInv, CountsAre
  <2>2. /\ mem.signins[a].fails \in 0..MaxFails /\ disk.signins[a].fails \in 0..MaxFails
        /\ MaxFails \in Nat
    BY <2>1, Limits DEF SignInOf
  <2>3. mishaps'.crash * MaxFails = mishaps.crash * MaxFails + MaxFails /\ mishaps.crash * MaxFails \in Nat
    BY <1>3, <2>2
  <2>4. strikes[a] <= mishaps.crash * MaxFails + MaxFails
    BY <2>1, <2>2, <2>3 DEF StrikesCounted
  <2> QED BY <1>1, <2>1, <2>2, <2>3, <2>4 DEF StrikesCounted, guesses
<1>9. MovesByRecovery
  BY <1>3 DEF MovesByRecovery
<1> QED BY <1>4, <1>5, <1>6, <1>7, <1>8, <1>9 DEF IdentityStep, IdentityIInv

-----------------------------------------------------------------------------
LEMMA IdentityInitInv == IdentityInit => IdentityIInv
<1> SUFFICES ASSUME IdentityInit PROVE IdentityIInv
  OBVIOUS
<1>1. Empty \in Stores
  <2>1. [n \in Names |-> None] \in UsersOf
    BY DEF UsersOf
  <2>2. [owner |-> [p \in Numbers |-> None], codes |-> [k \in Codes |-> NoCode],
         sent |-> [p \in Numbers |-> 0], requests |-> {}] \in PhonesOf
    BY Limits DEF PhonesOf, CodeOf
  <2>3. [a \in Addrs |-> NoSignIn] \in [Addrs -> SignInOf]
    BY Limits DEF NoSignIn, SignInOf
  <2>4. [a \in Addrs |-> None] \in ReferralOf
    BY DEF ReferralOf
  <2> QED BY <2>1, <2>2, <2>3, <2>4, StoresAre DEF Empty
<1>2. IdentityTypeOK /\ NamesAreInverse
  BY <1>1 DEF IdentityInit, IdentityTypeOK, NamesAreInverse, Empty
<1>3. CountsAre
  BY IdleIsFounded DEF IdentityInit, CountsAre
<1>4. \A c \in Clients : FoundedCall(call[c])
  BY IdleIsFounded DEF IdentityInit
<1>5. ASSUME NEW k \in Codes PROVE CodeCounted(k)
  <2>1. /\ mem.phones.codes[k] = NoCode /\ disk.phones.codes[k] = NoCode
        /\ right[k] = 0 /\ wrong[k] = 0 /\ mishaps.crash = 0
    BY DEF IdentityInit, Empty
  <2> QED BY <2>1, Limits DEF CodeCounted
<1>6. ASSUME NEW a \in Addrs PROVE StrikesCounted(a)
  <2>1. mem.signins[a].fails = 0 /\ strikes[a] = 0 /\ mishaps.crash = 0
    BY DEF IdentityInit, Empty, NoSignIn
  <2> QED BY <2>1, Limits DEF StrikesCounted
<1> QED BY <1>2, <1>3, <1>4, <1>5, <1>6 DEF IdentityIInv

LEMMA IdentityNextKeeps == IdentityIInv /\ [IdentityNext]_identityVars => IdentityIInv' /\ [MovesByRecovery]_identityVars
<1> SUFFICES ASSUME IdentityIInv, [IdentityNext]_identityVars PROVE IdentityStep
  BY DEF IdentityStep
<1>1. CASE Restart
  BY <1>1, RestartKeeps
<1>2. CASE UNCHANGED identityVars
  BY <1>2, LapseKeeps DEF identityVars, world
<1>3. ASSUME NEW saved \in BOOLEAN, NameStep(saved) PROVE IdentityStep
  BY <1>3, ClaimKeeps DEF NameStep
<1>4. ASSUME NEW saved \in BOOLEAN, PhoneStep(saved) PROVE IdentityStep
  <2>1. ASSUME NEW k \in Codes, CodeExpires(k) PROVE IdentityStep
    BY <2>1, LapseKeeps DEF CodeExpires
  <2> QED BY <1>4, <2>1, StartPhoneKeeps, WrongCodeKeeps, VerifyLinkKeeps, VerifyRecoverKeeps,
             LinkNumberKeeps, AskGuardiansKeeps, HourPassesKeeps DEF PhoneStep
<1>5. ASSUME NEW saved \in BOOLEAN, SignInStep(saved) PROVE IdentityStep
  BY <1>5, StoreSignInKeeps, TryTokenKeeps, OpenSignInKeeps, SetSignInKeeps, DeleteSignInKeeps,
     LockEndsKeeps DEF SignInStep
<1>6. ASSUME NEW saved \in BOOLEAN, ReferStep(saved) PROVE IdentityStep
  BY <1>6, RecordReferralKeeps, FindReferrerKeeps DEF ReferStep
<1>7. ASSUME NEW saved \in BOOLEAN, MigrateStep(saved) PROVE IdentityStep
  BY <1>7, MigratePhonesKeeps, MigrateSignInKeeps, MigrateNameKeeps, MigrateKeeps, RecoverKeeps
     DEF MigrateStep
<1> QED BY <1>1, <1>2, <1>3, <1>4, <1>5, <1>6, <1>7 DEF IdentityNext

LEMMA GuessesFollow == IdentityIInv => GuessesAreLimited
<1> SUFFICES ASSUME IdentityIInv PROVE GuessesAreLimited
  OBVIOUS
<1>0. mishaps.crash \in Nat
  BY DEF IdentityIInv, CountsAre
<1>1. ASSUME NEW k \in Codes PROVE right[k] <= 1 /\ wrong[k] <= (mishaps.crash + 1) * MaxTries
  <2>1. mem.phones.codes[k].tries \in 0..MaxTries /\ MaxTries \in Nat
    BY PhonesFacts, Limits DEF CodeOf, NoCode
  <2>2. (mishaps.crash + 1) * MaxTries = mishaps.crash * MaxTries + MaxTries
        /\ mishaps.crash * MaxTries \in Nat
    BY <1>0, <2>1
  <2>3. wrong[k] \in Nat /\ CodeCounted(k)
    BY DEF IdentityIInv, CountsAre
  <2> QED BY <2>1, <2>2, <2>3 DEF CodeCounted
<1>2. ASSUME NEW a \in Addrs PROVE strikes[a] <= (mishaps.crash + 1) * MaxFails
  <2>1. mem.signins[a].fails \in 0..MaxFails /\ MaxFails \in Nat
    BY SignInFacts DEF SignInOf
  <2>2. (mishaps.crash + 1) * MaxFails = mishaps.crash * MaxFails + MaxFails
        /\ mishaps.crash * MaxFails \in Nat
    BY <1>0, <2>1
  <2>3. strikes[a] \in Nat /\ StrikesCounted(a)
    BY DEF IdentityIInv, CountsAre
  <2> QED BY <2>1, <2>2, <2>3 DEF StrikesCounted
<1> QED BY <1>1, <1>2 DEF GuessesAreLimited

(* Names and their index stay each other's inverse, and the files free of  *)
(* double names, for any requests at a time, restarts and failed writes     *)
(* (directory.claim, migrateIdentity, openDirectory).                       *)
THEOREM NamesStayInverse == IdentitySpec => []IdentityInv
<1>1. IdentityIInv => IdentityInv
  BY DEF IdentityIInv, IdentityInv
<1> QED BY <1>1, IdentityInitInv, IdentityNextKeeps, PTL DEF IdentitySpec

(* A code is accepted once at most and guesses at a code or a token are     *)
(* limited in each life of the process (checkOTP, openSignIn).              *)
THEOREM GuessesStayLimited == IdentitySpec => []GuessesAreLimited
BY GuessesFollow, IdentityInitInv, IdentityNextKeeps, PTL DEF IdentitySpec

(* Names and numbers pass from one wallet to another only by a recovery the *)
(* chain shows, and referrals are final.                                    *)
THEOREM IdentityFollowsRecovery == IdentitySpec => IdentityMovesByRecovery
BY IdentityInitInv, IdentityNextKeeps, PTL DEF IdentitySpec, IdentityMovesByRecovery
=============================================================================

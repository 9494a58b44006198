---------------------------- MODULE OrdersProofs ----------------------------
(***************************************************************************)
(* What the webhooks of the ORPay backend tell an app is true, and they    *)
(* leave a queue in order.  The inductive invariant OrdersIInv relates     *)
(* what was told to what was seen of an escrow, what was seen to the chain *)
(* it was seen on, and what the watcher is about to record to both.        *)
(***************************************************************************)
EXTENDS Orders, FiniteSetTheorems, TLAPS

-----------------------------------------------------------------------------
(* How often an event is in a queue. *)

LEMMA SeqElement ==
  ASSUME NEW S, NEW s \in Seq(S), NEW i \in DOMAIN s
  PROVE  s[i] \in S
OBVIOUS

LEMMA ConcatIs ==
  ASSUME NEW S, NEW s \in Seq(S), NEW t \in Seq(S)
  PROVE  /\ s \o t \in Seq(S) /\ Len(s) \in Nat /\ Len(t) \in Nat /\ Len(s \o t) = Len(s) + Len(t)
         /\ DOMAIN s = 1..Len(s) /\ DOMAIN t = 1..Len(t) /\ DOMAIN (s \o t) = 1..(Len(s) + Len(t))
         /\ \A k \in 1..Len(s) : (s \o t)[k] = s[k]
         /\ \A k \in 1..Len(t) : (s \o t)[Len(s) + k] = t[k]
OBVIOUS

LEMMA CountType ==
  ASSUME NEW S, NEW s \in Seq(S), NEW e
  PROVE  IsFiniteSet({k \in DOMAIN s : s[k] = e}) /\ Count(s, e) \in Nat
<1>1. Len(s) \in Nat /\ DOMAIN s = 1..Len(s)
  OBVIOUS
<1>2. IsFiniteSet(DOMAIN s)
  BY <1>1, FS_Interval
<1>3. IsFiniteSet({k \in DOMAIN s : s[k] = e})
  BY <1>2, FS_Subset
<1> QED BY <1>3, FS_CardinalityType DEF Count

LEMMA CountConcat ==
  ASSUME NEW S, NEW s \in Seq(S), NEW t \in Seq(S), NEW e
  PROVE  Count(s \o t, e) = Count(s, e) + Count(t, e)
<1>1. /\ Len(s) \in Nat /\ Len(t) \in Nat
      /\ DOMAIN s = 1..Len(s) /\ DOMAIN t = 1..Len(t) /\ DOMAIN (s \o t) = 1..(Len(s) + Len(t))
      /\ \A k \in 1..Len(s) : (s \o t)[k] = s[k]
      /\ \A k \in 1..Len(t) : (s \o t)[Len(s) + k] = t[k]
  BY ConcatIs
<1>p. PICK m \in Nat, n \in Nat : m = Len(s) /\ n = Len(t)
  BY <1>1
<1>q. PICK u : u = s \o t
  OBVIOUS
<1>2. u = s \o t /\ m = Len(s) /\ n = Len(t)
  BY <1>p, <1>q
<1>3. /\ DOMAIN s = 1..m /\ DOMAIN t = 1..n /\ DOMAIN u = 1..(m + n)
      /\ \A k \in 1..m : u[k] = s[k]
      /\ \A k \in 1..n : u[m + k] = t[k]
  BY <1>1, <1>2, Zenon
<1> DEFINE A == {k \in DOMAIN s : s[k] = e}
           B == {k \in DOMAIN t : t[k] = e}
           C == {k \in (m + 1)..(m + n) : u[k] = e}
           D == {k \in DOMAIN u : u[k] = e}
           f == [k \in B |-> m + k]
<1>4. IsFiniteSet(A) /\ IsFiniteSet(B)
  BY CountType
<1>5. IsFiniteSet(C) /\ Cardinality(C) = Cardinality(B)
  <2>1. f \in [B -> C]
    BY <1>3
  <2>2. \A j, k \in B : f[j] = f[k] => j = k
    BY <1>3
  <2>3. \A c \in C : \E k \in B : f[k] = c
    <3>1. SUFFICES ASSUME NEW c \in C PROVE \E k \in B : f[k] = c
      OBVIOUS
    <3>2. c - m \in 1..n /\ m + (c - m) = c
      OBVIOUS
    <3>3. t[c - m] = u[c] /\ u[c] = e
      BY <1>3, <3>2
    <3> QED BY <1>3, <3>2, <3>3
  <2>4. ExistsBijection(B, C)
    <3> HIDE DEF f, B, C
    <3>1. f \in Injection(B, C) /\ f \in Surjection(B, C)
      BY <2>1, <2>2, <2>3 DEF Injection, IsInjective, Surjection
    <3> QED BY <3>1 DEF Bijection, ExistsBijection
  <2> HIDE DEF B, C
  <2> QED BY <1>4, <2>4, FS_Bijection
<1>6. D = A \cup C /\ A \cap C = {}
  BY <1>3
<1>7. Cardinality(A \cup C) = Cardinality(A) + Cardinality(C) - Cardinality(A \cap C)
  <2> HIDE DEF A, C
  <2> QED BY <1>4, <1>5, FS_Union
<1>8. Cardinality(A) \in Nat /\ Cardinality(C) \in Nat
  BY <1>4, <1>5, FS_CardinalityType
<1> HIDE DEF A, B, C, D
<1>9. Cardinality(D) = Cardinality(A) + Cardinality(B)
  <2>1. Cardinality(A \cap C) = 0
    BY <1>6, FS_EmptySet
  <2>2. Cardinality(D) = Cardinality(A) + Cardinality(C) - 0
    BY <1>6, <1>7, <2>1
  <2> QED BY <1>5, <1>8, <2>2
<1>10. Count(u, e) = Count(s, e) + Count(t, e)
  BY <1>9 DEF Count, A, B, D
<1> QED BY <1>2, <1>10

LEMMA CountEmpty ==
  ASSUME NEW e
  PROVE  Count(<<>>, e) = 0
<1>1. {k \in DOMAIN <<>> : <<>>[k] = e} = {}
  OBVIOUS
<1> QED BY <1>1, FS_EmptySet DEF Count

Uniform(s, n, x) == DOMAIN s = 1..n /\ \A k \in 1..n : s[k] = x

LEMMA CountSame ==
  ASSUME NEW n \in Nat, NEW x, NEW e, NEW s, Uniform(s, n, x)
  PROVE  Count(s, e) = IF x = e THEN n ELSE 0
<1>1. CASE x = e
  <2>1. {k \in DOMAIN s : s[k] = e} = 1..n
    BY <1>1 DEF Uniform
  <2>2. Cardinality(1..n) = n
    BY FS_Interval
  <2> QED BY <1>1, <2>1, <2>2 DEF Count
<1>2. CASE x # e
  <2>1. {k \in DOMAIN s : s[k] = e} = {}
    BY <1>2 DEF Uniform
  <2> QED BY <1>2, <2>1, FS_EmptySet DEF Count
<1> QED BY <1>1, <1>2

LEMMA CountOne ==
  ASSUME NEW x, NEW e
  PROVE  Count(<<x>>, e) = IF x = e THEN 1 ELSE 0
<1>1. CASE x = e
  <2>1. {k \in DOMAIN <<x>> : <<x>>[k] = e} = {1}
    BY <1>1
  <2> QED BY <1>1, <2>1, FS_Singleton DEF Count
<1>2. CASE x # e
  <2>1. {k \in DOMAIN <<x>> : <<x>>[k] = e} = {}
    BY <1>2
  <2> QED BY <1>2, <2>1, FS_EmptySet DEF Count
<1> QED BY <1>1, <1>2

Few(s, p, x) == s = IF p THEN <<x>> ELSE <<>>

LEMMA CountFew ==
  ASSUME NEW s, NEW x, NEW e, NEW p \in BOOLEAN, Few(s, p, x)
  PROVE  Count(s, e) = IF p /\ x = e THEN 1 ELSE 0
<1>1. CASE p
  <2>1. s = <<x>>
    BY <1>1 DEF Few
  <2> QED BY <1>1, <2>1, CountOne
<1>2. CASE ~p
  <2>1. s = <<>>
    BY <1>2 DEF Few
  <2> QED BY <1>2, <2>1, CountEmpty
<1> QED BY <1>1, <1>2

-----------------------------------------------------------------------------
(* The inductive invariant. *)

OnChain    == Life!Live \cup Endings
LifeStates == OnChain \cup {"none"}
Escrowed   == [status : LifeStates, released : Nat, count : Nat]

LifeIs(l) ==
  /\ l \in Escrowed /\ l.released <= l.count
  /\ l.status = "none" => l.released = 0
  /\ l.status \in Life!Undisputed => l.released < l.count

(* How far an escrow has come.                                              *)
Stage == [s \in LifeStates |-> IF s = "none" THEN 0 ELSE IF s = "funded" THEN 1
                              ELSE IF s = "dispatched" THEN 2 ELSE IF s = "disputed" THEN 3 ELSE 4]

(* What was seen of an escrow is not ahead of what there is to see.         *)
Ahead(a, b) ==
  a.released <= b.released /\ (a.ship => b.ship) /\ Stage[a.status] <= Stage[b.status]

Sight(r) == [status |-> life[r].status, released |-> life[r].released, ship |-> ship[r]]

(* An observation of this era is of the escrow as it is or was.             *)
Dated(o, r) ==
  /\ o \in Observation /\ o.status \in OnChain /\ o.era <= faults.reset
  /\ o.era = faults.reset => Ahead(o, Sight(r))

ChainOK ==
  /\ faults = [crash |-> faults.crash, reset |-> faults.reset] /\ faults.reset \in 0..MaxResets
  /\ life \in [Requests -> Escrowed] /\ \A r \in Requests : LifeIs(life[r])
  /\ ship \in [Requests -> BOOLEAN]

StoresOK ==
  /\ OrdersTypeOK
  /\ \A i \in Invoices : inv[i].hook => inv[i].tries < MaxTries
  /\ told \in [Requests -> Seq(EventTypes)] /\ arrived \in [Requests -> BOOLEAN]

(* What the watcher is about to record of request r.                        *)
Recordable(r, o) ==
  /\ r \in Requests
  /\ req[r].seen = Unseen => req[r].status \in {"awaiting", "cancelled"}
  /\ req[r].seen # Unseen => req[r].status = "linked" /\ req[r].seen.status \in Life!Live
  /\ \/ o.status = "none" /\ req[r].seen = Unseen
     \/ o.status = "missing" /\ req[r].seen # Unseen
     \/ Dated(o, r) /\ (req[r].seen # Unseen => Ahead(req[r].seen, o))

Answered(x, reply) ==
  /\ x \in Invoices \cup Requests /\ reply \in Replies /\ Owes(x)
  /\ reply = "ok" /\ x \in Requests => arrived[x]

JobOK ==
  /\ job.at = "request" => Recordable(job.cur, job.obs)
  /\ job.at = "posted" => Answered(job.cur, job.reply)

(* What was told of an escrow that was seen as s.                           *)
Tale(t, s) ==
  /\ Len(t) > 0 /\ t[1] = "funded" /\ Count(t, "funded") = 1 /\ Count(t, "expired") = 0
  /\ Count(t, "dispatched") = IF s.ship THEN 1 ELSE 0
  /\ Count(t, "released") = s.released
  /\ s.status = "disputed" => Count(t, "disputed") = 1
  /\ s.status \in Life!Undisputed => Count(t, "disputed") = 0
  /\ s.status \in Endings => t[Len(t)] = s.status
  /\ \A e \in Endings : Count(t, e) = IF s.status = e THEN 1 ELSE 0

Told(r) ==
  LET q == req[r] IN
  /\ q.seen = Unseen =>
       /\ q.status \in {"none", "awaiting", "expired", "cancelled"}
       /\ told[r] = IF q.status = "expired" THEN <<"expired">> ELSE <<>>
  /\ q.seen # Unseen =>
       /\ q.status \in {"linked", "missing"} /\ Dated(q.seen, r) /\ Tale(told[r], q.seen)

OrdersIInv == ChainOK /\ StoresOK /\ JobOK /\ \A r \in Requests : Told(r)

-----------------------------------------------------------------------------
(* What two observations differ in, told. *)

LEMMA CountFour ==
  ASSUME NEW S, NEW a \in Seq(S), NEW b \in Seq(S), NEW c \in Seq(S), NEW d \in Seq(S), NEW e
  PROVE  Count(a \o b \o c \o d, e) = Count(a, e) + Count(b, e) + Count(c, e) + Count(d, e)
<1>7. a \o b \in Seq(S)
  OBVIOUS
<1>1. PICK ab \in Seq(S) : ab = a \o b
  BY <1>7, Zenon
<1>8. ab \o c \in Seq(S)
  OBVIOUS
<1>2. PICK abc \in Seq(S) : abc = ab \o c
  BY <1>8, Zenon
<1>3. Count(ab, e) = Count(a, e) + Count(b, e)
  BY <1>1, CountConcat
<1>4. Count(abc, e) = Count(ab, e) + Count(c, e)
  BY <1>2, CountConcat
<1>5. Count(abc \o d, e) = Count(abc, e) + Count(d, e)
  BY CountConcat
<1>6. Count(abc \o d, e) = Count(a, e) + Count(b, e) + Count(c, e) + Count(d, e)
  BY <1>3, <1>4, <1>5
<1> QED BY <1>1, <1>2, <1>6, Zenon

LEMMA LastOfConcat ==
  ASSUME NEW S, NEW s \in Seq(S), NEW x \in S
  PROVE  Len(s \o <<x>>) > 0 /\ (s \o <<x>>)[Len(s \o <<x>>)] = x
OBVIOUS

(* The news of a change from p to c. *)
Reports(news, p, c) ==
  /\ news \in Seq(EventTypes)
  /\ Count(news, "dispatched") = IF ~p.ship /\ c.ship THEN 1 ELSE 0
  /\ Count(news, "released") = c.released - p.released
  /\ Count(news, "disputed") = IF p.status # "disputed" /\ c.status = "disputed" THEN 1 ELSE 0
  /\ \A e \in Endings : Count(news, e) = IF p.status # c.status /\ c.status = e THEN 1 ELSE 0
  /\ Count(news, "expired") = 0
  /\ p.status # c.status /\ c.status \in Endings => Len(news) > 0 /\ news[Len(news)] = c.status

LEMMA ChangesReport ==
  ASSUME NEW p, NEW c, p.released \in Nat, c.released \in Nat, p.released <= c.released,
         p.ship \in BOOLEAN, c.ship \in BOOLEAN, c.status \in OnChain
  PROVE  Reports(Changes(p, c), p, c) /\ Count(Changes(p, c), "funded") = 0
<1> DEFINE P1 == ~p.ship /\ c.ship
           P3 == p.status # "disputed" /\ c.status = "disputed"
           P4 == p.status # c.status /\ c.status \notin Life!Live
<1>1. PICK n \in Nat : n = c.released - p.released
  OBVIOUS
<1>2. PICK s1 : s1 = IF P1 THEN <<"dispatched">> ELSE <<>>
  OBVIOUS
<1>3. PICK s2 : s2 = [k \in 1..n |-> "released"]
  OBVIOUS
<1>4. PICK s3 : s3 = IF P3 THEN <<"disputed">> ELSE <<>>
  OBVIOUS
<1>5. PICK s4 : s4 = IF P4 THEN <<c.status>> ELSE <<>>
  OBVIOUS
<1>6. Changes(p, c) = s1 \o s2 \o s3 \o s4
  BY <1>1, <1>2, <1>3, <1>4, <1>5 DEF Changes
<1>7. s1 \in Seq(EventTypes) /\ s2 \in Seq(EventTypes) /\ s3 \in Seq(EventTypes)
  <2>1. "dispatched" \in EventTypes /\ "released" \in EventTypes /\ "disputed" \in EventTypes
    BY DEF EventTypes
  <2>2. <<>> \in Seq(EventTypes) /\ <<"dispatched">> \in Seq(EventTypes) /\ <<"disputed">> \in Seq(EventTypes)
    BY <2>1
  <2>3. s2 \in Seq(EventTypes)
    BY <1>3, <2>1
  <2> HIDE DEF P1, P3
  <2> QED BY <1>2, <1>4, <2>2, <2>3, Zenon
<1>8. P4 <=> p.status # c.status /\ c.status \in Endings
  BY DEF OnChain, Life!Live, Life!Undisputed, Endings
<1>9. s4 \in Seq(EventTypes)
  <2>1. P4 => c.status \in EventTypes
    BY <1>8 DEF Endings, EventTypes
  <2> HIDE DEF P4
  <2> QED BY <1>5, <2>1
<1>10. ASSUME NEW e
       PROVE  /\ Count(s1, e) = IF P1 /\ "dispatched" = e THEN 1 ELSE 0
              /\ Count(s2, e) = IF "released" = e THEN n ELSE 0
              /\ Count(s3, e) = IF P3 /\ "disputed" = e THEN 1 ELSE 0
              /\ Count(s4, e) = IF P4 /\ c.status = e THEN 1 ELSE 0
  <2>1. P1 \in BOOLEAN /\ P3 \in BOOLEAN /\ P4 \in BOOLEAN
    OBVIOUS
  <2> HIDE DEF P1, P3, P4
  <2>2. Count(s1, e) = IF P1 /\ "dispatched" = e THEN 1 ELSE 0
    <3>1. Few(s1, P1, "dispatched")
      BY <1>2 DEF Few
    <3> QED BY <2>1, <3>1, CountFew
  <2>3. Count(s2, e) = IF "released" = e THEN n ELSE 0
    <3>1. Uniform(s2, n, "released")
      BY <1>3 DEF Uniform
    <3> QED BY <3>1, CountSame
  <2>4. Count(s3, e) = IF P3 /\ "disputed" = e THEN 1 ELSE 0
    <3>1. Few(s3, P3, "disputed")
      BY <1>4 DEF Few
    <3> QED BY <2>1, <3>1, CountFew
  <2>5. Count(s4, e) = IF P4 /\ c.status = e THEN 1 ELSE 0
    <3>1. Few(s4, P4, c.status)
      BY <1>5 DEF Few
    <3> QED BY <2>1, <3>1, CountFew
  <2> QED BY <2>2, <2>3, <2>4, <2>5
<1>11. PICK t \in Seq(EventTypes) : t = s1 \o s2 \o s3
  <2>1. s1 \o s2 \o s3 \in Seq(EventTypes)
    BY <1>7
  <2> QED BY <2>1, Zenon
<1>12. PICK u \in Seq(EventTypes) : u = t \o s4
  <2>1. t \o s4 \in Seq(EventTypes)
    BY <1>9
  <2> QED BY <2>1, Zenon
<1>13. Changes(p, c) = u
  BY <1>6, <1>11, <1>12, Zenon
<1>14. ASSUME NEW e PROVE Count(u, e) = Count(s1, e) + Count(s2, e) + Count(s3, e) + Count(s4, e)
  <2>1. Count(s1 \o s2 \o s3 \o s4, e) = Count(s1, e) + Count(s2, e) + Count(s3, e) + Count(s4, e)
    BY <1>7, <1>9, CountFour
  <2> QED BY <1>11, <1>12, <2>1, Zenon
<1>15. P4 => Len(u) > 0 /\ u[Len(u)] = c.status
  <2>1. ASSUME P4 PROVE Len(u) > 0 /\ u[Len(u)] = c.status
    <3>1. s4 = <<c.status>> /\ u = t \o <<c.status>>
      BY <1>5, <1>12, <2>1
    <3>2. PICK x \in EventTypes : x = c.status
      BY <1>8, <2>1 DEF Endings, EventTypes
    <3>3. Len(t \o <<x>>) > 0 /\ (t \o <<x>>)[Len(t \o <<x>>)] = x
      BY LastOfConcat
    <3> QED BY <3>1, <3>2, <3>3, Zenon
  <2> QED BY <2>1
<1>16. Count(u, "dispatched") = IF P1 THEN 1 ELSE 0
  BY <1>8, <1>10, <1>14 DEF Endings
<1>17. Count(u, "released") = c.released - p.released
  <2>1. Count(s1, "released") = 0 /\ Count(s2, "released") = n /\ Count(s3, "released") = 0
    BY <1>10
  <2>2. Count(s4, "released") = 0
    BY <1>8, <1>10 DEF Endings
  <2> HIDE DEF P1, P3, P4
  <2> QED BY <1>1, <1>14, <2>1, <2>2
<1>18. Count(u, "disputed") = IF P3 THEN 1 ELSE 0
  BY <1>8, <1>10, <1>14 DEF Endings
<1>19. \A e \in Endings : Count(u, e) = IF p.status # c.status /\ c.status = e THEN 1 ELSE 0
  BY <1>8, <1>10, <1>14 DEF Endings
<1>20. Count(u, "expired") = 0 /\ Count(u, "funded") = 0
  BY <1>8, <1>10, <1>14 DEF Endings
<1> HIDE DEF P4
<1>21. Reports(u, p, c)
  BY <1>8, <1>15, <1>16, <1>17, <1>18, <1>19, <1>20 DEF Reports
<1> QED BY <1>13, <1>20, <1>21, Zenon

(* The first events of a request, and those that follow.                    *)
LEMMA TaleStarts ==
  ASSUME NEW c, c.released \in Nat, c.ship \in BOOLEAN, c.status \in OnChain
  PROVE  /\ <<"funded">> \o Changes([Unseen EXCEPT !.status = "funded"], c) \in Seq(EventTypes)
         /\ Tale(<<"funded">> \o Changes([Unseen EXCEPT !.status = "funded"], c), c)
<1>1. PICK p : p = [Unseen EXCEPT !.status = "funded"]
  OBVIOUS
<1>2. p.status = "funded" /\ p.released = 0 /\ p.ship = FALSE
  BY <1>1 DEF Unseen
<1>3. PICK news : news = Changes(p, c)
  OBVIOUS
<1>4. Reports(news, p, c) /\ Count(news, "funded") = 0
  <2>1. p.released \in Nat /\ p.released <= c.released
    BY <1>2
  <2>2. p.ship \in BOOLEAN
    BY <1>2, Zenon
  <2> QED BY <1>3, <2>1, <2>2, ChangesReport
<1>5. PICK f \in Seq(EventTypes) : f = <<"funded">>
  <2>1. <<"funded">> \in Seq(EventTypes)
    BY DEF EventTypes
  <2> QED BY <2>1, Zenon
<1>6. Len(f) = 1 /\ f[1] = "funded" /\ \A e : Count(f, e) = IF "funded" = e THEN 1 ELSE 0
  <2>1. ASSUME NEW e PROVE Count(f, e) = IF "funded" = e THEN 1 ELSE 0
    BY <1>5, CountOne
  <2> QED BY <1>5, <2>1
<1>7. news \in Seq(EventTypes)
  BY <1>4 DEF Reports
<1>8. /\ f \o news \in Seq(EventTypes) /\ Len(news) \in Nat /\ Len(f \o news) = Len(f) + Len(news)
      /\ \A k \in 1..Len(f) : (f \o news)[k] = f[k]
      /\ \A k \in 1..Len(news) : (f \o news)[Len(f) + k] = news[k]
  BY <1>7, ConcatIs
<1>9. PICK t \in Seq(EventTypes) : t = f \o news
  BY <1>8, Zenon
<1>10. Len(t) = 1 + Len(news) /\ t[1] = "funded"
  <2>1. 1 \in 1..Len(f)
    BY <1>6
  <2> QED BY <1>6, <1>8, <1>9, <2>1, Zenon
<1>11. c.status \in Endings => t[Len(t)] = c.status
  <2>1. ASSUME c.status \in Endings PROVE t[Len(t)] = c.status
    <3>1. Len(news) > 0 /\ news[Len(news)] = c.status
      BY <1>2, <1>4, <2>1 DEF Reports, Endings
    <3>2. Len(news) \in 1..Len(news)
      BY <1>8, <3>1
    <3>3. t[1 + Len(news)] = news[Len(news)]
      BY <1>6, <1>8, <1>9, <3>2, Zenon
    <3> QED BY <1>10, <3>1, <3>3
  <2> QED BY <2>1
<1>12. ASSUME NEW e PROVE Count(t, e) = Count(f, e) + Count(news, e)
  <2>1. Count(f \o news, e) = Count(f, e) + Count(news, e)
    BY <1>7, CountConcat
  <2> QED BY <1>9, <2>1, Zenon
<1>13. Tale(t, c)
  <2>1. \A e : Count(news, e) \in Nat
    BY <1>7, CountType
  <2>2. Count(t, "funded") = 1 /\ Count(t, "expired") = 0
    BY <1>4, <1>6, <1>12 DEF Reports
  <2>3. Count(t, "dispatched") = IF c.ship THEN 1 ELSE 0
    BY <1>2, <1>4, <1>6, <1>12 DEF Reports
  <2>4. Count(t, "released") = c.released
    BY <1>2, <1>4, <1>6, <1>12 DEF Reports
  <2>5. Count(t, "disputed") = IF c.status = "disputed" THEN 1 ELSE 0
    BY <1>2, <1>4, <1>6, <1>12 DEF Reports
  <2>6. \A e \in Endings : Count(t, e) = IF c.status = e THEN 1 ELSE 0
    BY <1>2, <1>4, <1>6, <1>12 DEF Reports, Endings
  <2>7. c.status \in Life!Undisputed => c.status # "disputed"
    BY DEF Life!Undisputed
  <2>8. Len(t) > 0
    BY <1>8, <1>10
  <2> QED BY <1>10, <1>11, <2>2, <2>3, <2>4, <2>5, <2>6, <2>7, <2>8 DEF Tale
<1>14. t = <<"funded">> \o Changes([Unseen EXCEPT !.status = "funded"], c)
  BY <1>1, <1>3, <1>5, <1>9, Zenon
<1> QED BY <1>13, <1>14, Zenon

LEMMA TaleGoesOn ==
  ASSUME NEW t \in Seq(EventTypes), NEW p, NEW c, p.released \in Nat, c.released \in Nat,
         p.ship \in BOOLEAN, c.ship \in BOOLEAN, p.status \in Life!Live, c.status \in OnChain,
         Tale(t, p), Ahead(p, c)
  PROVE  t \o Changes(p, c) \in Seq(EventTypes) /\ Tale(t \o Changes(p, c), c)
<1>1. PICK news : news = Changes(p, c)
  OBVIOUS
<1>2. p.released <= c.released /\ (p.ship => c.ship) /\ Stage[p.status] <= Stage[c.status]
  BY DEF Ahead
<1>3. Reports(news, p, c) /\ Count(news, "funded") = 0
  BY <1>1, <1>2, ChangesReport
<1>4. news \in Seq(EventTypes)
  BY <1>3 DEF Reports
<1>5. /\ t \o news \in Seq(EventTypes) /\ Len(news) \in Nat /\ Len(t) \in Nat /\ Len(t \o news) = Len(t) + Len(news)
      /\ \A k \in 1..Len(t) : (t \o news)[k] = t[k]
      /\ \A k \in 1..Len(news) : (t \o news)[Len(t) + k] = news[k]
  BY <1>4, ConcatIs
<1>6. PICK u \in Seq(EventTypes) : u = t \o news
  BY <1>5, Zenon
<1>7. /\ Len(t) > 0 /\ t[1] = "funded" /\ Count(t, "funded") = 1 /\ Count(t, "expired") = 0
      /\ Count(t, "dispatched") = IF p.ship THEN 1 ELSE 0
      /\ Count(t, "released") = p.released
      /\ p.status = "disputed" => Count(t, "disputed") = 1
      /\ p.status \in Life!Undisputed => Count(t, "disputed") = 0
      /\ \A e \in Endings : Count(t, e) = IF p.status = e THEN 1 ELSE 0
  BY DEF Tale
<1>8. Len(u) = Len(t) + Len(news) /\ u[1] = "funded"
  <2>1. 1 \in 1..Len(t)
    BY <1>5, <1>7
  <2> QED BY <1>5, <1>6, <1>7, <2>1, Zenon
<1>9. p.status \notin Endings /\ (p.status = "disputed" \/ p.status \in Life!Undisputed)
  BY DEF Endings, Life!Live, Life!Undisputed
<1>10. c.status \in Endings => u[Len(u)] = c.status
  <2>1. ASSUME c.status \in Endings PROVE u[Len(u)] = c.status
    <3>1. Len(news) > 0 /\ news[Len(news)] = c.status
      BY <1>3, <1>9, <2>1 DEF Reports
    <3>2. Len(news) \in 1..Len(news)
      BY <1>5, <3>1
    <3>3. u[Len(t) + Len(news)] = news[Len(news)]
      BY <1>5, <1>6, <3>2, Zenon
    <3> QED BY <1>8, <3>1, <3>3
  <2> QED BY <2>1
<1>11. ASSUME NEW e PROVE Count(u, e) = Count(t, e) + Count(news, e)
  <2>1. Count(t \o news, e) = Count(t, e) + Count(news, e)
    BY <1>4, CountConcat
  <2> QED BY <1>6, <2>1, Zenon
<1>12. Count(u, "funded") = 1 /\ Count(u, "expired") = 0
  BY <1>3, <1>7, <1>11 DEF Reports
<1>13. Count(u, "dispatched") = IF c.ship THEN 1 ELSE 0
  BY <1>2, <1>3, <1>7, <1>11 DEF Reports
<1>14. Count(u, "released") = c.released
  BY <1>3, <1>7, <1>11 DEF Reports
<1>15. c.status = "disputed" => Count(u, "disputed") = 1
  BY <1>3, <1>7, <1>9, <1>11 DEF Reports, Life!Undisputed
<1>16. c.status \in Life!Undisputed => Count(u, "disputed") = 0
  <2>1. ASSUME c.status \in Life!Undisputed PROVE p.status # "disputed" /\ c.status # "disputed"
    BY <1>2, <2>1 DEF Stage, LifeStates, OnChain, Life!Live, Life!Undisputed
  <2> QED BY <1>3, <1>7, <1>9, <1>11, <2>1 DEF Reports
<1>17. \A e \in Endings : Count(u, e) = IF c.status = e THEN 1 ELSE 0
  <2>1. ASSUME NEW e \in Endings PROVE Count(u, e) = IF c.status = e THEN 1 ELSE 0
    <3>1. Count(t, e) = 0
      BY <1>7, <1>9
    <3>2. Count(news, e) = IF c.status = e THEN 1 ELSE 0
      BY <1>3, <1>9 DEF Reports
    <3> QED BY <1>11, <3>1, <3>2
  <2> QED BY <2>1
<1>18. Len(u) > 0
  BY <1>5, <1>7, <1>8
<1>19. Tale(u, c)
  BY <1>8, <1>10, <1>12, <1>13, <1>14, <1>15, <1>16, <1>17, <1>18 DEF Tale
<1>20. u = t \o Changes(p, c)
  BY <1>1, <1>6, Zenon
<1> QED BY <1>19, <1>20, Zenon

-----------------------------------------------------------------------------
(* Steps of the chain. *)

LEMMA AheadGoesOn ==
  ASSUME NEW a, NEW b, NEW c, {a.status, b.status, c.status} \subseteq LifeStates,
         a.released \in Nat, b.released \in Nat, c.released \in Nat, Ahead(a, b), Ahead(b, c)
  PROVE  Ahead(a, c)
BY DEF Ahead, Stage, LifeStates, OnChain, Endings, Life!Live, Life!Undisputed

(* An escrow never falls back. *)
LEMMA EscrowGoesOn ==
  ASSUME OrdersAssumption, life \in [Requests -> Escrowed], NEW r \in Requests, LifeIs(life[r]),
         (\E n \in Counts : Life!Born(r, n)) \/ Life!Moves(r)
  PROVE  \E new \in Escrowed :
           /\ life' = [life EXCEPT ![r] = new] /\ LifeIs(new)
           /\ life[r].released <= new.released /\ Stage[life[r].status] <= Stage[new.status]
<1> DEFINE l == life[r]
           Goes(new) == /\ life' = [life EXCEPT ![r] = new] /\ LifeIs(new)
                        /\ l.released <= new.released /\ Stage[l.status] <= Stage[new.status]
<1>1. /\ l \in Escrowed /\ l.status \in LifeStates /\ l.released \in Nat /\ l.count \in Nat
      /\ l.released <= l.count /\ (l.status \in Life!Undisputed => l.released < l.count)
      /\ l.status = "none" => l.released = 0
  BY DEF LifeIs, Escrowed
<1>2. ASSUME NEW n \in Counts, Life!Born(r, n) PROVE \E new \in Escrowed : Goes(new)
  <2> DEFINE b == [status |-> "funded", released |-> 0, count |-> n]
  <2>1. life' = [life EXCEPT ![r] = b] /\ l.status = "none"
    BY <1>2 DEF Life!Born
  <2>2. n \in Nat /\ 0 < n
    BY DEF OrdersAssumption
  <2>3. b \in Escrowed /\ b.status = "funded" /\ b.released = 0 /\ b.count = n
    BY <2>2 DEF Escrowed, LifeStates, OnChain, Life!Live, Life!Undisputed
  <2> HIDE DEF b
  <2>4. LifeIs(b)
    BY <2>2, <2>3 DEF LifeIs
  <2>5. l.released <= b.released /\ Stage[l.status] <= Stage[b.status]
    BY <1>1, <2>1, <2>3 DEF Stage, LifeStates, OnChain, Endings, Life!Live, Life!Undisputed
  <2> QED BY <2>1, <2>3, <2>4, <2>5
<1>3. ASSUME NEW status \in OnChain, NEW released \in Nat, Life!Become(r, status, released),
             l.released <= released, released <= l.count,
             status \in Life!Undisputed => released < l.count, Stage[l.status] <= Stage[status]
      PROVE  \E new \in Escrowed : Goes(new)
  <2> DEFINE b == [status |-> status, released |-> released, count |-> l.count]
  <2>1. life' = [life EXCEPT ![r] = b]
    BY <1>3 DEF Life!Become
  <2>2. status \in LifeStates /\ status # "none"
    BY DEF LifeStates, OnChain, Endings, Life!Live, Life!Undisputed
  <2>3. b \in Escrowed /\ b.status = status /\ b.released = released /\ b.count = l.count
    BY <1>1, <2>2 DEF Escrowed
  <2> HIDE DEF b
  <2>4. LifeIs(b)
    BY <1>3, <2>2, <2>3 DEF LifeIs
  <2>5. l.released <= b.released /\ Stage[l.status] <= Stage[b.status]
    BY <1>3, <2>3
  <2> QED BY <2>1, <2>3, <2>4, <2>5
<1>4. ASSUME Life!Moves(r)
      PROVE  \E status \in OnChain, released \in Nat :
               /\ Life!Become(r, status, released) /\ l.released <= released /\ released <= l.count
               /\ status \in Life!Undisputed => released < l.count
               /\ Stage[l.status] <= Stage[status]
  <2> USE <1>1 DEF OnChain, Endings, LifeStates, Life!Live, Life!Undisputed, Stage
  <2>1. CASE Life!Dispatched(r)
    BY <2>1 DEF Life!Dispatched
  <2>2. CASE Life!Released(r)
    <3>1. /\ l.status \in {"funded", "dispatched"}
          /\ Life!Become(r, IF l.released + 1 = l.count THEN "completed" ELSE l.status, l.released + 1)
      BY <2>2 DEF Life!Released
    <3>2. CASE l.released + 1 = l.count
      BY <3>1, <3>2
    <3>3. CASE l.released + 1 # l.count
      BY <3>1, <3>3
    <3> QED BY <3>2, <3>3
  <2>3. CASE Life!Disputed(r)
    BY <2>3 DEF Life!Disputed
  <2>4. CASE Life!Resolved(r)
    BY <2>4 DEF Life!Resolved
  <2>5. CASE Life!Refunded(r)
    BY <2>5 DEF Life!Refunded
  <2>6. CASE Life!Claimed(r)
    BY <2>6 DEF Life!Claimed
  <2> QED BY <1>4, <2>1, <2>2, <2>3, <2>4, <2>5, <2>6 DEF Life!Moves
<1> QED BY <1>2, <1>3, <1>4

LEMMA RequestAndJob ==
  ASSUME OrdersIInv, NEW r \in Requests
  PROVE  /\ Told(r) /\ LifeIs(life[r]) /\ life \in [Requests -> Escrowed] /\ ship \in [Requests -> BOOLEAN]
         /\ req[r].seen \in Observation
BY DEF OrdersIInv, ChainOK, StoresOK, OrdersTypeOK

(* An observation stays one of the escrow as it was. *)
LEMMA DatedGoesOn ==
  ASSUME OrdersIInv, NEW o, NEW r \in Requests, Dated(o, r), faults'.reset = faults.reset,
         Ahead(Sight(r), Sight(r)'), life'[r] \in Escrowed
  PROVE  Dated(o, r)'
<1>1. /\ o \in Observation /\ o.status \in OnChain /\ o.era <= faults.reset
      /\ o.era = faults.reset => Ahead(o, Sight(r))
  BY DEF Dated
<1>2. o.status \in LifeStates /\ o.released \in Nat
  BY <1>1 DEF Observation, LifeStates
<1>3. /\ Sight(r).status \in LifeStates /\ Sight(r).released \in Nat
      /\ Sight(r)'.status \in LifeStates /\ Sight(r)'.released \in Nat
  <2>1. life[r] \in Escrowed
    BY RequestAndJob
  <2> QED BY <2>1 DEF Sight, Escrowed
<1>4. o.era = faults.reset => Ahead(o, Sight(r)')
  <2>1. PICK a, b : a = Sight(r) /\ b = Sight(r)'
    OBVIOUS
  <2>2. Ahead(o, a) /\ Ahead(a, b) => Ahead(o, b)
    BY <1>2, <1>3, <2>1, AheadGoesOn
  <2> QED BY <1>1, <2>1, <2>2
<1>5. Dated(o, r)' <=> /\ o \in Observation /\ o.status \in OnChain /\ o.era <= faults'.reset
                       /\ o.era = faults'.reset => Ahead(o, Sight(r)')
  BY DEF Dated, Ahead
<1> QED BY <1>1, <1>4, <1>5

LEMMA ChainSteps ==
  ASSUME OrdersIInv, UNCHANGED <<stores, job, history, faults>>,
         life' \in [Requests -> Escrowed], ship' \in [Requests -> BOOLEAN],
         \A r \in Requests : LifeIs(life'[r]) /\ Ahead(Sight(r), Sight(r)')
  PROVE  OrdersIInv'
<1>1. UNCHANGED <<inv, req, told, arrived, job, faults>>
  BY DEF stores, history
<1>2. ChainOK'
  BY <1>1 DEF OrdersIInv, ChainOK, LifeIs
<1>3. StoresOK'
  BY <1>1 DEF OrdersIInv, StoresOK, OrdersTypeOK
<1>4. \A o : \A r \in Requests : Dated(o, r) => Dated(o, r)'
  BY <1>1, DatedGoesOn
<1>5. ASSUME NEW o, NEW r, Recordable(r, o) PROVE Recordable(r, o)'
  <2>1. Dated(o, r) => Dated(o, r)'
    BY <1>4, <1>5 DEF Recordable
  <2> QED BY <1>1, <1>5, <2>1 DEF Recordable, Ahead
<1>6. JobOK'
  <2>1. job.at = "request" => Recordable(job.cur, job.obs)'
    <3>1. PICK r, o : r = job.cur /\ o = job.obs
      OBVIOUS
    <3>2. job.at = "request" => Recordable(r, o)'
      BY <1>5, <3>1 DEF OrdersIInv, JobOK
    <3>3. r = job'.cur /\ o = job'.obs
      BY <1>1, <3>1
    <3> QED BY <1>1, <3>1, <3>2, <3>3
  <2> QED BY <1>1, <2>1 DEF OrdersIInv, JobOK, Answered, Owes
<1>7. ASSUME NEW r \in Requests PROVE Told(r)'
  <2>1. PICK o : o = req[r].seen
    OBVIOUS
  <2>2. o = req'[r].seen
    BY <1>1, <2>1
  <2>3. Dated(o, r) => Dated(o, r)'
    BY <1>4
  <2>4. Told(r)
    BY DEF OrdersIInv
  <2> QED BY <1>1, <2>1, <2>2, <2>3, <2>4 DEF Told, Tale
<1> QED BY <1>2, <1>3, <1>6, <1>7 DEF OrdersIInv

LEMMA FundedOrProceeds ==
  ASSUME OrdersAssumption, OrdersIInv, NEW r \in Requests,
         (\E n \in Counts, f \in BOOLEAN : Fund(r, n, f)) \/ Proceed(r)
  PROVE  OrdersIInv'
<1>1. /\ UNCHANGED <<stores, job, history, faults>>
      /\ (\E n \in Counts : Life!Born(r, n)) \/ Life!Moves(r)
      /\ ship' = ship \/ ship' = [ship EXCEPT ![r] = @ \/ life'[r].status = "dispatched"]
  BY DEF Fund, Proceed
<1>2. life \in [Requests -> Escrowed] /\ ship \in [Requests -> BOOLEAN] /\ \A q \in Requests : LifeIs(life[q])
  BY DEF OrdersIInv, ChainOK
<1>3. PICK new \in Escrowed :
        /\ life' = [life EXCEPT ![r] = new] /\ LifeIs(new)
        /\ life[r].released <= new.released /\ Stage[life[r].status] <= Stage[new.status]
  BY <1>1, <1>2, EscrowGoesOn
<1>4. life' \in [Requests -> Escrowed] /\ \A q \in Requests : life'[q] = IF q = r THEN new ELSE life[q]
  BY <1>2, <1>3
<1>5. ship' \in [Requests -> BOOLEAN] /\ \A q \in Requests : ship[q] => ship'[q]
  BY <1>1, <1>2
<1>6. ASSUME NEW q \in Requests PROVE LifeIs(life'[q]) /\ Ahead(Sight(q), Sight(q)')
  <2>1. LifeIs(life'[q])
    BY <1>2, <1>3, <1>4
  <2>2. life[q].released <= life'[q].released /\ Stage[life[q].status] <= Stage[life'[q].status]
    <3>1. life[q].released \in Nat /\ Stage[life[q].status] \in Nat
      BY <1>2 DEF Escrowed, Stage
    <3> QED BY <1>3, <1>4, <3>1
  <2> QED BY <1>5, <2>1, <2>2 DEF Ahead, Sight
<1> QED BY <1>1, <1>4, <1>5, <1>6, ChainSteps

LEMMA ResetSteps ==
  ASSUME OrdersAssumption, OrdersIInv, ChainReset
  PROVE  OrdersIInv'
<1>1. /\ faults.reset < MaxResets /\ faults' = [faults EXCEPT !.reset = @ + 1]
      /\ life' = [r \in Requests |-> Life!Unborn] /\ ship' = [r \in Requests |-> FALSE]
      /\ UNCHANGED <<inv, req, told, arrived, job>>
  BY DEF ChainReset, stores, history
<1>2. faults = [crash |-> faults.crash, reset |-> faults.reset] /\ faults.reset \in 0..MaxResets /\ MaxResets \in Nat
  BY DEF OrdersIInv, ChainOK, OrdersAssumption
<1>3. /\ faults' = [crash |-> faults'.crash, reset |-> faults'.reset] /\ faults'.reset = faults.reset + 1
      /\ faults'.reset \in 0..MaxResets
  BY <1>1, <1>2
<1>4. Life!Unborn \in Escrowed /\ LifeIs(Life!Unborn)
  BY DEF Life!Unborn, Escrowed, LifeIs, LifeStates, Life!Undisputed
<1>5. ChainOK'
  BY <1>1, <1>3, <1>4 DEF ChainOK, LifeIs
<1>6. StoresOK'
  BY <1>1 DEF OrdersIInv, StoresOK, OrdersTypeOK
<1>7. ASSUME NEW o, NEW r, Dated(o, r) PROVE Dated(o, r)'
  <2>1. o.era \in Nat /\ o.era <= faults.reset /\ o \in Observation /\ o.status \in OnChain
    BY <1>7 DEF Dated, Observation
  <2>2. o.era <= faults'.reset /\ o.era # faults'.reset
    BY <1>2, <1>3, <2>1
  <2> QED BY <2>1, <2>2 DEF Dated
<1>8. JobOK'
  <2>1. PICK r, o : r = job.cur /\ o = job.obs /\ r = job'.cur /\ o = job'.obs
    BY <1>1
  <2>2. ASSUME Recordable(r, o) PROVE Recordable(r, o)'
    <3>1. Dated(o, r) => Dated(o, r)'
      BY <1>7
    <3> QED BY <1>1, <2>2, <3>1 DEF Recordable, Ahead
  <2>3. job.at = "request" => Recordable(job.cur, job.obs)'
    <3>1. job.at = "request" => Recordable(r, o)
      BY <2>1 DEF OrdersIInv, JobOK
    <3> QED BY <1>1, <2>1, <2>2, <3>1
  <2> QED BY <1>1, <2>3 DEF OrdersIInv, JobOK, Answered, Owes
<1>9. ASSUME NEW r \in Requests PROVE Told(r)'
  <2>1. PICK o : o = req[r].seen /\ o = req'[r].seen
    BY <1>1
  <2>2. Dated(o, r) => Dated(o, r)'
    BY <1>7
  <2>3. Told(r)
    BY DEF OrdersIInv
  <2> QED BY <1>1, <2>1, <2>2, <2>3 DEF Told, Tale
<1> QED BY <1>5, <1>6, <1>8, <1>9 DEF OrdersIInv

-----------------------------------------------------------------------------
(* Steps that leave the requests and the chain alone. *)

Same == UNCHANGED <<req, told, life, ship>> /\ faults'.reset = faults.reset

LEMMA SameKeeps ==
  ASSUME OrdersIInv, Same
  PROVE  /\ \A r \in Requests : Told(r)'
         /\ \A o : \A r : Recordable(r, o) => Recordable(r, o)'
         /\ faults' = [crash |-> faults'.crash, reset |-> faults'.reset] => ChainOK'
<1>1. ASSUME NEW o, NEW r, Dated(o, r) PROVE Dated(o, r)'
  BY <1>1 DEF Same, Dated, Sight, Ahead
<1>2. ASSUME NEW r \in Requests PROVE Told(r)'
  <2>1. PICK o : o = req[r].seen /\ o = req'[r].seen
    BY DEF Same
  <2>2. Dated(o, r) => Dated(o, r)'
    BY <1>1
  <2>3. Told(r)
    BY DEF OrdersIInv
  <2> QED BY <2>1, <2>2, <2>3 DEF Same, Told, Tale
<1>3. ASSUME NEW o, NEW r, Recordable(r, o) PROVE Recordable(r, o)'
  BY <1>1, <1>3 DEF Same, Recordable, Ahead
<1>4. faults' = [crash |-> faults'.crash, reset |-> faults'.reset] => ChainOK'
  BY DEF Same, OrdersIInv, ChainOK, LifeIs
<1> QED BY <1>2, <1>3, <1>4

Invoice == [status : {"none", "pending", "paid", "expired"}, overdue : BOOLEAN, hook : BOOLEAN, tries : 0..MaxTries]

LEMMA InvoicesChange ==
  ASSUME OrdersIInv, Same, faults' = faults, UNCHANGED arrived, inv' \in [Invoices -> Invoice],
         \A i \in Invoices : inv'[i].hook => inv'[i].tries < MaxTries,
         job' = Idle \/ (job' = job /\ \A i \in Invoices : inv[i].hook => inv'[i].hook)
  PROVE  OrdersIInv'
<1>1. ChainOK' /\ \A r \in Requests : Told(r)'
  BY SameKeeps DEF OrdersIInv, ChainOK
<1>2. StoresOK'
  BY DEF Same, OrdersIInv, StoresOK, OrdersTypeOK, Invoice
<1>3. JobOK'
  <2>1. CASE job' = Idle
    BY <2>1 DEF JobOK, Idle
  <2>2. CASE job' = job /\ \A i \in Invoices : inv[i].hook => inv'[i].hook
    <3>1. PICK r, o : r = job.cur /\ o = job.obs /\ r = job'.cur /\ o = job'.obs
      BY <2>2
    <3>2. job'.at = "request" => Recordable(r, o)'
      BY <2>2, <3>1, SameKeeps DEF OrdersIInv, JobOK
    <3>3. job'.at = "request" => Recordable(job.cur, job.obs)'
      BY <2>2, <3>1, <3>2
    <3> QED BY <2>2, <3>3 DEF Same, OrdersIInv, JobOK, Answered, Owes
  <2> QED BY <2>1, <2>2
<1> QED BY <1>1, <1>2, <1>3 DEF OrdersIInv

LEMMA OneInvoiceChanges ==
  ASSUME OrdersIInv, NEW i \in Invoices, NEW x \in Invoice, inv' = [inv EXCEPT ![i] = x],
         Same, faults' = faults, UNCHANGED arrived, x.hook => x.tries < MaxTries,
         job' = Idle \/ (job' = job /\ (inv[i].hook => x.hook))
  PROVE  OrdersIInv'
<1>1. inv \in [Invoices -> Invoice] /\ \A j \in Invoices : inv[j].hook => inv[j].tries < MaxTries
  BY DEF OrdersIInv, StoresOK, OrdersTypeOK, Invoice
<1>2. inv' \in [Invoices -> Invoice] /\ \A j \in Invoices : inv'[j] = IF j = i THEN x ELSE inv[j]
  BY <1>1
<1> QED BY <1>1, <1>2, InvoicesChange

LEMMA WatcherTurns ==
  ASSUME OrdersIInv, Same, faults' = [crash |-> faults'.crash, reset |-> faults'.reset],
         UNCHANGED inv, arrived' \in [Requests -> BOOLEAN], JobOK'
  PROVE  OrdersIInv'
<1>1. ChainOK' /\ \A r \in Requests : Told(r)'
  BY SameKeeps
<1>2. StoresOK'
  BY DEF Same, OrdersIInv, StoresOK, OrdersTypeOK
<1> QED BY <1>1, <1>2 DEF OrdersIInv

LEMMA InvoiceSteps ==
  ASSUME OrdersAssumption, OrdersIInv, NEW i \in Invoices, CreateCheckout(i) \/ InvoiceDeadline(i)
  PROVE  OrdersIInv'
<1>1. /\ Same /\ faults' = faults /\ UNCHANGED arrived /\ job' = job
      /\ \/ inv' = [inv EXCEPT ![i].status = "pending"]
         \/ inv' = [inv EXCEPT ![i].overdue = TRUE]
  BY DEF CreateCheckout, InvoiceDeadline, Same, chain, history
<1>2. inv[i] \in Invoice /\ (inv[i].hook => inv[i].tries < MaxTries)
  BY DEF OrdersIInv, StoresOK, OrdersTypeOK, Invoice
<1>3. PICK x \in Invoice : inv' = [inv EXCEPT ![i] = x] /\ x.hook = inv[i].hook /\ x.tries = inv[i].tries
  <2>1. CASE inv' = [inv EXCEPT ![i].status = "pending"]
    <3> DEFINE x == [inv[i] EXCEPT !.status = "pending"]
    <3>1. x \in Invoice /\ x.hook = inv[i].hook /\ x.tries = inv[i].tries /\ inv' = [inv EXCEPT ![i] = x]
      BY <1>2, <2>1 DEF Invoice
    <3> QED BY <3>1
  <2>2. CASE inv' = [inv EXCEPT ![i].overdue = TRUE]
    <3> DEFINE x == [inv[i] EXCEPT !.overdue = TRUE]
    <3>1. x \in Invoice /\ x.hook = inv[i].hook /\ x.tries = inv[i].tries /\ inv' = [inv EXCEPT ![i] = x]
      BY <1>2, <2>2 DEF Invoice
    <3> QED BY <3>1
  <2> QED BY <1>1, <2>1, <2>2
<1> QED BY <1>1, <1>2, <1>3, OneInvoiceChanges

LEMMA InvoicesSettled ==
  ASSUME OrdersAssumption, OrdersIInv, SettleInvoices
  PROVE  OrdersIInv'
<1>1. /\ Same /\ faults' = faults /\ UNCHANGED arrived /\ job' = Idle
      /\ inv' = [i \in Invoices |->
                   IF i \in job.todo /\ inv[i].status = "pending" /\ Settled(i) # "pending"
                   THEN [inv[i] EXCEPT !.status = Settled(i), !.hook = TRUE, !.tries = 0]
                   ELSE inv[i]]
  BY DEF SettleInvoices, Same, chain, history
<1>2. inv \in [Invoices -> Invoice] /\ \A i \in Invoices : inv[i].hook => inv[i].tries < MaxTries
  BY DEF OrdersIInv, StoresOK, OrdersTypeOK, Invoice
<1>3. ASSUME NEW i \in Invoices PROVE inv'[i] \in Invoice /\ (inv'[i].hook => inv'[i].tries < MaxTries)
  <2>1. CASE inv'[i] = inv[i]
    BY <1>2, <2>1
  <2>2. CASE inv'[i] = [inv[i] EXCEPT !.status = Settled(i), !.hook = TRUE, !.tries = 0]
    <3>1. PICK s \in {"pending", "paid", "expired"} : s = Settled(i)
      BY DEF Settled
    <3>2. inv[i] \in Invoice /\ 0 \in 0..MaxTries /\ 0 < MaxTries
      BY <1>2 DEF OrdersAssumption
    <3>3. inv'[i] = [status |-> s, overdue |-> inv[i].overdue, hook |-> TRUE, tries |-> 0]
      BY <2>2, <3>1, <3>2 DEF Invoice
    <3> QED BY <3>2, <3>3 DEF Invoice
  <2> QED BY <1>1, <2>1, <2>2
<1>4. inv' \in [Invoices -> Invoice]
  BY <1>1, <1>3
<1> QED BY <1>1, <1>3, <1>4, InvoicesChange

LEMMA HookUpdated ==
  ASSUME OrdersAssumption, OrdersIInv, UpdateHook
  PROVE  OrdersIInv'
<1>1. PICK i \in Invoices : i = job.cur
  BY DEF UpdateHook
<1>2. /\ job.at = "posted" /\ Same /\ faults' = faults /\ UNCHANGED arrived /\ job' = Idle
      /\ inv' = IF job.reply = "failed"
                THEN [inv EXCEPT ![i].tries = @ + 1, ![i].hook = ~GivenUp(inv[i])]
                ELSE [inv EXCEPT ![i].hook = FALSE]
  BY <1>1 DEF UpdateHook, Same, chain, history
<1>3. inv \in [Invoices -> Invoice] /\ inv[i] \in Invoice /\ (inv[i].hook => inv[i].tries < MaxTries)
  BY DEF OrdersIInv, StoresOK, OrdersTypeOK, Invoice
<1>4. inv[i].hook
  BY <1>1, <1>2 DEF OrdersIInv, JobOK, Answered, Owes
<1>5. CASE job.reply = "failed"
  <2> DEFINE x == [inv[i] EXCEPT !.tries = @ + 1, !.hook = ~GivenUp(inv[i])]
  <2>1. inv' = [inv EXCEPT ![i] = x]
    BY <1>2, <1>3, <1>5
  <2>2. inv[i].tries + 1 \in 0..MaxTries
    BY <1>3, <1>4 DEF Invoice, OrdersAssumption
  <2>3. x \in Invoice /\ x.tries = inv[i].tries + 1 /\ x.hook = ~GivenUp(inv[i])
    BY <1>3, <2>2 DEF Invoice
  <2>4. GivenUp(inv[i]) <=> inv[i].tries + 1 >= MaxTries
    BY <1>5 DEF GivenUp
  <2> HIDE DEF x
  <2>6. x.hook => ~GivenUp(inv[i])
    BY <2>3, Zenon
  <2>7. MaxTries \in Nat /\ inv[i].tries + 1 \in Nat
    BY <2>2 DEF OrdersAssumption
  <2>8. ~(inv[i].tries + 1 >= MaxTries) => inv[i].tries + 1 < MaxTries
    BY <2>7
  <2>5. x.hook => x.tries < MaxTries
    BY <2>3, <2>4, <2>6, <2>8, Zenon
  <2> QED BY <1>2, <2>1, <2>3, <2>5, OneInvoiceChanges
<1>6. CASE job.reply # "failed"
  <2> DEFINE x == [inv[i] EXCEPT !.hook = FALSE]
  <2>1. inv' = [inv EXCEPT ![i] = x]
    BY <1>2, <1>3, <1>6
  <2>2. x \in Invoice /\ x.hook = FALSE
    BY <1>3 DEF Invoice
  <2> HIDE DEF x
  <2> QED BY <1>2, <2>1, <2>2, OneInvoiceChanges
<1> QED BY <1>5, <1>6

-----------------------------------------------------------------------------
(* Steps of the watcher and of the request store. *)

LEMMA LooksAtRequest ==
  ASSUME OrdersAssumption, OrdersIInv, NEW r \in Requests, LookRequest(r)
  PROVE  OrdersIInv'
<1> DEFINE known  == req[r].seen # Unseen
           onNode == life[r].status # "none" /\ IF known THEN req[r].seen.era = faults.reset ELSE fit[r]
           obs    == [status |-> IF onNode THEN life[r].status
                                 ELSE IF known THEN "missing" ELSE "none",
                      released |-> IF onNode THEN life[r].released ELSE 0,
                      ship |-> onNode /\ ship[r],
                      era |-> IF onNode THEN faults.reset ELSE 0]
<1>1. /\ \/ req[r].status = "awaiting"
         \/ req[r].status = "linked" /\ req[r].seen.status \in Life!Live
      /\ job' = [Idle EXCEPT !.at = "request", !.cur = r, !.obs = obs]
      /\ UNCHANGED <<inv, req, told, arrived, life, ship, faults>>
  BY DEF LookRequest, stores, chain, history
<1>2. Told(r) /\ life[r] \in Escrowed /\ LifeIs(life[r]) /\ ship[r] \in BOOLEAN /\ faults.reset \in 0..MaxResets
  BY DEF OrdersIInv, ChainOK
<1>3. /\ req[r].seen = Unseen => req[r].status \in {"awaiting", "cancelled"}
      /\ req[r].seen # Unseen => req[r].status = "linked" /\ req[r].seen.status \in Life!Live
  BY <1>1, <1>2 DEF Told, Unseen, Life!Live, Life!Undisputed
<1>4. /\ known /\ ~onNode => obs.status = "missing"
      /\ ~known /\ ~onNode => obs.status = "none"
      /\ onNode => obs = [status |-> life[r].status, released |-> life[r].released,
                          ship |-> ship[r], era |-> faults.reset]
  BY <1>2
<1>5. PICK o : o = obs
  OBVIOUS
<1>6. ASSUME onNode PROVE Dated(o, r) /\ (known => Ahead(req[r].seen, o))
  <2>1. o = [status |-> life[r].status, released |-> life[r].released, ship |-> ship[r], era |-> faults.reset]
    BY <1>4, <1>5, <1>6
  <2>2. /\ o.status = Sight(r).status /\ o.released = Sight(r).released /\ o.ship = Sight(r).ship
        /\ o.era = faults.reset
    BY <2>1 DEF Sight
  <2>3. life[r].status \in OnChain /\ life[r].released \in Nat
    BY <1>2, <1>6 DEF Escrowed, LifeStates
  <2>4. o \in Observation
    BY <1>2, <2>1, <2>3 DEF Observation, OnChain, Endings
  <2>5. Ahead(o, Sight(r))
    <3>1. Sight(r).released \in Nat /\ Stage[Sight(r).status] \in Nat
      BY <2>3 DEF Sight, Stage, LifeStates
    <3> QED BY <2>2, <3>1 DEF Ahead
  <2>6. Dated(o, r)
    BY <1>2, <2>2, <2>3, <2>4, <2>5 DEF Dated, Sight
  <2>7. known => Ahead(req[r].seen, o)
    <3>1. known => Dated(req[r].seen, r) /\ req[r].seen.era = faults.reset
      BY <1>2, <1>6 DEF Told
    <3>2. known => Ahead(req[r].seen, Sight(r))
      BY <3>1 DEF Dated
    <3> HIDE DEF known
    <3> QED BY <2>2, <3>2 DEF Ahead
  <2> QED BY <2>6, <2>7
<1>7. Recordable(r, o)
  <2>1. CASE onNode
    BY <1>3, <1>6, <2>1 DEF Recordable
  <2>2. CASE ~onNode
    BY <1>3, <1>4, <1>5, <2>2 DEF Recordable
  <2> QED BY <2>1, <2>2
<1>8. job'.at = "request" /\ job'.cur = r /\ job'.obs = o
  BY <1>1, <1>5 DEF Idle
<1> HIDE DEF obs, onNode, known
<1>9. Same
  BY <1>1 DEF Same
<1>10. Recordable(r, o)'
  BY <1>7, <1>9, SameKeeps
<1>11. JobOK'
  <2>1. Recordable(job.cur, job.obs)'
    BY <1>8, <1>10
  <2> QED BY <1>8, <2>1 DEF JobOK
<1>12. faults' = [crash |-> faults'.crash, reset |-> faults'.reset] /\ arrived' \in [Requests -> BOOLEAN]
  BY <1>1 DEF OrdersIInv, ChainOK, StoresOK
<1> QED BY <1>1, <1>9, <1>11, <1>12, WatcherTurns

LEMMA Posts ==
  ASSUME OrdersAssumption, OrdersIInv, NEW x \in Invoices \cup Requests, NEW arrives \in BOOLEAN,
         NEW reply \in Replies, Post(x, arrives, reply)
  PROVE  OrdersIInv'
<1>1. /\ Owes(x) /\ (reply = "ok" => arrives)
      /\ job' = [Idle EXCEPT !.at = "posted", !.cur = x, !.reply = reply]
      /\ arrived' = IF arrives /\ x \in Requests THEN [arrived EXCEPT ![x] = TRUE] ELSE arrived
      /\ UNCHANGED <<inv, req, told, life, ship, faults>>
  BY DEF Post, stores, chain
<1>2. job'.at = "posted" /\ job'.cur = x /\ job'.reply = reply
  BY <1>1 DEF Idle
<1>3. arrived \in [Requests -> BOOLEAN]
  BY DEF OrdersIInv, StoresOK
<1>4. arrived' \in [Requests -> BOOLEAN] /\ (reply = "ok" /\ x \in Requests => arrived'[x])
  BY <1>1, <1>3
<1>5. JobOK'
  BY <1>1, <1>2, <1>4 DEF JobOK, Answered, Owes
<1>6. Same /\ faults' = [crash |-> faults'.crash, reset |-> faults'.reset] /\ inv' = inv
  BY <1>1 DEF Same, OrdersIInv, ChainOK
<1> QED BY <1>4, <1>5, <1>6, WatcherTurns

LEMMA LooksAndCrashes ==
  ASSUME OrdersIInv, LookInvoices \/ Crash
  PROVE  OrdersIInv'
<1>1. /\ job'.at \in {"idle", "invoices"} /\ UNCHANGED <<inv, req, told, arrived, life, ship>>
      /\ faults' = faults \/ faults' = [faults EXCEPT !.crash = @ + 1]
  <2>1. CASE LookInvoices
    <3>1. job' = [Idle EXCEPT !.at = "invoices", !.todo = Pending, !.covered = Covered]
          /\ UNCHANGED <<inv, req, told, arrived, life, ship, faults>>
      BY <2>1 DEF LookInvoices, stores, chain, history
    <3>2. job'.at = "invoices"
      BY <3>1 DEF Idle
    <3> QED BY <3>1, <3>2
  <2>2. CASE Crash
    <3>1. /\ job' = Idle /\ faults' = [faults EXCEPT !.crash = @ + 1]
          /\ UNCHANGED <<inv, req, told, arrived, life, ship>>
      BY <2>2 DEF Crash, stores, chain, history
    <3> QED BY <3>1 DEF Idle
  <2> QED BY <2>1, <2>2
<1>2. faults = [crash |-> faults.crash, reset |-> faults.reset]
  BY DEF OrdersIInv, ChainOK
<1>3. faults' = [crash |-> faults'.crash, reset |-> faults'.reset] /\ faults'.reset = faults.reset
  BY <1>1, <1>2
<1>4. JobOK'
  BY <1>1 DEF JobOK
<1>5. Same /\ inv' = inv /\ arrived' \in [Requests -> BOOLEAN]
  BY <1>1, <1>3 DEF Same, OrdersIInv, StoresOK
<1> QED BY <1>3, <1>4, <1>5, WatcherTurns

Request == [status : {"none", "awaiting", "linked", "expired", "cancelled", "missing"},
            overdue : BOOLEAN, seen : Observation, events : Seq(EventTypes), tries : 0..MaxTries - 1]

(* One request changes, and what it told grows with it. *)
LEMMA OneRequestChanges ==
  ASSUME OrdersIInv, NEW r \in Requests, NEW q \in Request, NEW t \in Seq(EventTypes),
         req' = [req EXCEPT ![r] = q], told' = [told EXCEPT ![r] = t],
         UNCHANGED <<inv, life, ship, faults>>, arrived' \in [Requests -> BOOLEAN],
         q.seen = Unseen => /\ q.status \in {"none", "awaiting", "expired", "cancelled"}
                            /\ t = IF q.status = "expired" THEN <<"expired">> ELSE <<>>,
         q.seen # Unseen => q.status \in {"linked", "missing"} /\ Dated(q.seen, r) /\ Tale(t, q.seen),
         JobOK'
  PROVE  OrdersIInv'
<1>1. req \in [Requests -> Request] /\ told \in [Requests -> Seq(EventTypes)]
  BY DEF OrdersIInv, StoresOK, OrdersTypeOK, Request
<1>2. /\ req' \in [Requests -> Request] /\ told' \in [Requests -> Seq(EventTypes)]
      /\ req'[r] = q /\ told'[r] = t
      /\ \A p \in Requests : p # r => req'[p] = req[p] /\ told'[p] = told[p]
  BY <1>1
<1>3. ChainOK'
  BY DEF OrdersIInv, ChainOK, LifeIs
<1>4. StoresOK'
  BY <1>2 DEF OrdersIInv, StoresOK, OrdersTypeOK, Request
<1>5. ASSUME NEW o, NEW p, Dated(o, p) PROVE Dated(o, p)'
  BY <1>5 DEF Dated, Sight, Ahead
<1>6. ASSUME NEW p \in Requests PROVE Told(p)'
  <2>1. CASE p = r
    <3>1. PICK o : o = q.seen
      OBVIOUS
    <3>2. o # Unseen => Dated(o, p)'
      BY <1>5, <2>1, <3>1
    <3> QED BY <1>2, <2>1, <3>1, <3>2 DEF Told, Tale
  <2>2. CASE p # r
    <3>1. PICK o : o = req[p].seen /\ o = req'[p].seen
      BY <1>2, <2>2
    <3>2. Dated(o, p) => Dated(o, p)'
      BY <1>5
    <3>3. Told(p) /\ req'[p] = req[p] /\ told'[p] = told[p]
      BY <1>2, <2>2 DEF OrdersIInv
    <3> QED BY <3>1, <3>2, <3>3 DEF Told, Tale
  <2> QED BY <2>1, <2>2
<1> QED BY <1>3, <1>4, <1>6 DEF OrdersIInv

LEMMA TypesOfRequest ==
  ASSUME OrdersIInv, NEW r \in Requests
  PROVE  /\ req[r] \in Request /\ told[r] \in Seq(EventTypes) /\ arrived \in [Requests -> BOOLEAN]
         /\ req \in [Requests -> Request] /\ told \in [Requests -> Seq(EventTypes)] /\ Told(r)
         /\ req[r].seen \in Observation /\ req[r].events \in Seq(EventTypes) /\ req[r].tries \in 0..MaxTries - 1
<1>1. /\ req \in [Requests -> Request] /\ told \in [Requests -> Seq(EventTypes)]
      /\ arrived \in [Requests -> BOOLEAN] /\ Told(r)
  BY DEF OrdersIInv, StoresOK, OrdersTypeOK, Request
<1>2. req[r] \in Request /\ told[r] \in Seq(EventTypes)
  BY <1>1
<1> QED BY <1>1, <1>2 DEF Request

(* The handlers change a status or find a deadline past. *)
LEMMA StatusSteps ==
  ASSUME OrdersAssumption, OrdersIInv, NEW r \in Requests, NewEscrowRequest(r) \/ Cancel(r) \/ RequestDeadline(r)
  PROVE  OrdersIInv'
<1>1. /\ UNCHANGED <<inv, told, arrived, job, life, ship, faults>>
      /\ \/ req[r].status = "none" /\ req' = [req EXCEPT ![r].status = "awaiting"]
         \/ req[r].status = "awaiting" /\ req' = [req EXCEPT ![r].status = "cancelled"]
         \/ req[r].status = "awaiting" /\ req' = [req EXCEPT ![r].overdue = TRUE]
  BY DEF NewEscrowRequest, Cancel, RequestDeadline, chain, history
<1>2. req[r] \in Request /\ req \in [Requests -> Request] /\ Told(r) /\ told[r] \in Seq(EventTypes)
  BY TypesOfRequest
<1>3. req[r].status \in {"none", "awaiting"}
  BY <1>1
<1>4. PICK q \in Request : /\ req' = [req EXCEPT ![r] = q] /\ q.seen = req[r].seen /\ q.events = req[r].events
                           /\ q.status \in {"awaiting", "cancelled"}
  <2>1. CASE req' = [req EXCEPT ![r].status = "awaiting"]
    <3> DEFINE q == [req[r] EXCEPT !.status = "awaiting"]
    <3>1. /\ q \in Request /\ req' = [req EXCEPT ![r] = q] /\ q.seen = req[r].seen /\ q.events = req[r].events
          /\ q.status = "awaiting"
      BY <1>2, <2>1 DEF Request
    <3> QED BY <3>1
  <2>2. CASE req' = [req EXCEPT ![r].status = "cancelled"]
    <3> DEFINE q == [req[r] EXCEPT !.status = "cancelled"]
    <3>1. /\ q \in Request /\ req' = [req EXCEPT ![r] = q] /\ q.seen = req[r].seen /\ q.events = req[r].events
          /\ q.status = "cancelled"
      BY <1>2, <2>2 DEF Request
    <3> QED BY <3>1
  <2>3. CASE req[r].status = "awaiting" /\ req' = [req EXCEPT ![r].overdue = TRUE]
    <3> DEFINE q == [req[r] EXCEPT !.overdue = TRUE]
    <3>1. /\ q \in Request /\ req' = [req EXCEPT ![r] = q] /\ q.seen = req[r].seen /\ q.events = req[r].events
          /\ q.status = "awaiting"
      BY <1>2, <2>3 DEF Request
    <3> QED BY <3>1
  <2> QED BY <1>1, <2>1, <2>2, <2>3
<1>5. q.seen = Unseen /\ told[r] = <<>>
  BY <1>2, <1>3, <1>4 DEF Told
<1>6. PICK t \in Seq(EventTypes) : t = told[r] /\ t = <<>> /\ told' = [told EXCEPT ![r] = t]
  <2>1. told \in [Requests -> Seq(EventTypes)]
    BY TypesOfRequest
  <2> QED BY <1>1, <1>2, <1>5, <2>1
<1>7. \A p \in Requests : p # r => req'[p] = req[p]
  BY <1>2, <1>4
<1>8. req'[r] = q
  BY <1>2, <1>4
<1>9. JobOK'
  <2>1. ASSUME job.at = "request" PROVE Recordable(job.cur, job.obs)'
    <3>1. PICK p, o : p = job.cur /\ o = job.obs /\ p = job'.cur /\ o = job'.obs
      BY <1>1
    <3>2. Recordable(p, o)
      BY <2>1, <3>1 DEF OrdersIInv, JobOK
    <3>3. Dated(o, p) => Dated(o, p)'
      BY <1>1 DEF Dated, Sight, Ahead
    <3>4. req'[p].seen = req[p].seen /\ (p # r => req'[p] = req[p])
      BY <1>4, <1>7, <1>8, <3>2 DEF Recordable
    <3>5. Recordable(p, o)'
      BY <1>4, <1>5, <1>8, <3>2, <3>3, <3>4 DEF Recordable, Ahead
    <3> QED BY <3>1, <3>5
  <2>2. ASSUME job.at = "posted" PROVE Answered(job.cur, job.reply)'
    <3>1. Answered(job.cur, job.reply)
      BY <2>2 DEF OrdersIInv, JobOK
    <3>2. \A p \in Requests : req'[p].events = req[p].events
      BY <1>4, <1>7, <1>8
    <3> QED BY <1>1, <3>1, <3>2 DEF Answered, Owes
  <2> QED BY <1>1, <2>1, <2>2 DEF JobOK
<1>10. arrived' \in [Requests -> BOOLEAN] /\ UNCHANGED <<inv, life, ship, faults>>
  BY <1>1 DEF OrdersIInv, StoresOK
<1>11. q.seen = Unseen => /\ q.status \in {"none", "awaiting", "expired", "cancelled"}
                          /\ t = IF q.status = "expired" THEN <<"expired">> ELSE <<>>
  BY <1>4, <1>6
<1>12. q.seen # Unseen => q.status \in {"linked", "missing"} /\ Dated(q.seen, r) /\ Tale(t, q.seen)
  BY <1>5
<1> QED BY <1>4, <1>6, <1>9, <1>10, <1>11, <1>12, OneRequestChanges

LEMMA PoppedIs ==
  ASSUME OrdersAssumption, NEW r, req[r] \in Request, req[r].events # <<>>
  PROVE  /\ Popped(r) \in Request /\ Popped(r).seen = req[r].seen /\ Popped(r).status = req[r].status
         /\ Popped(r).events = Tail(req[r].events)
<1>1. req[r].events \in Seq(EventTypes) /\ 0 \in 0..MaxTries - 1
  BY DEF Request, OrdersAssumption
<1>2. Tail(req[r].events) \in Seq(EventTypes)
  BY <1>1
<1>3. PICK e \in Seq(EventTypes) : e = Tail(req[r].events)
  BY <1>2, Zenon
<1>4. PICK x \in Request : x = req[r]
  OBVIOUS
<1> DEFINE y == [x EXCEPT !.events = e]
           z == [y EXCEPT !.tries = 0]
<1>5. y \in Request /\ y.seen = x.seen /\ y.status = x.status /\ y.events = e
  BY DEF Request
<1>6. [x EXCEPT !.events = e, !.tries = 0] = z
  BY Zenon
<1>7. Popped(r) = [x EXCEPT !.events = e, !.tries = 0]
  BY <1>3, <1>4 DEF Popped
<1>8. z \in Request /\ z.seen = x.seen /\ z.status = x.status /\ z.events = e
  <2> HIDE DEF y
  <2> QED BY <1>1, <1>5 DEF Request
<1> QED BY <1>3, <1>4, <1>6, <1>7, <1>8, Zenon

LEMMA EventUpdated ==
  ASSUME OrdersAssumption, OrdersIInv, UpdateEvent
  PROVE  OrdersIInv'
<1>1. PICK r \in Requests : r = job.cur
  BY DEF UpdateEvent
<1>2. /\ job.at = "posted" /\ UNCHANGED <<inv, told, life, ship, faults>> /\ job' = Idle
      /\ req' = [req EXCEPT ![r] = AfterPost(r)]
      /\ arrived' = [arrived EXCEPT ![r] = @ /\ AfterPost(r).events = req[r].events]
  BY <1>1 DEF UpdateEvent, chain
<1>3. /\ req[r] \in Request /\ req \in [Requests -> Request] /\ Told(r) /\ arrived \in [Requests -> BOOLEAN]
      /\ told \in [Requests -> Seq(EventTypes)] /\ told[r] \in Seq(EventTypes)
      /\ req[r].events \in Seq(EventTypes) /\ req[r].tries \in 0..MaxTries - 1
  BY TypesOfRequest
<1>4. req[r].events # <<>>
  BY <1>1, <1>2 DEF OrdersIInv, JobOK, Answered, Owes, OrdersAssumption
<1>5. PICK q \in Request : q = AfterPost(r) /\ q.seen = req[r].seen /\ q.status = req[r].status
  <2>1. CASE job.reply = "failed" /\ ~GivenUp(req[r])
    <3> DEFINE q == [req[r] EXCEPT !.tries = @ + 1]
    <3>1. q = AfterPost(r)
      BY <2>1 DEF AfterPost
    <3>2. ~(req[r].tries + 1 >= MaxTries) /\ MaxTries \in Nat
      BY <2>1 DEF GivenUp, OrdersAssumption
    <3>3. req[r].tries + 1 \in 0..MaxTries - 1
      BY <1>3, <3>2
    <3>4. q \in Request /\ q.seen = req[r].seen /\ q.status = req[r].status
      BY <1>3, <3>3 DEF Request
    <3> HIDE DEF q
    <3> QED BY <3>1, <3>4
  <2>2. CASE ~(job.reply = "failed" /\ ~GivenUp(req[r]))
    <3>1. AfterPost(r) = Popped(r)
      BY <2>2 DEF AfterPost
    <3> QED BY <1>3, <1>4, <3>1, PoppedIs
  <2> QED BY <2>1, <2>2
<1>6. req' = [req EXCEPT ![r] = q] /\ told' = [told EXCEPT ![r] = told[r]]
  BY <1>2, <1>3, <1>5
<1>7. arrived' \in [Requests -> BOOLEAN] /\ UNCHANGED <<inv, life, ship, faults>>
  BY <1>2, <1>3
<1>8. JobOK'
  BY <1>2 DEF JobOK, Idle
<1>9. q.seen = Unseen => /\ q.status \in {"none", "awaiting", "expired", "cancelled"}
                         /\ told[r] = IF q.status = "expired" THEN <<"expired">> ELSE <<>>
  BY <1>3, <1>5 DEF Told
<1>10. q.seen # Unseen => q.status \in {"linked", "missing"} /\ Dated(q.seen, r) /\ Tale(told[r], q.seen)
  BY <1>3, <1>5 DEF Told
<1> QED BY <1>3, <1>6, <1>7, <1>8, <1>9, <1>10, OneRequestChanges

(* What request r becomes, with what it then has told, fits what was seen.  *)
Truthful(r, next, news) ==
  /\ next.events = req[r].events
  /\ next.seen = Unseen => /\ next.status \in {"none", "awaiting", "expired", "cancelled"}
                           /\ told[r] \o news = IF next.status = "expired" THEN <<"expired">> ELSE <<>>
  /\ next.seen # Unseen => /\ next.status \in {"linked", "missing"} /\ Dated(next.seen, r)
                           /\ Tale(told[r] \o news, next.seen)

(* A request is updated and what is new is queued and told. *)
LEMMA NewsApplied ==
  ASSUME OrdersIInv, NEW r \in Requests, NEW next \in Request, NEW news \in Seq(EventTypes),
         req' = [req EXCEPT ![r] = [next EXCEPT !.events = @ \o news]],
         told' = [told EXCEPT ![r] = @ \o news], job' = Idle, UNCHANGED <<inv, life, ship, faults, arrived>>,
         Truthful(r, next, news)
  PROVE  OrdersIInv'
<1>1. /\ told[r] \in Seq(EventTypes) /\ arrived \in [Requests -> BOOLEAN]
      /\ told \in [Requests -> Seq(EventTypes)] /\ next.events \in Seq(EventTypes)
  BY TypesOfRequest DEF Request
<1>2. told[r] \o news \in Seq(EventTypes) /\ next.events \o news \in Seq(EventTypes)
  BY <1>1
<1>3. PICK t \in Seq(EventTypes) : t = told[r] \o news
  BY <1>2, Zenon
<1>4. PICK e \in Seq(EventTypes) : e = next.events \o news
  BY <1>2, Zenon
<1> DEFINE q == [next EXCEPT !.events = e]
<1>5. q \in Request /\ q.seen = next.seen /\ q.status = next.status
  BY DEF Request
<1>6. [next EXCEPT !.events = @ \o news] = q
  BY <1>4
<1> HIDE DEF q
<1>7. req' = [req EXCEPT ![r] = q]
  BY <1>6, Zenon
<1>8. told' = [told EXCEPT ![r] = t]
  BY <1>1, <1>3
<1>9. JobOK' /\ arrived' \in [Requests -> BOOLEAN]
  BY <1>1 DEF JobOK, Idle
<1>10. q.seen = Unseen => /\ q.status \in {"none", "awaiting", "expired", "cancelled"}
                          /\ t = IF q.status = "expired" THEN <<"expired">> ELSE <<>>
  BY <1>3, <1>5, Zenon DEF Truthful
<1>11. q.seen # Unseen => q.status \in {"linked", "missing"} /\ Dated(q.seen, r) /\ Tale(t, q.seen)
  BY <1>3, <1>5, Zenon DEF Truthful
<1> QED BY <1>5, <1>7, <1>8, <1>9, <1>10, <1>11, OneRequestChanges

LEMMA ObservationTold ==
  ASSUME OrdersIInv, NEW r, NEW o, Recordable(r, o), Observe(r, o)
  PROVE  \E next \in Request, news \in Seq(EventTypes) :
           /\ req' = [req EXCEPT ![r] = [next EXCEPT !.events = @ \o news]]
           /\ told' = [told EXCEPT ![r] = @ \o news]
           /\ Truthful(r, next, news)
<1>4. /\ r \in Requests
      /\ req[r].seen = Unseen => req[r].status \in {"awaiting", "cancelled"}
      /\ req[r].seen # Unseen => req[r].status = "linked" /\ req[r].seen.status \in Life!Live
      /\ \/ o.status = "none" /\ req[r].seen = Unseen
         \/ o.status = "missing" /\ req[r].seen # Unseen
         \/ Dated(o, r) /\ (req[r].seen # Unseen => Ahead(req[r].seen, o))
  BY DEF Recordable
<1>5. /\ req[r] \in Request /\ told[r] \in Seq(EventTypes) /\ req[r].seen \in Observation
      /\ req[r].seen = Unseen => told[r] = <<>>
      /\ req[r].seen # Unseen => Dated(req[r].seen, r) /\ Tale(told[r], req[r].seen)
  <2>1. Told(r)
    BY <1>4, TypesOfRequest
  <2> QED BY <1>4, <2>1, TypesOfRequest DEF Told
<1> DEFINE q    == req[r]
           news == CASE o.status = "missing" -> <<>>
                     [] o.status = "none" ->
                          IF q.status = "awaiting" /\ q.overdue THEN <<"expired">> ELSE <<>>
                     [] OTHER -> EscrowEvents(q.seen, o)
           next == CASE o.status = "missing" -> [q EXCEPT !.status = "missing"]
                     [] o.status = "none" ->
                          IF q.status = "awaiting" /\ q.overdue THEN [q EXCEPT !.status = "expired"] ELSE q
                     [] OTHER -> [q EXCEPT !.status = IF q.seen = Unseen THEN "linked" ELSE @, !.seen = o]
<1>6. /\ req' = [req EXCEPT ![r] = [next EXCEPT !.events = @ \o news]]
      /\ told' = [told EXCEPT ![r] = @ \o news]
  BY DEF Observe
<1>7. <<>> \in Seq(EventTypes) /\ <<"expired">> \in Seq(EventTypes)
  BY DEF EventTypes
<1>8. ASSUME o.status = "missing" PROVE next \in Request /\ news \in Seq(EventTypes) /\ Truthful(r, next, news)
  <2>1. next = [q EXCEPT !.status = "missing"] /\ news = <<>>
    BY <1>8
  <2>2. q.seen # Unseen
    BY <1>4, <1>8 DEF Dated, OnChain, Endings, Life!Live, Life!Undisputed
  <2>3. next \in Request /\ next.status = "missing" /\ next.seen = q.seen /\ next.events = q.events
    BY <1>5, <2>1 DEF Request
  <2> HIDE DEF news, next
  <2>4. told[r] \o news = told[r]
    <3>1. told[r] \o <<>> = told[r]
      BY <1>5
    <3> QED BY <2>1, <3>1, Zenon
  <2> HIDE DEF q
  <2>5. Dated(next.seen, r) /\ Tale(told[r] \o news, next.seen)
    BY <1>5, <2>2, <2>3, <2>4 DEF q
  <2>6. news \in Seq(EventTypes)
    BY <1>7, <2>1
  <2> QED BY <2>2, <2>3, <2>5, <2>6 DEF Truthful, q
<1>9. ASSUME o.status = "none" PROVE next \in Request /\ news \in Seq(EventTypes) /\ Truthful(r, next, news)
  <2>1. q.seen = Unseen /\ told[r] = <<>>
    BY <1>4, <1>5, <1>9 DEF Dated, OnChain, Endings, Life!Live, Life!Undisputed
  <2>2. \/ next = [q EXCEPT !.status = "expired"] /\ news = <<"expired">>
        \/ next = q /\ news = <<>>
    BY <1>9
  <2>3. /\ next \in Request /\ next.seen = Unseen /\ next.events = q.events
        /\ \/ next.status = "expired" /\ news = <<"expired">>
           \/ next.status \in {"awaiting", "cancelled"} /\ news = <<>>
    BY <1>4, <1>5, <2>1, <2>2 DEF Request
  <2> HIDE DEF q, news, next
  <2>4. news \in Seq(EventTypes)
    BY <1>7, <2>3
  <2>5. told[r] \o news = news
    BY <2>1, <2>4
  <2>6. /\ next.status \in {"none", "awaiting", "expired", "cancelled"}
        /\ told[r] \o news = IF next.status = "expired" THEN <<"expired">> ELSE <<>>
    BY <2>3, <2>5
  <2> QED BY <2>3, <2>4, <2>6 DEF Truthful, q
<1>10. ASSUME o.status \notin {"missing", "none"} PROVE next \in Request /\ news \in Seq(EventTypes) /\ Truthful(r, next, news)
  <2>1. Dated(o, r) /\ o # Unseen /\ (q.seen # Unseen => Ahead(q.seen, o))
    BY <1>4, <1>10 DEF Unseen
  <2>2. o \in Observation /\ o.status \in OnChain
    BY <2>1 DEF Dated
  <2>3. o.released \in Nat /\ o.ship \in BOOLEAN
    BY <2>2 DEF Observation
  <2>4. next = [q EXCEPT !.status = IF q.seen = Unseen THEN "linked" ELSE @, !.seen = o] /\ news = EscrowEvents(q.seen, o)
    BY <1>10
  <2>5. next \in Request /\ next.seen = o /\ next.status = "linked" /\ next.events = q.events
    <3>1. PICK s \in {"linked"} : s = IF q.seen = Unseen THEN "linked" ELSE q.status
      BY <1>4
    <3>2. next = [status |-> s, overdue |-> q.overdue, seen |-> o, events |-> q.events, tries |-> q.tries]
      BY <1>5, <2>4, <3>1 DEF Request
    <3> QED BY <1>5, <2>2, <3>1, <3>2 DEF Request
  <2> HIDE DEF news, next
  <2>6. news \in Seq(EventTypes) /\ Tale(told[r] \o news, o)
    <3>1. CASE q.seen = Unseen
      <4>1. EscrowEvents(Unseen, o) \in Seq(EventTypes) /\ Tale(EscrowEvents(Unseen, o), o)
        <5>1. EscrowEvents(Unseen, o) = <<"funded">> \o Changes([Unseen EXCEPT !.status = "funded"], o)
          BY Zenon DEF EscrowEvents
        <5>2. /\ <<"funded">> \o Changes([Unseen EXCEPT !.status = "funded"], o) \in Seq(EventTypes)
              /\ Tale(<<"funded">> \o Changes([Unseen EXCEPT !.status = "funded"], o), o)
          BY <2>2, <2>3, TaleStarts
        <5> QED BY <5>1, <5>2, Zenon
      <4>2. news = EscrowEvents(Unseen, o)
        BY <2>4, <3>1, Zenon
      <4>3. news \in Seq(EventTypes) /\ Tale(news, o)
        BY <4>1, <4>2, Zenon
      <4>4. told[r] \o news = news
        BY <1>5, <3>1, <4>3
      <4> QED BY <4>3, <4>4, Zenon
    <3>2. CASE q.seen # Unseen
      <4>1. PICK p : p = q.seen
        OBVIOUS
      <4>2. /\ p.released \in Nat /\ p.ship \in BOOLEAN /\ p.status \in Life!Live /\ Tale(told[r], p) /\ Ahead(p, o)
        BY <1>4, <1>5, <2>1, <3>2, <4>1 DEF Observation
      <4>3. /\ Changes(p, o) \in Seq(EventTypes)
            /\ Tale(told[r] \o Changes(p, o), o)
        <5>1. Reports(Changes(p, o), p, o)
          BY <2>2, <2>3, <4>2, ChangesReport DEF Ahead
        <5> QED BY <1>5, <2>2, <2>3, <4>2, <5>1, TaleGoesOn DEF Reports
      <4>4. news = Changes(p, o)
        BY <2>4, <3>2, <4>1, Zenon DEF EscrowEvents
      <4> QED BY <4>3, <4>4, Zenon
    <3> QED BY <3>1, <3>2
  <2>7. next.seen # Unseen /\ next.status \in {"linked", "missing"} /\ Dated(next.seen, r) /\ Tale(told[r] \o news, next.seen)
    <3> HIDE DEF q
    <3> QED BY <2>1, <2>5, <2>6, Zenon
  <2> QED BY <2>5, <2>6, <2>7 DEF Truthful
<1> HIDE DEF next, news
<1> QED BY <1>6, <1>8, <1>9, <1>10

LEMMA ObservationApplied ==
  ASSUME OrdersIInv, ApplyRequest
  PROVE  OrdersIInv'
<1>1. PICK r : r = job.cur
  OBVIOUS
<1>2. PICK o : o = job.obs
  OBVIOUS
<1>3. Observe(r, o) /\ job' = Idle /\ UNCHANGED <<inv, life, ship, faults, arrived>> /\ Recordable(r, o)
  BY <1>1, <1>2 DEF ApplyRequest, chain, OrdersIInv, JobOK
<1>4. r \in Requests
  BY <1>3 DEF Recordable
<1>5. PICK next \in Request, news \in Seq(EventTypes) :
        /\ req' = [req EXCEPT ![r] = [next EXCEPT !.events = @ \o news]]
        /\ told' = [told EXCEPT ![r] = @ \o news]
        /\ Truthful(r, next, news)
  BY <1>3, ObservationTold
<1> QED BY <1>3, <1>4, <1>5, NewsApplied

-----------------------------------------------------------------------------
(* The theorem. *)

LEMMA PaymentSteps ==
  ASSUME OrdersIInv, NEW i \in Invoices, NEW enough \in BOOLEAN, PayInvoice(i, enough)
  PROVE  OrdersIInv'
<1>1. UNCHANGED <<inv, req, told, arrived, job, life, ship, faults>>
  BY DEF PayInvoice, stores, history
<1>2. Same /\ \A j \in Invoices : inv[j].hook => inv'[j].hook
  BY <1>1 DEF Same
<1>3. inv' \in [Invoices -> Invoice] /\ \A j \in Invoices : inv'[j].hook => inv'[j].tries < MaxTries
  BY <1>1 DEF OrdersIInv, StoresOK, OrdersTypeOK, Invoice
<1> QED BY <1>1, <1>2, <1>3, InvoicesChange

LEMMA NothingHappens ==
  ASSUME OrdersIInv, UNCHANGED vars
  PROVE  OrdersIInv'
<1>1. UNCHANGED <<inv, req, told, arrived, job, life, ship, faults>>
  BY DEF vars, stores, chain, history
<1>2. Same /\ \A j \in Invoices : inv[j].hook => inv'[j].hook
  BY <1>1 DEF Same
<1>3. inv' \in [Invoices -> Invoice] /\ \A j \in Invoices : inv'[j].hook => inv'[j].tries < MaxTries
  BY <1>1 DEF OrdersIInv, StoresOK, OrdersTypeOK, Invoice
<1> QED BY <1>1, <1>2, <1>3, InvoicesChange

LEMMA OrdersStart ==
  ASSUME OrdersAssumption, OrdersInit
  PROVE  OrdersIInv
<1>1. ChainOK
  <2>1. Life!Unborn \in Escrowed /\ LifeIs(Life!Unborn)
    BY DEF Life!Unborn, Escrowed, LifeIs, LifeStates, Life!Undisputed
  <2> QED BY <2>1 DEF OrdersInit, ChainOK, OrdersAssumption, LifeIs
<1>2. StoresOK
  <2>1. Unseen \in Observation
    BY DEF Unseen, Observation, OrdersAssumption
  <2>2. <<>> \in Seq(EventTypes) /\ 0 \in 0..MaxTries /\ 0 \in 0..MaxTries - 1 /\ 0 < MaxTries
    BY DEF OrdersAssumption
  <2>3. NoInvoice \in Invoice /\ NoInvoice.tries = 0
    BY <2>2 DEF NoInvoice, Invoice
  <2>4. NoRequest \in Request
    BY <2>1, <2>2 DEF NoRequest, Request
  <2>5. inv \in [Invoices -> Invoice] /\ \A i \in Invoices : inv[i].hook => inv[i].tries < MaxTries
    BY <2>2, <2>3 DEF OrdersInit
  <2>6. req \in [Requests -> Request]
    BY <2>4 DEF OrdersInit
  <2>7. told \in [Requests -> Seq(EventTypes)] /\ arrived \in [Requests -> BOOLEAN]
    BY <2>2 DEF OrdersInit
  <2> QED BY <2>5, <2>6, <2>7 DEF StoresOK, OrdersTypeOK, Invoice, Request
<1>3. JobOK
  BY DEF OrdersInit, JobOK, Idle
<1>4. ASSUME NEW r \in Requests PROVE Told(r)
  <2>1. req[r].seen = Unseen /\ req[r].status = "none" /\ told[r] = <<>>
    BY DEF OrdersInit, NoRequest
  <2> QED BY <2>1 DEF Told
<1> QED BY <1>1, <1>2, <1>3, <1>4 DEF OrdersIInv

LEMMA OrdersKept ==
  ASSUME OrdersAssumption, OrdersIInv, [OrdersNext]_vars
  PROVE  OrdersIInv'
<1>1. ASSUME NEW i \in Invoices, CreateCheckout(i) \/ InvoiceDeadline(i) PROVE OrdersIInv'
  BY <1>1, InvoiceSteps
<1>2. ASSUME NEW i \in Invoices, NEW e \in BOOLEAN, PayInvoice(i, e) PROVE OrdersIInv'
  BY <1>2, PaymentSteps
<1>3. ASSUME NEW r \in Requests, NewEscrowRequest(r) \/ Cancel(r) \/ RequestDeadline(r) PROVE OrdersIInv'
  BY <1>3, StatusSteps
<1>4. ASSUME NEW r \in Requests, Proceed(r) PROVE OrdersIInv'
  BY <1>4, FundedOrProceeds
<1>5. ASSUME NEW r \in Requests, NEW n \in Counts, NEW f \in BOOLEAN, Fund(r, n, f) PROVE OrdersIInv'
  BY <1>5, FundedOrProceeds
<1>6. CASE ChainReset
  BY <1>6, ResetSteps
<1>7. CASE Crash \/ LookInvoices
  BY <1>7, LooksAndCrashes
<1>8. ASSUME NEW r \in Requests, LookRequest(r) PROVE OrdersIInv'
  BY <1>8, LooksAtRequest
<1>9. ASSUME NEW x \in Invoices \cup Requests, Delivery(x) PROVE OrdersIInv'
  BY <1>9, Posts DEF Delivery
<1>10. CASE StoreStep
  BY <1>10, InvoicesSettled, ObservationApplied, HookUpdated, EventUpdated DEF StoreStep
<1>11. CASE UNCHANGED vars
  BY <1>11, NothingHappens
<1> QED BY <1>1, <1>2, <1>3, <1>4, <1>5, <1>6, <1>7, <1>8, <1>9, <1>10, <1>11 DEF OrdersNext

LEMMA TalesAreStories ==
  ASSUME OrdersIInv
  PROVE  OrdersInv
<1>1. ASSUME NEW r \in Requests
      PROVE  /\ req[r].seen = Unseen =>
                  /\ req[r].status \in {"none", "awaiting", "expired", "cancelled"}
                  /\ told[r] = IF req[r].status = "expired" THEN <<"expired">> ELSE <<>>
             /\ req[r].seen # Unseen =>
                  /\ req[r].status \in {"linked", "missing"} /\ Tale(told[r], req[r].seen)
  BY DEF OrdersIInv, Told
<1>2. ASSUME NEW t, NEW s, Tale(t, s)
      PROVE  /\ t[1] = "funded" /\ Count(t, "funded") = 1 /\ Count(t, "expired") = 0
             /\ Count(t, "dispatched") = IF s.ship THEN 1 ELSE 0
             /\ Count(t, "released") = s.released
             /\ s.status = "disputed" => Count(t, "disputed") = 1
             /\ \A e \in Endings : Count(t, e) = IF s.status = e /\ t[Len(t)] = e THEN 1 ELSE 0
  BY <1>2 DEF Tale
<1>3. StoryIsTrue
  BY <1>1, <1>2 DEF StoryIsTrue
<1> QED BY <1>3 DEF OrdersIInv, StoresOK, OrdersInv

(* Whatever the polls, payments, cancellations, crashes of the backend and  *)
(* resets of the chain, the stores stay well formed, no webhook is tried    *)
(* more often than allowed, and the events queued for an escrow request     *)
(* tell exactly what was observed of its escrow (checkEscrows,              *)
(* escrowEvents).                                                           *)
THEOREM StoriesAreTrue == OrdersFairSpec => []OrdersInv
<1>1. OrdersInit => OrdersIInv
  BY OrdersAssumption, OrdersStart
<1>2. OrdersIInv /\ [OrdersNext]_vars => OrdersIInv'
  BY OrdersAssumption, OrdersKept
<1>3. OrdersIInv => OrdersInv
  BY TalesAreStories
<1> QED BY <1>1, <1>2, <1>3, PTL DEF OrdersFairSpec, OrdersSpec

-----------------------------------------------------------------------------
(* Webhooks leave their queue in order. *)

LEMMA PrefixOfConcat ==
  ASSUME NEW S, NEW s \in Seq(S), NEW t \in Seq(S)
  PROVE  IsPrefix(s, s \o t) /\ IsPrefix(s, s)
<1>1. /\ Len(s) <= Len(s \o t) /\ Len(s) <= Len(s)
      /\ SubSeq(s \o t, 1, Len(s)) = s /\ SubSeq(s, 1, Len(s)) = s
  OBVIOUS
<1> QED BY <1>1 DEF IsPrefix

LEMMA QueuesStand ==
  ASSUME OrdersIInv, NEW r \in Requests, req'[r].events = req[r].events
  PROVE  InOrder(r)
<1>1. req[r].events \in Seq(EventTypes)
  BY TypesOfRequest
<1>2. IsPrefix(req[r].events, req[r].events)
  BY <1>1, PrefixOfConcat
<1> QED BY <1>2, Zenon DEF InOrder

LEMMA QueuesGrow ==
  ASSUME OrdersIInv, NEW r \in Requests, ApplyRequest
  PROVE  InOrder(r)
<1>1. PICK p : p = job.cur
  OBVIOUS
<1>2. PICK o : o = job.obs
  OBVIOUS
<1>3. Observe(p, o) /\ Recordable(p, o)
  BY <1>1, <1>2 DEF ApplyRequest, OrdersIInv, JobOK
<1>4. p \in Requests /\ req \in [Requests -> Request] /\ req[p].events \in Seq(EventTypes)
  BY <1>3, TypesOfRequest DEF Recordable
<1>5. PICK next \in Request, news \in Seq(EventTypes) :
        req' = [req EXCEPT ![p] = [next EXCEPT !.events = @ \o news]] /\ next.events = req[p].events
  BY <1>3, ObservationTold DEF Truthful
<1>6. CASE r # p
  BY <1>4, <1>5, <1>6, QueuesStand
<1>7. CASE r = p
  <2>1. PICK e : e = req[p].events \o news
    OBVIOUS
  <2>2. [next EXCEPT !.events = @ \o news] = [next EXCEPT !.events = e]
    BY <1>5, <2>1
  <2>3. [next EXCEPT !.events = e].events = e
    BY DEF Request
  <2>4. req'[p] = [next EXCEPT !.events = @ \o news]
    BY <1>4, <1>5
  <2>5. req'[p].events = req[p].events \o news
    BY <2>1, <2>2, <2>3, <2>4, Zenon
  <2>6. IsPrefix(req[p].events, req[p].events \o news)
    BY <1>4, PrefixOfConcat
  <2> QED BY <1>7, <2>5, <2>6, Zenon DEF InOrder
<1> QED BY <1>6, <1>7

LEMMA QueuesShrink ==
  ASSUME OrdersAssumption, OrdersIInv, NEW r \in Requests, UpdateEvent
  PROVE  InOrder(r)
<1>1. PICK p \in Requests : p = job.cur
  BY DEF UpdateEvent
<1>2. job.at = "posted" /\ req' = [req EXCEPT ![p] = AfterPost(p)]
  BY <1>1 DEF UpdateEvent
<1>3. /\ req[p] \in Request /\ req \in [Requests -> Request] /\ req[p].tries \in 0..MaxTries - 1
      /\ MaxTries \in Nat
  BY TypesOfRequest DEF OrdersAssumption
<1>4. /\ req[p].events # <<>> /\ job.reply \in Replies
      /\ job.reply = "ok" => arrived[p]
  BY <1>1, <1>2 DEF OrdersIInv, JobOK, Answered, Owes, OrdersAssumption
<1>5. CASE r # p
  BY <1>2, <1>3, <1>5, QueuesStand
<1>6. CASE r = p /\ job.reply = "failed" /\ ~GivenUp(req[p])
  <2>1. req'[p] = [req[p] EXCEPT !.tries = @ + 1]
    BY <1>2, <1>3, <1>6 DEF AfterPost
  <2>2. req'[p].events = req[p].events
    BY <1>3, <2>1 DEF Request
  <2> QED BY <1>6, <2>2, QueuesStand
<1>7. CASE r = p /\ ~(job.reply = "failed" /\ ~GivenUp(req[p]))
  <2>1. req'[p] = Popped(p)
    BY <1>2, <1>3, <1>7 DEF AfterPost
  <2>2. req'[p].events = Tail(req[p].events)
    BY <1>3, <1>4, <2>1, PoppedIs
  <2>3. job.reply = "failed" => req[p].tries + 1 = MaxTries
    BY <1>3, <1>7 DEF GivenUp
  <2>4. arrived[p] \/ job.reply = "no url" \/ req[p].tries + 1 = MaxTries
    BY <1>4, <2>3 DEF Replies
  <2> QED BY <1>7, <2>2, <2>4, Zenon DEF InOrder
<1> QED BY <1>5, <1>6, <1>7

LEMMA QueuesInOrder ==
  ASSUME OrdersAssumption, OrdersIInv, [OrdersNext]_vars, NEW r \in Requests
  PROVE  InOrder(r)
<1>1. req \in [Requests -> Request]
  BY TypesOfRequest
<1>2. ASSUME NEW p \in Requests, NewEscrowRequest(p) \/ Cancel(p) \/ RequestDeadline(p) PROVE InOrder(r)
  <2>1. \/ req' = [req EXCEPT ![p].status = "awaiting"]
        \/ req' = [req EXCEPT ![p].status = "cancelled"]
        \/ req' = [req EXCEPT ![p].overdue = TRUE]
    BY <1>2 DEF NewEscrowRequest, Cancel, RequestDeadline
  <2>2. CASE r # p
    <3>1. req'[r] = req[r]
      BY <1>1, <2>1, <2>2
    <3> QED BY <3>1, QueuesStand
  <2>3. CASE r = p
    <3>1. PICK q \in Request : q = req[p]
      BY <1>1
    <3>2. \/ req'[p] = [q EXCEPT !.status = "awaiting"]
          \/ req'[p] = [q EXCEPT !.status = "cancelled"]
          \/ req'[p] = [q EXCEPT !.overdue = TRUE]
      BY <1>1, <2>1, <3>1
    <3>3. req'[p].events = q.events
      BY <3>2 DEF Request
    <3> QED BY <2>3, <3>1, <3>3, QueuesStand
  <2> QED BY <2>2, <2>3
<1>3. ASSUME req' = req PROVE InOrder(r)
  BY <1>3, QueuesStand
<1>4. ASSUME NEW i \in Invoices, CreateCheckout(i) \/ InvoiceDeadline(i) PROVE InOrder(r)
  BY <1>3, <1>4 DEF CreateCheckout, InvoiceDeadline
<1>5. ASSUME NEW i \in Invoices, NEW e \in BOOLEAN, PayInvoice(i, e) PROVE InOrder(r)
  BY <1>3, <1>5 DEF PayInvoice, stores
<1>6. ASSUME NEW p \in Requests, Proceed(p) \/ LookRequest(p) PROVE InOrder(r)
  BY <1>3, <1>6 DEF Proceed, LookRequest, stores
<1>7. ASSUME NEW p \in Requests, NEW n \in Counts, NEW f \in BOOLEAN, Fund(p, n, f) PROVE InOrder(r)
  BY <1>3, <1>7 DEF Fund, stores
<1>8. CASE ChainReset \/ Crash \/ LookInvoices
  BY <1>3, <1>8 DEF ChainReset, Crash, LookInvoices, stores
<1>9. ASSUME NEW x \in Invoices \cup Requests, Delivery(x) PROVE InOrder(r)
  BY <1>3, <1>9 DEF Delivery, Post, stores
<1>10. CASE SettleInvoices \/ UpdateHook
  BY <1>3, <1>10 DEF SettleInvoices, UpdateHook
<1>11. CASE ApplyRequest
  BY <1>11, QueuesGrow
<1>12. CASE UpdateEvent
  BY <1>12, QueuesShrink
<1>13. CASE UNCHANGED vars
  BY <1>3, <1>13 DEF vars, stores
<1> QED BY <1>2, <1>4, <1>5, <1>6, <1>7, <1>8, <1>9, <1>10, <1>11, <1>12, <1>13 DEF OrdersNext, StoreStep

(* The webhooks of a request leave its queue from the front, none before it *)
(* reached the app unless its last attempt failed or there is no URL, over  *)
(* every crash between a post and the Update that records it                *)
(* (deliverEscrowEvents).                                                   *)
THEOREM WebhooksLeaveInOrder == OrdersFairSpec => DeliveredInOrder
<1>1. OrdersInit => OrdersIInv
  BY OrdersAssumption, OrdersStart
<1>2. OrdersIInv /\ [OrdersNext]_vars => OrdersIInv'
  BY OrdersAssumption, OrdersKept
<1>3. OrdersIInv /\ [OrdersNext]_vars => [\A r \in Requests : InOrder(r)]_vars
  BY OrdersAssumption, QueuesInOrder
<1> QED BY <1>1, <1>2, <1>3, PTL DEF OrdersFairSpec, OrdersSpec, DeliveredInOrder
=============================================================================

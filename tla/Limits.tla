------------------------------- MODULE Limits -------------------------------
(***************************************************************************)
(* Two limits on what a client may ask for: the token bucket in front of   *)
(* the HTTP APIs (node/ratelimit) and the faucet of the ORPay backend      *)
(* (faucet.go), which pays an address once in a cooldown.                  *)
(*                                                                         *)
(* One client and one address are followed.  A call by another client      *)
(* matters only because it sweeps the buckets.  A token is PerToken units, *)
(* the bucket gains one unit in a unit of time.  The faucet's record is    *)
(* durable; a handler holds its mutex from the check to the record.        *)
(***************************************************************************)
EXTENDS Integers, Sequences

CONSTANTS Burst,      \* tokens of a full bucket
          PerToken,   \* time in which one token is gained
          SweepEvery, \* time between sweeps (a minute)
          Cooldown,   \* of the faucet
          Handlers,   \* faucet requests handled at the same time
          MaxClock,   \* bound on time
          MaxSlips    \* bound on crashes and lost answers

VARIABLES
  using,    \* which of the two limits is exercised
  clock,
  bucket,   \* the client's bucket, a set: empty, or of one
  sweep,    \* time of the last sweep
  allowed,  \* when the client's requests were allowed
  drip,     \* the faucet requests being handled
  last,     \* the faucet's record of the address, a set of one time or empty
  paid,     \* payments to the address: when, and how many faults before
  slips     \* crashes and lost answers so far

limits == <<using, clock, bucket, sweep, allowed, drip, last, paid, slips>>

LimitsInit ==
  /\ using \in {"requests", "faucet"}
  /\ clock = 0 /\ bucket = {} /\ sweep = -SweepEvery /\ allowed = <<>>
  /\ drip = [h \in Handlers |-> "idle"] /\ last = {} /\ paid = <<>> /\ slips = 0

-----------------------------------------------------------------------------
(* ratelimit. *)

FullAfter == Burst * PerToken

(* Mutant of Swept: a bucket is dropped at the first sweep after its use. *)
SweptEarly(b) == {x \in b : clock - x.last <= 0}

Swept(b) == {x \in b : clock - x.last <= FullAfter}

(* gc *)
Gc(b) == IF clock - sweep < SweepEvery THEN b ELSE Swept(b)
SweepTime == IF clock - sweep < SweepEvery THEN sweep ELSE clock

Least(x, y) == IF x < y THEN x ELSE y

Allow ==
  LET kept  == Gc(bucket)
      b     == IF kept = {} THEN [tokens |-> FullAfter, last |-> clock] ELSE CHOOSE x \in kept : TRUE
      units == Least(FullAfter, b.tokens + (clock - b.last))
      ok    == units >= PerToken
  IN  /\ using = "requests"
      /\ bucket' = {[tokens |-> IF ok THEN units - PerToken ELSE units, last |-> clock]}
      /\ allowed' = IF ok THEN Append(allowed, clock) ELSE allowed
      /\ sweep' = SweepTime
      /\ UNCHANGED <<using, clock, drip, last, paid, slips>>

AllowOther ==
  /\ using = "requests"
  /\ bucket' = Gc(bucket) /\ sweep' = SweepTime
  /\ UNCHANGED <<using, clock, allowed, drip, last, paid, slips>>

-----------------------------------------------------------------------------
(* drip. *)

(* Mutant of Unlocked: requests do not wait for each other. *)
UnlockedAlways == TRUE

Unlocked == \A h \in Handlers : drip[h] = "idle"

CoolingDown == \E t \in last : Cooldown - (clock - t) > 0

CheckDrip(h) ==
  /\ using = "faucet" /\ drip[h] = "idle" /\ Unlocked
  /\ ~CoolingDown
  /\ drip' = [drip EXCEPT ![h] = "submit"]
  /\ UNCHANGED <<using, clock, bucket, sweep, allowed, last, paid, slips>>

Pay == paid' = Append(paid, [at |-> clock, slips |-> slips])

SubmitDrip(h) ==
  /\ drip[h] = "submit"
  /\ \/ Pay /\ drip' = [drip EXCEPT ![h] = "record"] /\ UNCHANGED slips
     \/ UNCHANGED <<paid, slips>> /\ drip' = [drip EXCEPT ![h] = "idle"]
     \/ /\ slips < MaxSlips /\ slips' = slips + 1     \* paid, but the answer is lost
        /\ Pay /\ drip' = [drip EXCEPT ![h] = "idle"]
  /\ UNCHANGED <<using, clock, bucket, sweep, allowed, last>>

RecordDrip(h) ==
  /\ drip[h] = "record"
  /\ last' = {clock}
  /\ drip' = [drip EXCEPT ![h] = "idle"]
  /\ UNCHANGED <<using, clock, bucket, sweep, allowed, paid, slips>>

FaucetCrash ==
  /\ using = "faucet" /\ slips < MaxSlips
  /\ slips' = slips + 1
  /\ drip' = [h \in Handlers |-> "idle"]
  /\ UNCHANGED <<using, clock, bucket, sweep, allowed, last, paid>>

LimitsTick ==
  /\ clock < MaxClock
  /\ clock' = clock + 1
  /\ UNCHANGED <<using, bucket, sweep, allowed, drip, last, paid, slips>>

LimitsNext ==
  \/ Allow \/ AllowOther \/ FaucetCrash \/ LimitsTick
  \/ \E h \in Handlers : CheckDrip(h) \/ SubmitDrip(h) \/ RecordDrip(h)

-----------------------------------------------------------------------------
(* In any stretch of time the client is allowed no more than a burst and    *)
(* what the bucket gained meanwhile, although buckets are forgotten and     *)
(* made anew, full, when the client comes back.                             *)
RequestsAreLimited ==
  \A i, j \in DOMAIN allowed :
    i <= j => (j - i + 1) * PerToken <= Burst * PerToken + (allowed[j] - allowed[i])

(* The faucet pays an address at most once in a cooldown, for requests that *)
(* come together too; only a crash, or an answer of the node that is lost,  *)
(* between the payment and its record lets a second one through.            *)
DripsAreApart ==
  \A i, j \in DOMAIN paid :
    i < j /\ paid[i].slips = paid[j].slips => paid[j].at - paid[i].at >= Cooldown
=============================================================================

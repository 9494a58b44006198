------------------------------ MODULE Invites ------------------------------
(***************************************************************************)
(* Invites to saving circles (invites.go in apps/orpay/backend).  An       *)
(* organiser opens a draft, people join it, the organiser creates the pool *)
(* on the chain from the members who joined and reports it.                *)
(*                                                                         *)
(* The store of drafts is durable and every change is one Update.  Only    *)
(* startedDraft takes two steps: it reads the pool from the node and then  *)
(* compares it with the draft under the store's lock; what it read is in   *)
(* "look".  The options of a circle (contribution, asset, schedule,        *)
(* deposit, mode, insurance, target) are one value, taken as valid.        *)
(***************************************************************************)
EXTENDS Naturals, Sequences, SequencesExt, FiniteSets

CONSTANTS Drafts,   \* drafts that may be created
          Wallets,
          Options,  \* the options of a circle
          Slots,    \* sizes an organiser may ask for (2..MaxPoolMembers)
          Pools,    \* pools that may be created on the chain
          MaxPast   \* bound on the states of a pool

VARIABLES
  drafts,   \* the store
  look,     \* per wallet, the startedDraft request it is in the middle of
  pools,    \* pools on the chain
  agreed,   \* per draft, who asked to join and has not left or been removed
  past      \* per pool, the states it has been in

invites == <<drafts, look, pools, agreed, past>>

NoDraft == [organizer |-> "none", options |-> "none", slots |-> 0, members |-> <<>>,
            status |-> "none", pool |-> "none"]
NoPool  == [creator |-> "none", options |-> "none", members |-> <<>>]
NoLook  == [draft |-> "none", pool |-> "none", view |-> NoPool]

InvitesInit ==
  /\ drafts = [d \in Drafts |-> NoDraft]
  /\ look = [w \in Wallets |-> NoLook]
  /\ pools = [p \in Pools |-> NoPool]
  /\ agreed = [d \in Drafts |-> {}]
  /\ past = [p \in Pools |-> {}]

-----------------------------------------------------------------------------
(* Handlers; me is the wallet that signed the request. *)

CreateDraft(d, me, o, n) ==
  /\ drafts[d].status = "none"
  /\ drafts' = [drafts EXCEPT ![d] = [organizer |-> me, options |-> o, slots |-> n,
                                      members |-> <<me>>, status |-> "open", pool |-> "none"]]
  /\ UNCHANGED <<look, pools, agreed, past>>

(* changeDraft: fn has accepted the draft and left it as new. *)
ChangeDraft(d, new) ==
  /\ drafts[d].status # "none"
  /\ drafts' = [drafts EXCEPT ![d] = new]

WithMembers(d, ms) == [drafts[d] EXCEPT !.members = ms]

Full(d) == Len(drafts[d].members) >= drafts[d].slots

JoinDraft(d, me) ==
  /\ drafts[d].status = "open"
  /\ \/ /\ Contains(drafts[d].members, me)
        /\ UNCHANGED drafts
     \/ /\ ~Contains(drafts[d].members, me) /\ ~Full(d)
        /\ ChangeDraft(d, WithMembers(d, Append(drafts[d].members, me)))
  /\ agreed' = [agreed EXCEPT ![d] = @ \cup {me}]
  /\ UNCHANGED <<look, pools, past>>

(* slices.DeleteFunc of every entry that is who. *)
Deleted(s, who) ==
  LET kept[n \in 0..Len(s)] == IF n = 0 THEN <<>>
                               ELSE IF s[n] = who THEN kept[n - 1] ELSE Append(kept[n - 1], s[n])
  IN  kept[Len(s)]

Without(d, who) == WithMembers(d, Deleted(drafts[d].members, who))

LeaveDraft(d, me) ==
  /\ drafts[d].status = "open" /\ me # drafts[d].organizer
  /\ ChangeDraft(d, Without(d, me))
  /\ agreed' = [agreed EXCEPT ![d] = @ \ {me}]
  /\ UNCHANGED <<look, pools, past>>

RemoveFromDraft(d, me, who) ==
  /\ me = drafts[d].organizer /\ drafts[d].status = "open"
  /\ who # drafts[d].organizer
  /\ ChangeDraft(d, Without(d, who))
  /\ agreed' = [agreed EXCEPT ![d] = @ \ {who}]
  /\ UNCHANGED <<look, pools, past>>

(* Equal once both are sorted. *)
SameMembers(a, b) ==
  \E place \in Bijection(DOMAIN a, DOMAIN b) : \A i \in DOMAIN a : a[i] = b[place[i]]

OrderDraft(d, me, ms) ==
  /\ me = drafts[d].organizer /\ drafts[d].status = "open"
  /\ SameMembers(ms, drafts[d].members)
  /\ ChangeDraft(d, WithMembers(d, ms))
  /\ UNCHANGED <<look, pools, agreed, past>>

DeleteDraft(d, me) ==
  /\ me = drafts[d].organizer /\ drafts[d].status = "open"
  /\ ChangeDraft(d, [drafts[d] EXCEPT !.status = "cancelled"])
  /\ UNCHANGED <<look, pools, agreed, past>>

(* startedDraft up to the lock: the node's answer about the pool. *)
LookAtPool(d, me, p) ==
  /\ look[me] = NoLook /\ pools[p] # NoPool
  /\ look' = [look EXCEPT ![me] = [draft |-> d, pool |-> p, view |-> pools[p]]]
  /\ UNCHANGED <<drafts, pools, agreed, past>>

(* Mutant of Matches: the members are compared as a set. *)
MatchesInAnyOrder(v, draft) == v.options = draft.options /\ ToSet(v.members) = ToSet(draft.members)

(* The pool is the one the draft describes. *)
Matches(v, draft) == v.options = draft.options /\ v.members = draft.members

StartedDraft(me) ==
  LET d == look[me].draft
      v == look[me].view
  IN  /\ look[me] # NoLook
      /\ IF /\ drafts[d].status = "open"
            /\ me = drafts[d].organizer /\ v.creator = me
            /\ Matches(v, drafts[d])
         THEN ChangeDraft(d, [drafts[d] EXCEPT !.status = "started", !.pool = look[me].pool])
         ELSE UNCHANGED drafts
      /\ look' = [look EXCEPT ![me] = NoLook]
      /\ UNCHANGED <<pools, agreed, past>>

-----------------------------------------------------------------------------
(* The chain.  Anyone may create a pool with themselves as a member; a      *)
(* recovered wallet takes over its seats, see MoveRoles in Recovery.        *)

Put(p, v) ==
  /\ pools' = [pools EXCEPT ![p] = v]
  /\ past' = [past EXCEPT ![p] = @ \cup {v}]
  /\ UNCHANGED <<drafts, look, agreed>>

Rosters == {ms \in SeqOf(Wallets, Cardinality(Wallets)) : Len(ms) >= 2 /\ IsInjective(ms)}

CreatePool(p, me, o, ms) ==
  /\ pools[p] = NoPool /\ Contains(ms, me)
  /\ Put(p, [creator |-> me, options |-> o, members |-> ms])

Reseat(p, old, new) ==
  /\ Cardinality(past[p]) < MaxPast
  /\ Contains(pools[p].members, old) /\ ~Contains(pools[p].members, new)
  /\ Put(p, [pools[p] EXCEPT !.members = [i \in DOMAIN @ |-> IF @[i] = old THEN new ELSE @[i]],
                             !.creator = IF @ = old THEN new ELSE @])

InvitesNext ==
  \/ \E me \in Wallets :
       \/ \E d \in Drafts :
            \/ \E o \in Options, n \in Slots : CreateDraft(d, me, o, n)
            \/ JoinDraft(d, me) \/ LeaveDraft(d, me) \/ DeleteDraft(d, me)
            \/ \E who \in Wallets : RemoveFromDraft(d, me, who)
            \/ \E ms \in SeqOf(Wallets, Cardinality(Wallets)) : OrderDraft(d, me, ms)
            \/ \E p \in Pools : LookAtPool(d, me, p)
       \/ StartedDraft(me)
  \/ \E p \in Pools :
       \/ \E me \in Wallets, o \in Options, ms \in Rosters : CreatePool(p, me, o, ms)
       \/ \E old, new \in Wallets : Reseat(p, old, new)

-----------------------------------------------------------------------------
(* A draft lists the organiser and the wallets that agreed to it, each once *)
(* and no more than it has slots, through joins, removals and new orders in *)
(* any interleaving; and a draft shown as started names a pool that the     *)
(* organiser created on the chain with exactly these members, in this       *)
(* order, and these options.  (The pool may have moved on since it was      *)
(* read: a recovery reseats a member.)                                      *)
CircleHasJoinedMembers ==
  \A d \in Drafts :
    LET x == drafts[d]
    IN  x.status # "none" =>
          /\ IsInjective(x.members) /\ Len(x.members) <= x.slots
          /\ ToSet(x.members) = {x.organizer} \cup agreed[d]
          /\ x.status = "started" =>
               [creator |-> x.organizer, options |-> x.options, members |-> x.members] \in past[x.pool]
=============================================================================

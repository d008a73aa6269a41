------------------------------- MODULE RateLimit -------------------------------
(***************************************************************************)
(* Rate limiting of socket bufferevents (event2/bufferevent.h 833-1128,   *)
(* spec.md 4.8): a token bucket per bufferevent (bufferevent_set_rate_limit*)
(* with an ev_token_bucket_cfg) and the shared bucket of one rate-limit    *)
(* group.  Each tick refills every bucket by its rate, up to its burst.   *)
(* A read or write moves at most the smaller of max_single_read/write, the *)
(* bufferevent's own bucket and its share of the group's bucket, and takes *)
(* what it moved from both buckets.  A direction is suspended for          *)
(* bandwidth (BEV_SUSPEND_BW) while its own bucket is empty, and for group *)
(* bandwidth (BEV_SUSPEND_BW_GROUP) while the group's bucket is; the two   *)
(* reasons are kept apart.  The application may change the limits, the    *)
(* membership and the buckets at any time.  The clock is not kept: only   *)
(* the buckets a tick refills are, so the model is finite without a bound *)
(* on the ticks, and a member's progress can be checked over any number of *)
(* them.                                                                   *)
(***************************************************************************)
EXTENDS Integers, FiniteSets

CONSTANTS
  Streams,         \* the bufferevents
  Dirs,            \* the directions limited: a subset of {"read", "write"}
  Rate, Burst,     \* the bufferevents' cfg: tokens per tick, bucket size
  GRate, GBurst,   \* the group's cfg
  MinShare,        \* bufferevent_rate_limit_group_set_min_share()
  MaxSingle,       \* the default max_single_read / max_single_write
  Singles,         \* the sizes the application may set them to (0: default)
  Want,            \* bytes each bufferevent has to move in each direction
  MaxDecr          \* bound on the calls of the decrement functions

ASSUME /\ {Rate, Burst, GRate, GBurst, MinShare, MaxSingle} \subseteq Nat \ {0}
       /\ {Want, MaxDecr} \subseteq Nat /\ Singles \subseteq Nat

VARIABLES
  lim,      \* lim[s]: s has a per-bufferevent cfg
  tok,      \* tok[s][d]: s's bucket (bufferevent_get_read/write_limit)
  member,   \* member[s]: s is in the group
  gstate,   \* the group: "live" or "freed"
  gtok,     \* gtok[d]: the group's bucket
  susp,     \* susp[s][d]: the reasons d of s is suspended, within {"bw", "bwgroup"}
  want,     \* want[s][d]: bytes s still has to move
  decrs,    \* calls of the decrement functions so far
  single,   \* single[s][d]: the size last set by bufferevent_set_max_single_*
  allowed   \* history: allowed[d], a reference token bucket for the group

vars == <<lim, tok, member, gstate, gtok, susp, want, decrs, single, allowed>>

MinOf(a, b) == IF a <= b THEN a ELSE b
MaxOf(a, b) == IF a >= b THEN a ELSE b

Members == {s \in Streams : member[s]}

(* A group's bucket after one tick, and a bufferevent's: the rate is      *)
(* added, up to the burst (spec 4.8).  The mutant forgets the ceiling.     *)
RefillUnclamped(t, rate, burst) == t + rate

Refill(t, rate, burst) == MinOf(t + rate, burst)

(* bufferevent_get_max_to_read/write(), bufferevent.h 1034-1037 with      *)
(* 985-1013 and 1015-1032: the smaller of max_single, the bufferevent's own*)
(* bucket (unlimited without a cfg) and its share of the group's bucket:  *)
(* the bucket divided among the members, at least min_share, nothing while *)
(* the group is suspended.  The mutants divide the bucket without the     *)
(* min_share floor, and leave the group's bucket out.                     *)
ShareWithoutMinShare(d) == IF gtok[d] <= 0 THEN 0 ELSE gtok[d] \div Cardinality(Members)

Share(d) == IF gtok[d] <= 0 THEN 0 ELSE MaxOf(gtok[d] \div Cardinality(Members), MinShare)

(* bufferevent_set_max_single_read/write(bev, size), bufferevent.h       *)
(* 985-1013: 0 stands for the default.                                     *)

MaxSingleOf(s, d) == IF single[s][d] = 0 THEN MaxSingle ELSE single[s][d]

MaxToIgnoringGroup(s, d) ==
  MaxOf(0, MinOf(MaxSingleOf(s, d), IF lim[s] THEN tok[s][d] ELSE MaxSingleOf(s, d)))

MaxTo(s, d) ==
  MaxOf(0, MinOf(MinOf(MaxSingleOf(s, d), IF lim[s] THEN tok[s][d] ELSE MaxSingleOf(s, d)),
                 IF member[s] THEN Share(d) ELSE MaxSingleOf(s, d)))

\* The reason r when cond holds, else nothing.
When(r, cond) == {x \in {r} : cond}

-----------------------------------------------------------------------------
(* ev_token_bucket_cfg_new() and bufferevent_rate_limit_group_new() at     *)
(* set-up: the group exists with a full bucket; no bufferevent is limited. *)
Init ==
  /\ lim = [s \in Streams |-> FALSE]
  /\ tok = [s \in Streams |-> [d \in Dirs |-> 0]]
  /\ member = [s \in Streams |-> FALSE]
  /\ gstate = "live"
  /\ gtok = [d \in Dirs |-> GBurst]
  /\ susp = [s \in Streams |-> [d \in Dirs |-> {}]]
  /\ want = [s \in Streams |-> [d \in Dirs |-> Want]]
  /\ decrs = 0
  /\ single = [s \in Streams |-> [d \in Dirs |-> 0]]
  /\ allowed = [d \in Dirs |-> GBurst]

(* The socket bufferevent reads or writes up to MaxTo(s, d) bytes: both   *)
(* buckets lose what moved (bufferevent.h 1015-1037: a bucket goes        *)
(* negative only when made to move more than it held).  A bucket left at  *)
(* or below zero suspends s, or, the group's, every member, until refill.  *)
Transfer(s, d) ==
  /\ susp[s][d] = {} /\ want[s][d] > 0
  /\ \E k \in 1..MinOf(want[s][d], MaxTo(s, d)) :
       LET own == tok[s][d] - k
           grp == gtok[d] - k
       IN /\ want' = [want EXCEPT ![s][d] = @ - k]
          /\ tok' = IF lim[s] THEN [tok EXCEPT ![s][d] = own] ELSE tok
          /\ IF member[s]
             THEN /\ gtok' = [gtok EXCEPT ![d] = grp]
                  /\ allowed' = [allowed EXCEPT ![d] = @ - k]
             ELSE UNCHANGED <<gtok, allowed>>
          /\ susp' = [x \in Streams |-> [e \in Dirs |->
                IF e # d THEN susp[x][e]
                ELSE susp[x][e] \cup When("bw", x = s /\ lim[s] /\ own <= 0)
                                \cup When("bwgroup", member[s] /\ member[x] /\ grp <= 0)]]
  /\ UNCHANGED <<lim, member, gstate, decrs, single>>

(* Once a bufferevent has moved its bytes the application may hand it     *)
(* another Want (bufferevent_write, bufferevent.h 412-430): a member may   *)
(* compete for the group's bucket for ever.                                *)
Produce(s, d) ==
  /\ want[s][d] = 0
  /\ want' = [want EXCEPT ![s][d] = Want]
  /\ UNCHANGED <<lim, tok, member, gstate, gtok, susp, decrs, single, allowed>>

(* At each tick every bucket is refilled; a bufferevent whose bucket is   *)
(* positive again resumes, and so does every member once the group's is.  *)
Tick ==
  /\ LET t2 == [s \in Streams |-> [d \in Dirs |->
                  IF lim[s] THEN Refill(tok[s][d], Rate, Burst) ELSE tok[s][d]]]
         g2 == [d \in Dirs |-> Refill(gtok[d], GRate, GBurst)]
     IN /\ tok' = t2
        /\ gtok' = g2
        /\ susp' = [s \in Streams |-> [d \in Dirs |->
              susp[s][d] \ (When("bw", lim[s] /\ t2[s][d] > 0) \cup
                            When("bwgroup", member[s] /\ g2[d] > 0))]]
  /\ allowed' = [d \in Dirs |-> MinOf(allowed[d] + GRate, GBurst)]
  /\ UNCHANGED <<lim, member, gstate, want, decrs, single>>

(* bufferevent_set_rate_limit(bev, cfg), bufferevent.h 884-899: s gets a  *)
(* bucket of its own, full; with cfg NULL it loses it and its bandwidth   *)
(* suspension.                                                             *)
SetRateLimit(s) ==
  /\ ~lim[s]
  /\ lim' = [lim EXCEPT ![s] = TRUE]
  /\ tok' = [tok EXCEPT ![s] = [d \in Dirs |-> Burst]]
  /\ UNCHANGED <<member, gstate, gtok, susp, want, decrs, single, allowed>>

ClearRateLimit(s) ==
  /\ lim[s]
  /\ lim' = [lim EXCEPT ![s] = FALSE]
  /\ tok' = [tok EXCEPT ![s] = [d \in Dirs |-> 0]]
  /\ susp' = [susp EXCEPT ![s] = [d \in Dirs |-> @[d] \ {"bw"}]]
  /\ UNCHANGED <<member, gstate, gtok, want, decrs, single, allowed>>

(* bufferevent_add_to_rate_limit_group(bev, g), bufferevent.h 965-979: a  *)
(* bufferevent joining a group whose bucket is empty is suspended with    *)
(* the others.  bufferevent_remove_from_rate_limit_group(bev), 981-983:    *)
(* leaving it lifts that suspension; the mutant forgets to.               *)
AddToGroup(s) ==
  /\ gstate = "live" /\ ~member[s]
  /\ member' = [member EXCEPT ![s] = TRUE]
  /\ susp' = [susp EXCEPT ![s] = [d \in Dirs |-> @[d] \cup When("bwgroup", gtok[d] <= 0)]]
  /\ UNCHANGED <<lim, tok, gstate, gtok, want, decrs, single, allowed>>

RemoveFromGroupKeepSusp(s) ==
  /\ member[s]
  /\ member' = [member EXCEPT ![s] = FALSE]
  /\ UNCHANGED <<lim, tok, gstate, gtok, susp, want, decrs, single, allowed>>

RemoveFromGroup(s) ==
  /\ member[s]
  /\ member' = [member EXCEPT ![s] = FALSE]
  /\ susp' = [susp EXCEPT ![s] = [d \in Dirs |-> @[d] \ {"bwgroup"}]]
  /\ UNCHANGED <<lim, tok, gstate, gtok, want, decrs, single, allowed>>

(* bufferevent_set_max_single_read/write(bev, size): later reads or      *)
(* writes of s move at most size bytes at a time.                          *)
SetMaxSingle(s, d, n) ==
  /\ single' = [single EXCEPT ![s][d] = n]
  /\ UNCHANGED <<lim, tok, member, gstate, gtok, susp, want, decrs, allowed>>

(* bufferevent_rate_limit_group_free(), bufferevent.h 958-963: the group  *)
(* must have no members.                                                   *)
GroupFree ==
  /\ gstate = "live" /\ Members = {}
  /\ gstate' = "freed"
  /\ UNCHANGED <<lim, tok, member, gtok, susp, want, decrs, single, allowed>>

(* bufferevent_decrement_read/write_limit(bev, decr), bufferevent.h       *)
(* 1060-1081: decr may be negative, a manual refill; crossing zero        *)
(* suspends or resumes s.  Only a bufferevent with a cfg has a bucket.    *)
Decrement(s, d, x) ==
  /\ lim[s] /\ decrs < MaxDecr
  /\ decrs' = decrs + 1
  /\ tok' = [tok EXCEPT ![s][d] = @ - x]
  /\ susp' = [susp EXCEPT ![s][d] =
                IF tok[s][d] > 0 /\ tok'[s][d] <= 0 THEN @ \cup {"bw"}
                ELSE IF tok[s][d] <= 0 /\ tok'[s][d] > 0 THEN @ \ {"bw"} ELSE @]
  /\ UNCHANGED <<lim, member, gstate, gtok, want, allowed, single>>

(* bufferevent_rate_limit_group_decrement_read/write(g, decr),            *)
(* bufferevent.h 1083-1103: the same for the group's bucket and all of    *)
(* its members.                                                            *)
GroupDecrement(d, x) ==
  /\ gstate = "live" /\ decrs < MaxDecr
  /\ decrs' = decrs + 1
  /\ gtok' = [gtok EXCEPT ![d] = @ - x]
  /\ allowed' = [allowed EXCEPT ![d] = @ + MaxOf(0, -x)]
  /\ susp' = [s \in Streams |-> [e \in Dirs |->
                IF e # d \/ ~member[s] THEN susp[s][e]
                ELSE IF gtok[d] > 0 /\ gtok'[d] <= 0 THEN susp[s][e] \cup {"bwgroup"}
                ELSE IF gtok[d] <= 0 /\ gtok'[d] > 0 THEN susp[s][e] \ {"bwgroup"}
                ELSE susp[s][e]]]
  /\ UNCHANGED <<lim, tok, member, gstate, want, single>>

Next ==
  \/ \E s \in Streams, d \in Dirs : Transfer(s, d) \/ Produce(s, d)
  \/ Tick
  \/ \E s \in Streams : \/ SetRateLimit(s) \/ ClearRateLimit(s)
                        \/ AddToGroup(s) \/ RemoveFromGroup(s)
  \/ GroupFree
  \/ \E s \in Streams, d \in Dirs, n \in Singles : SetMaxSingle(s, d, n)
  \/ \E s \in Streams, d \in Dirs, x \in {-1, 1} : Decrement(s, d, x)
  \/ \E d \in Dirs, x \in {-1, 1} : GroupDecrement(d, x)

Spec == Init /\ [][Next]_vars

(* The loop serves every ready bufferevent, and when the group's bucket is *)
(* refilled libevent unsuspends its members starting at a random one      *)
(* (bufferevent.h 940-945: "chosen at random"), so a member that can move *)
(* bytes again and again is not passed over for ever: strong fairness.     *)
(* The refill timer keeps firing.  The application's calls are not assumed.*)
FairSpec == Spec /\ WF_vars(Tick)
                 /\ \A s \in Streams, d \in Dirs : SF_vars(Transfer(s, d))

-----------------------------------------------------------------------------
TypeOK ==
  /\ gstate \in {"live", "freed"}
  /\ lim \in [Streams -> BOOLEAN] /\ member \in [Streams -> BOOLEAN]
  /\ tok \in [Streams -> [Dirs -> -(MaxSingle + MaxDecr)..(Burst + MaxDecr)]]
  /\ gtok \in [Dirs -> -(MaxSingle + MaxDecr)..(GBurst + MaxDecr)]
  /\ susp \in [Streams -> [Dirs -> SUBSET {"bw", "bwgroup"}]]
  /\ want \in [Streams -> [Dirs -> 0..Want]]
  /\ decrs \in 0..MaxDecr
  /\ single \in [Streams -> [Dirs -> Singles \cup {0}]]

(* A direction is suspended for bandwidth exactly while the bucket that   *)
(* limits it is empty: its own (bufferevent.h 1060-1081), and the group's *)
(* for every member (1083-1103), whatever order of transfers by other      *)
(* members, ticks, joins, leaves, cfg changes and manual decrements led    *)
(* there.  A stale reason stops a bufferevent for good or lets it overdraw.*)
BwSuspendedIffExhausted ==
  \A s \in Streams, d \in Dirs :
    /\ ("bw" \in susp[s][d] <=> lim[s] /\ tok[s][d] <= 0)
    /\ ("bwgroup" \in susp[s][d] <=> member[s] /\ gtok[d] <= 0)

(* min_share lets a member overdraw the group, and only by that much: a   *)
(* member of a group whose bucket holds fewer tokens than min_share still *)
(* gets min_share (bufferevent.h 935-956), so the bucket goes negative    *)
(* (1045-1047 admit it), and every member is then suspended until the     *)
(* refills bring it back.  Against a token bucket of the group's rate and *)
(* burst (plus what the application gave back by hand) the members have  *)
(* never moved more than min_share - 1 bytes too many, whatever the order *)
(* of transfers, ticks, joins, leaves and manual decrements.               *)
GroupOverdrawWithinMinShare ==
  \A d \in Dirs : allowed[d] >= 1 - MinShare

(* Every bufferevent eventually moves all its bytes, a member of a group  *)
(* whose bucket is too small to give every member a byte per tick         *)
(* included: min_share (bufferevent.h 935-956) lets one member at a time  *)
(* take a whole quantum instead of leaving each with a share of 0.        *)
EveryStreamMovesItsBytes ==
  \A s \in Streams, d \in Dirs : want[s][d] > 0 ~> want[s][d] = 0

=============================================================================

------------------------------- MODULE Policy -------------------------------
(***************************************************************************)
(* The policy server (src/policy/policy.go) as the Stratum sessions of     *)
(* src/proxy use it.  Every IP has a record of counters; sessions hold a   *)
(* pointer to it (Get) and go on after the map has let it go.  The timer   *)
(* goroutine resets the records and refreshes the lists.                   *)
(*                                                                         *)
(* Timestamps are kept as ages: LastBeat and BannedAt are the number of    *)
(* ticks since they were set, up to the age that matters, so BannedAt = 0  *)
(* of the code is an age of Timeout.  A call of the policy is much shorter *)
(* than a tick: no tick falls into a ban or a reset pass.                  *)
(***************************************************************************)
EXTENDS Integers, Sequences, FiniteSets

CONSTANTS
  IPs, Sessions,
  IP,               \* IP[x]: where session x comes from
  Limit, LimitJump, Grace,
  Timeout,          \* banning.timeout, in ticks
  Interval,         \* resetInterval, in ticks
  InvalidPercent, CheckThreshold, MalformedLimit,
  BanCap,           \* capacity of banChannel (64 in the code)
  MaxConn           \* bound of this model on ConnLimit, which stops at -1 below

ASSUME PolicyAssumption ==
  /\ IsFiniteSet(IPs) /\ IsFiniteSet(Sessions) /\ IP \in [Sessions -> IPs]
  /\ Limit \in Nat /\ LimitJump \in Nat /\ Grace \in Nat
  /\ Timeout \in Nat \ {0} /\ Interval \in Nat \ {0}
  /\ InvalidPercent \in Nat /\ CheckThreshold \in Nat \ {0}
  /\ MalformedLimit \in Nat \ {0} /\ BanCap \in Nat \ {0}
  /\ MaxConn \in Nat /\ Limit <= MaxConn

VARIABLES
  whitelisted,  \* the IPs of the whitelist in Redis
  whitelist,    \* the policy's copy
  heap,         \* the Stats records
  stats,        \* the map from IPs to records
  elapsed,      \* ticks since the start, up to Grace + 1
  pc, held,     \* a session's place, and the record it points to
  pass,         \* the reset pass: its place, the key at hand and those to come
  banChannel,
  since,        \* ticks since the last ban of an IP was made
  raced,        \* was it made while a reset pass ran?
  quiet,        \* ticks since an IP last called, while that ban is younger than
                \* Timeout; a full Interval of quiet is kept until the next ban
  over,         \* sessions in a policy call that a reset pass has met
  sinners,      \* IPs that have sent anything wrong
  failed        \* has a refresh of the whitelist failed?

timer == <<pass, over>>
lists == <<whitelisted, whitelist, failed>>
ghosts == <<since, raced, quiet>>
vars == <<lists, heap, stats, elapsed, pc, held, timer, banChannel, ghosts, sinners>>

-----------------------------------------------------------------------------
(* Records *)

NoRecord == 0
Records == 1 .. Cardinality(IPs) + Cardinality(Sessions)

Older(age, most) == IF age < most THEN age + 1 ELSE age

NewStats ==
  [valid |-> 0, invalid |-> 0, malformed |-> 0, conn |-> Limit,
   banned |-> FALSE, bannedAge |-> Timeout, beat |-> 0]

Banned(ip) == stats[ip] # NoRecord /\ heap[stats[ip]].banned

\* Records something points to; the others are garbage.
Live == ({stats[ip] : ip \in IPs} \cup {held[x] : x \in Sessions}) \ {NoRecord}

\* Nothing reads the counters of a record the map has let go.
Orphan(stat) == [NewStats EXCEPT !.banned = stat.banned, !.bannedAge = stat.bannedAge]

Keep(h) ==
  heap' = [r \in Live' |-> IF \E ip \in IPs : stats'[ip] = r THEN h[r] ELSE Orphan(h[r])]

Goto(x, label) == pc' = [pc EXCEPT ![x] = label]

Init ==
  /\ whitelisted \in SUBSET IPs /\ whitelist = whitelisted
  /\ failed = FALSE
  /\ heap = <<>> /\ stats = [ip \in IPs |-> NoRecord]
  /\ elapsed = 0
  /\ pc = [x \in Sessions |-> "closed"] /\ held = [x \in Sessions |-> NoRecord]
  /\ pass = [at |-> "idle"] /\ over = {}
  /\ banChannel = <<>>
  /\ since = [ip \in IPs |-> Timeout] /\ raced = [ip \in IPs |-> FALSE]
  /\ quiet = [ip \in IPs |-> Interval]
  /\ sinners = {}

-----------------------------------------------------------------------------
(* Calls of the sessions *)

\* Get: the record of an IP, made if there is none, with a new LastBeat.
Ref(ip) ==
  IF stats[ip] = NoRecord THEN CHOOSE r \in Records : r \notin Live ELSE stats[ip]

\* Mutant of Get: a record that is there keeps its LastBeat.
GetSilently(ip) == IF stats[ip] = NoRecord THEN NewStats ELSE heap[stats[ip]]

Get(ip) ==
  IF stats[ip] = NoRecord THEN NewStats ELSE [heap[stats[ip]] EXCEPT !.beat = 0]

\* A call by session x that gets its record and leaves stat in it.  The counters
\* commute with a reset pass, which only looks at the times and at Banned, so
\* getting and counting are one step; the ban that may follow (force) is not,
\* and goes on with the pointer.
Call(x, at, label, stat) ==
  LET ip == IP[x]
  IN /\ pc[x] = at /\ pass.at = "idle" /\ Goto(x, label)
     /\ stats' = [stats EXCEPT ![ip] = Ref(ip)]
     /\ held' = [held EXCEPT ![x] = IF label = "force" THEN Ref(ip) ELSE NoRecord]
     /\ heap' = [r \in Live' |-> IF r = Ref(ip) THEN stat ELSE heap[r]]
     /\ quiet' = [quiet EXCEPT ![ip] = IF @ < Interval THEN 0 ELSE @]
     /\ UNCHANGED <<lists, elapsed, timer, banChannel, since, raced>>

\* The bounds on ConnLimit.
Bounded(n) == n \in -1 .. MaxConn

\* A connection is accepted: IsBanned.
Accept(x) ==
  /\ Call(x, "closed", IF Get(IP[x]).banned THEN "closed" ELSE "accepted", Get(IP[x]))
  /\ UNCHANGED sinners

\* ApplyLimitPolicy, which starts after the time of grace.
ApplyLimitPolicy(x) ==
  LET n == Get(IP[x]).conn - 1
  IN /\ UNCHANGED sinners
     /\ \/ /\ elapsed > Grace /\ Bounded(n)
           /\ Call(x, "accepted", IF n > 0 THEN "open" ELSE "closed",
                   [Get(IP[x]) EXCEPT !.conn = n])
        \/ /\ pc[x] = "accepted" /\ elapsed <= Grace /\ Goto(x, "open")
           /\ UNCHANGED <<lists, heap, stats, elapsed, held, timer, banChannel, ghosts>>

Disconnect(x) ==
  /\ pc[x] = "open" /\ Goto(x, "closed")
  /\ UNCHANGED <<lists, heap, stats, elapsed, held, timer, banChannel, ghosts, sinners>>

\* Mutant of Ratio: swapped.
RatioSwapped(valid, invalid) == valid * 100 >= InvalidPercent * invalid

\* The quotient of a float32 division by zero is infinite.
Ratio(valid, invalid) == invalid * 100 >= InvalidPercent * valid

\* Mutant of Counted: the shares stay after the check.
CountedOn(stat, checked) == stat

\* The shares start again after a check.
Counted(stat, checked) ==
  IF checked THEN [stat EXCEPT !.valid = 0, !.invalid = 0] ELSE stat

\* ApplySharePolicy, whose counting the record's own lock protects.
ApplySharePolicy(x) ==
  \E ok \in BOOLEAN :
    LET old == Get(IP[x])
        stat == IF ok THEN [old EXCEPT !.valid = @ + 1, !.conn = @ + LimitJump]
                ELSE [old EXCEPT !.invalid = @ + 1]
        checked == stat.valid + stat.invalid >= CheckThreshold
        bad == checked /\ Ratio(stat.valid, stat.invalid)
    IN /\ Bounded(stat.conn)
       /\ Call(x, "open", IF bad THEN "force" ELSE "open", Counted(stat, checked))
       /\ sinners' = IF ok THEN sinners ELSE sinners \cup {IP[x]}

\* ApplyMalformedPolicy.  The session ends whatever it says.  Only whether one
\* more line reaches the limit matters of the counter, which nothing resets.
ApplyMalformedPolicy(x) ==
  LET n == Get(IP[x]).malformed + 1
      stat == [Get(IP[x]) EXCEPT
                 !.malformed = IF n < MalformedLimit THEN n ELSE MalformedLimit - 1]
  IN /\ Call(x, "open", IF n >= MalformedLimit THEN "force" ELSE "closed", stat)
     /\ sinners' = sinners \cup {IP[x]}

\* A login of the blacklist (ApplyLoginPolicy; any login may be on it), or a
\* line longer than the buffer (BanClient): the handler ends.
LoginOrFlood(x) ==
  /\ Call(x, "open", "force", Get(IP[x])) /\ sinners' = sinners \cup {IP[x]}

\* Session x is done with its record.
Release(x, label, h) ==
  /\ Goto(x, label) /\ held' = [held EXCEPT ![x] = NoRecord]
  /\ over' = over \ {x} /\ UNCHANGED stats /\ Keep(h)

\* forceBan: the check of the whitelist, and BannedAt.
ForceBan(x) ==
  /\ pc[x] = "force"
  /\ IF IP[x] \in whitelist THEN Release(x, "closed", heap)
     ELSE /\ Goto(x, "cas") /\ heap' = [heap EXCEPT ![held[x]].bannedAge = 0]
          /\ UNCHANGED <<stats, held, over>>
  /\ UNCHANGED <<lists, elapsed, pass, banChannel, ghosts, sinners>>

\* forceBan: CompareAndSwap of Banned, whose winner tells the workers.
SwapBanned(x) ==
  /\ pc[x] = "cas"
  /\ Release(x, IF heap[held[x]].banned THEN "closed" ELSE "send",
             [heap EXCEPT ![held[x]].banned = TRUE])
  /\ since' = [since EXCEPT ![IP[x]] = 0]
  /\ raced' = [raced EXCEPT ![IP[x]] = x \in over]
  /\ quiet' = [quiet EXCEPT ![IP[x]] = 0]
  /\ UNCHANGED <<lists, elapsed, pass, banChannel, sinners>>

SendBan(x) ==
  /\ pc[x] = "send" /\ Len(banChannel) < BanCap /\ Goto(x, "closed")
  /\ banChannel' = Append(banChannel, IP[x])
  /\ UNCHANGED <<lists, heap, stats, elapsed, held, timer, ghosts, sinners>>

\* A policy worker takes an IP and runs ipset, whose error is only logged.
DoBan ==
  /\ banChannel # <<>> /\ banChannel' = Tail(banChannel)
  /\ UNCHANGED <<lists, heap, stats, elapsed, pc, held, timer, ghosts, sinners>>

-----------------------------------------------------------------------------
(* The timer goroutine *)

Banning(x) == pc[x] \in {"force", "cas"}

Known == {ip \in IPs : stats[ip] # NoRecord}

\* resetStats takes statsMu; Get waits until the pass is over.
ResetStats ==
  /\ pass.at = "idle" /\ Known # {}
  /\ \E ip \in Known : pass' = [at |-> "load", key |-> ip, todo |-> Known \ {ip}]
  /\ over' = {x \in Sessions : Banning(x)}
  /\ UNCHANGED <<lists, heap, stats, elapsed, pc, held, banChannel, ghosts, sinners>>

NextKey ==
  IF pass.todo = {} THEN pass' = [at |-> "idle"]
  ELSE \E ip \in pass.todo :
         pass' = [at |-> "load", key |-> ip, todo |-> pass.todo \ {ip}]

Idle(ip) == heap[stats[ip]].beat >= Interval

Expired(ip) == heap[stats[ip]].bannedAge >= Timeout

DropIdle(ip) ==
  /\ stats' = IF Idle(ip) THEN [stats EXCEPT ![ip] = NoRecord] ELSE stats
  /\ UNCHANGED held /\ Keep(heap)

\* LastBeat and BannedAt of one record are loaded; an expired ban comes first.
LoadTimes ==
  /\ pass.at = "load"
  /\ IF Expired(pass.key)
     THEN pass' = [pass EXCEPT !.at = "store"] /\ UNCHANGED <<heap, stats, held>>
     ELSE DropIdle(pass.key) /\ NextKey
  /\ UNCHANGED <<lists, elapsed, pc, over, banChannel, ghosts, sinners>>

\* BannedAt = 0.
ClearBannedAt ==
  /\ pass.at = "store" /\ pass' = [pass EXCEPT !.at = "cas"]
  /\ heap' = [heap EXCEPT ![stats[pass.key]].bannedAge = Timeout]
  /\ UNCHANGED <<lists, stats, elapsed, pc, held, over, banChannel, ghosts, sinners>>

\* Mutant of DropBan: only an idle record goes.
DropWhenIdle ==
  /\ pass.at = "cas" /\ NextKey /\ DropIdle(pass.key)
  /\ UNCHANGED <<lists, elapsed, pc, over, banChannel, ghosts, sinners>>

\* The ban is dropped, and the record with it; an idle record goes, too.
DropBan ==
  LET r == stats[pass.key]
      h == [heap EXCEPT ![r].banned = FALSE]
      gone == heap[r].banned \/ Idle(pass.key)
  IN /\ pass.at = "cas" /\ NextKey
     /\ stats' = IF gone THEN [stats EXCEPT ![pass.key] = NoRecord] ELSE stats
     /\ UNCHANGED held /\ Keep(h)
     /\ UNCHANGED <<lists, elapsed, pc, over, banChannel, ghosts, sinners>>

\* refreshState, under the write lock: a list that cannot be read is empty.
\* A pass and a refresh exclude each other: one goroutine does both.
RefreshState ==
  /\ pass.at = "idle"
  /\ \/ whitelist' = whitelisted /\ UNCHANGED failed
     \/ whitelist' = {} /\ failed' = (whitelisted # {})
  /\ UNCHANGED <<whitelisted, heap, stats, elapsed, pc, held, timer, banChannel, ghosts, sinners>>

Tick ==
  /\ pass.at = "idle" /\ \A x \in Sessions : ~Banning(x)
  /\ heap' = [r \in DOMAIN heap |->
       [heap[r] EXCEPT !.beat = Older(@, Interval), !.bannedAge = Older(@, Timeout)]]
  /\ since' = [ip \in IPs |-> Older(since[ip], Timeout)]
  /\ raced' = [ip \in IPs |-> raced[ip] /\ since'[ip] < Timeout]
  /\ quiet' = [ip \in IPs |->
       IF since'[ip] < Timeout THEN Older(quiet[ip], Interval) ELSE Interval]
  /\ elapsed' = Older(elapsed, Grace + 1)
  /\ UNCHANGED <<lists, stats, pc, held, timer, banChannel, sinners>>

-----------------------------------------------------------------------------

\* What a client does.
Client(x) ==
  \/ Accept(x) \/ Disconnect(x) \/ ApplySharePolicy(x) \/ ApplyMalformedPolicy(x)
  \/ LoginOrFlood(x)

\* What the session's goroutine does by itself.
Handler(x) == ApplyLimitPolicy(x) \/ ForceBan(x) \/ SwapBanned(x) \/ SendBan(x)

PassStep == LoadTimes \/ ClearBannedAt \/ DropBan

Next ==
  \/ \E x \in Sessions : Client(x) \/ Handler(x)
  \/ DoBan \/ ResetStats \/ PassStep \/ RefreshState \/ Tick

Spec == Init /\ [][Next]_vars

\* Goroutines go on; time passes and the timer's select takes the reset again
\* and again, although both are held up again and again.
FairSpec ==
  /\ Spec
  /\ \A x \in Sessions : WF_vars(Handler(x))
  /\ WF_vars(DoBan) /\ WF_vars(PassStep)
  /\ SF_vars(ResetStats) /\ SF_vars(Tick)

-----------------------------------------------------------------------------
(* Properties *)

Places == {"closed", "accepted", "open", "force", "cas", "send"}

Stats ==
  {s \in [valid : 0 .. CheckThreshold, invalid : 0 .. CheckThreshold,
          malformed : 0 .. MalformedLimit - 1, conn : -1 .. MaxConn,
          banned : BOOLEAN, bannedAge : 0 .. Timeout, beat : 0 .. Interval] :
     s.valid + s.invalid < CheckThreshold}

\* The types: in particular no record keeps CheckThreshold shares unjudged,
\* and sessions and the map point to records that exist.
TypeOK ==
  /\ whitelisted \subseteq IPs /\ whitelist \in {{}, whitelisted}
  /\ failed \in BOOLEAN /\ sinners \subseteq IPs
  /\ stats \in [IPs -> Records \cup {NoRecord}]
  /\ held \in [Sessions -> Records \cup {NoRecord}]
  /\ DOMAIN heap = Live /\ \A r \in Live : heap[r] \in Stats
  /\ pc \in [Sessions -> Places] /\ elapsed \in 0 .. Grace + 1
  /\ \A x \in Sessions : Banning(x) <=> held[x] # NoRecord
  /\ pass \in [at : {"idle"}] \cup
               [at : {"load", "store", "cas"}, key : Known, todo : SUBSET Known]
  /\ pass.at # "idle" => pass.key \notin pass.todo
  /\ over \subseteq {x \in Sessions : Banning(x)}
  /\ banChannel \in Seq(IPs) /\ Len(banChannel) <= BanCap
  /\ since \in [IPs -> 0 .. Timeout] /\ raced \in [IPs -> BOOLEAN]
  /\ quiet \in [IPs -> 0 .. Interval]

\* A ban stays until its timeout, whatever other sessions of the IP, the reset
\* passes and the refresh do, with two exceptions the code makes: the call that
\* made it met a reset pass, or the IP has been quiet for a whole reset interval
\* since (policy.go:137-139 deletes its record, ban and all).
BanLasts ==
  \A ip \in IPs :
    since[ip] < Timeout /\ quiet[ip] < Interval /\ ~raced[ip] => Banned(ip)

\* No IP is banned that never sent anything wrong, although its sessions share
\* counters that others read and reset, and none of the whitelist is while the
\* list can be read.
JustBans ==
  \A ip \in IPs :
    Banned(ip) => ip \in sinners /\ (ip \in whitelisted => failed)

\* Every ban ends: the sessions that are open when it is made may each prolong
\* it, but none is let in.
BansEnd == \A ip \in IPs : Banned(ip) ~> ~Banned(ip)

\* README.md:227, "Remove ban after this amount of time": not before.
BanLastsAlways == \A ip \in IPs : since[ip] < Timeout => Banned(ip)

\* README.md:229, "Percent of invalid shares from all shares to ban miner".
PercentOfAll ==
  [][\A x \in Sessions, ok \in BOOLEAN :
       LET old == Get(IP[x])
           bad == old.invalid + (IF ok THEN 0 ELSE 1)
       IN ApplySharePolicy(x) /\ pc'[x] = "force" =>
            bad * 100 >= InvalidPercent * (old.valid + old.invalid + 1)]_vars
=============================================================================

---------------------------- MODULE PolicyProofs ------------------------------
(***************************************************************************)
(* Proofs about the policy server (module Policy): types, that a ban lasts *)
(* its timeout, and that only offenders are banned, for any number of IPs  *)
(* and sessions and any limits.                                            *)
(***************************************************************************)
EXTENDS Policy, FiniteSetTheorems, TLAPS

-----------------------------------------------------------------------------
(* Records *)

Passes ==
  [at : {"idle"}] \cup
    {p \in [at : {"load", "store", "cas"}, key : Known, todo : SUBSET Known] :
       p.key \notin p.todo}

\* The image of a finite set has at most as many elements.
LEMMA ImageBound ==
  ASSUME NEW S, IsFiniteSet(S), NEW f, NEW T, T = {f[x] : x \in S}
  PROVE  IsFiniteSet(T) /\ Cardinality(T) <= Cardinality(S)
<1> DEFINE g == [x \in S |-> f[x]]
<1>1. g \in Surjection(S, T)
  BY DEF Surjection
<1>2. QED
  BY <1>1, FS_Surjection

\* There are enough records: an IP without one finds one that nothing points to.
LEMMA FreeRecord ==
  ASSUME TypeOK, NEW ip \in IPs, stats[ip] = NoRecord
  PROVE  \E r \in Records : r \notin Live
<1> DEFINE A == {stats[i] : i \in IPs \ {ip}}
           B == {held[x] : x \in Sessions}
<1>1. IsFiniteSet(IPs) /\ IsFiniteSet(Sessions)
  BY PolicyAssumption
<1>2. /\ IsFiniteSet(IPs \ {ip})
      /\ Cardinality(IPs \ {ip}) = Cardinality(IPs) - 1
  BY <1>1, FS_RemoveElement
<1>3. IsFiniteSet(A) /\ Cardinality(A) <= Cardinality(IPs \ {ip})
  BY <1>2, ImageBound
<1>4. IsFiniteSet(B) /\ Cardinality(B) <= Cardinality(Sessions)
  BY <1>1, ImageBound
<1>5. /\ Cardinality(IPs) \in Nat /\ Cardinality(Sessions) \in Nat
      /\ Cardinality(A) \in Nat /\ Cardinality(B) \in Nat
      /\ IsFiniteSet(A \cap B)
  BY <1>1, <1>3, <1>4, FS_CardinalityType, FS_Subset
<1>6. Cardinality(A \cap B) \in Nat
  BY <1>5, FS_CardinalityType
<1>7. /\ IsFiniteSet(A \cup B)
      /\ Cardinality(A \cup B) = Cardinality(A) + Cardinality(B) - Cardinality(A \cap B)
  BY <1>3, <1>4, FS_Union
<1>8. Cardinality(A \cup B) < Cardinality(IPs) + Cardinality(Sessions)
  <2> HIDE DEF A, B
  <2>1. QED
    BY <1>2, <1>3, <1>4, <1>5, <1>6, <1>7
<1>9. Cardinality(Records) = Cardinality(IPs) + Cardinality(Sessions)
  <2> DEFINE n == Cardinality(IPs) + Cardinality(Sessions)
  <2>1. n \in Nat
    BY <1>5
  <2>2. Cardinality(1 .. n) = IF 1 > n THEN 0 ELSE n - 1 + 1
    <3> HIDE DEF n
    <3>1. QED
      BY <2>1, FS_Interval
  <2>3. QED
    BY <2>1, <2>2 DEF Records
<1>10. Live \subseteq A \cup B
  BY DEF Live
<1>11. SUFFICES ASSUME Records \subseteq Live PROVE FALSE
  OBVIOUS
<1>12. Records \in SUBSET (A \cup B)
  BY <1>10, <1>11
<1>13. Cardinality(Records) <= Cardinality(A \cup B)
  <2> HIDE DEF A, B
  <2>1. QED
    BY <1>7, <1>12, FS_Subset
<1>14. Cardinality(Records) \in Nat /\ Cardinality(A \cup B) \in Nat
  <2> HIDE DEF A, B
  <2>1. QED
    BY <1>5, <1>7, <1>9, FS_CardinalityType
<1>15. QED
  <2> HIDE DEF A, B
  <2>1. QED
    BY <1>5, <1>8, <1>9, <1>13, <1>14

\* The record Get returns is the IP's or a new one.
LEMMA RefIs ==
  ASSUME TypeOK, NEW ip \in IPs
  PROVE  /\ Ref(ip) \in Records /\ Ref(ip) # NoRecord
         /\ IF stats[ip] = NoRecord THEN Ref(ip) \notin Live ELSE Ref(ip) = stats[ip]
<1>1. NoRecord \notin Records
  BY DEF NoRecord, Records
<1>2. CASE stats[ip] = NoRecord
  BY <1>1, <1>2, FreeRecord DEF Ref
<1>3. CASE stats[ip] # NoRecord
  BY <1>1, <1>3 DEF Ref, TypeOK
<1>4. QED
  BY <1>2, <1>3

\* The records that a map entry or a session names are those the heap has.
LEMMA LiveRecords ==
  ASSUME TypeOK
  PROVE  /\ \A ip \in IPs : stats[ip] # NoRecord => stats[ip] \in Live
         /\ \A x \in Sessions : held[x] # NoRecord => held[x] \in Live
         /\ \A r \in Live : heap[r] \in Stats
         /\ \A r \in Live : \/ \E ip \in IPs : stats[ip] = r
                            \/ \E x \in Sessions : held[x] = r
BY DEF TypeOK, Live

\* What Get returns is a record of counters, touched now.
LEMMA GetType ==
  ASSUME TypeOK, NEW ip \in IPs
  PROVE  /\ Get(ip) \in Stats /\ Get(ip).beat = 0
         /\ stats[ip] = NoRecord => /\ Get(ip).banned = FALSE /\ Get(ip).bannedAge = Timeout
                                    /\ Get(ip).invalid = 0
         /\ stats[ip] # NoRecord => /\ Get(ip).banned = heap[stats[ip]].banned
                                    /\ Get(ip).bannedAge = heap[stats[ip]].bannedAge
                                    /\ Get(ip).invalid = heap[stats[ip]].invalid
<1>1. NewStats \in Stats /\ NewStats.beat = 0
  BY PolicyAssumption DEF NewStats, Stats
<1>2. CASE stats[ip] = NoRecord
  BY <1>1, <1>2 DEF Get, NewStats
<1>3. CASE stats[ip] # NoRecord
  <2>1. heap[stats[ip]] \in Stats
    BY <1>3, LiveRecords
  <2>2. QED
    BY <1>3, <2>1, PolicyAssumption DEF Get, Stats
<1>4. QED
  BY <1>2, <1>3

-----------------------------------------------------------------------------
(* What the steps do to the records *)

\* A call of session x leaves stat in the record of its IP.
LEMMA CallDoes ==
  ASSUME TypeOK, NEW x \in Sessions, NEW at \in {"closed", "accepted", "open"},
         NEW label \in {"closed", "accepted", "open", "force"}, NEW stat \in Stats,
         Call(x, at, label, stat)
  PROVE  LET ip == IP[x]
         IN /\ ip \in IPs /\ pass.at = "idle" /\ pc[x] = at /\ pc' = [pc EXCEPT ![x] = label]
            /\ stats' = [stats EXCEPT ![ip] = Ref(ip)]
            /\ held' = [held EXCEPT ![x] = IF label = "force" THEN Ref(ip) ELSE NoRecord]
            /\ DOMAIN heap' = Live' /\ stats'[ip] = Ref(ip)
            /\ heap'[Ref(ip)] = stat
            /\ \A r \in Live' \ {Ref(ip)} : r \in Live /\ heap'[r] = heap[r]
            /\ quiet' = [quiet EXCEPT ![ip] = IF @ < Interval THEN 0 ELSE @]
            /\ UNCHANGED <<lists, elapsed, timer, banChannel, since, raced>>
<1> DEFINE ip == IP[x]
<1>1. ip \in IPs
  BY PolicyAssumption
<1>2. /\ pass.at = "idle" /\ pc[x] = at /\ pc' = [pc EXCEPT ![x] = label]
      /\ stats' = [stats EXCEPT ![ip] = Ref(ip)]
      /\ held' = [held EXCEPT ![x] = IF label = "force" THEN Ref(ip) ELSE NoRecord]
      /\ heap' = [r \in Live' |-> IF r = Ref(ip) THEN stat ELSE heap[r]]
      /\ quiet' = [quiet EXCEPT ![ip] = IF @ < Interval THEN 0 ELSE @]
      /\ UNCHANGED <<lists, elapsed, timer, banChannel, since, raced>>
  BY DEF Call, Goto
<1>3. stats \in [IPs -> Records \cup {NoRecord}] /\ held \in [Sessions -> Records \cup {NoRecord}]
  BY DEF TypeOK
<1>4. Ref(ip) # NoRecord
  BY <1>1, RefIs
<1>5. stats'[ip] = Ref(ip) /\ Ref(ip) \in Live'
  BY <1>1, <1>2, <1>3, <1>4 DEF Live
<1>6. ASSUME NEW r \in Live', r # Ref(ip)
      PROVE  r \in Live
  BY <1>1, <1>2, <1>3, <1>6 DEF Live
<1>7. QED
  BY <1>1, <1>2, <1>5, <1>6

\* The map and the pointers let go of records, and of nothing else.
LEMMA KeepDoes ==
  ASSUME TypeOK, NEW h, Keep(h), \A r \in Live : h[r] \in Stats, Live' \subseteq Live
  PROVE  /\ DOMAIN heap' = Live' /\ \A r \in Live' : heap'[r] \in Stats
         /\ \A r \in Live' : heap'[r].banned = h[r].banned
                               /\ heap'[r].bannedAge = h[r].bannedAge
         /\ \A ip \in IPs : stats'[ip] # NoRecord => heap'[stats'[ip]] = h[stats'[ip]]
<1>1. heap' = [r \in Live' |-> IF \E ip \in IPs : stats'[ip] = r THEN h[r] ELSE Orphan(h[r])]
  BY DEF Keep
<1>2. ASSUME NEW s \in Stats
      PROVE  Orphan(s) \in Stats /\ Orphan(s).banned = s.banned
               /\ Orphan(s).bannedAge = s.bannedAge
  <2>1. /\ s.banned \in BOOLEAN /\ s.bannedAge \in 0 .. Timeout
        /\ NewStats \in Stats
    BY <1>2, PolicyAssumption DEF NewStats, Stats
  <2>2. QED
    BY <2>1 DEF Orphan, Stats
<1>3. ASSUME NEW r \in Live'
      PROVE  /\ heap'[r] \in Stats /\ heap'[r].banned = h[r].banned
             /\ heap'[r].bannedAge = h[r].bannedAge
  BY <1>1, <1>2, <1>3
<1>4. \A ip \in IPs : stats'[ip] # NoRecord => stats'[ip] \in Live'
  BY DEF Live
<1>5. QED
  BY <1>1, <1>3, <1>4

\* A step of a session that only moves it.
Moves(x) ==
  /\ pc[x] \in {"accepted", "open"} /\ (\E label \in {"open", "closed"} : Goto(x, label))
  /\ UNCHANGED <<lists, heap, stats, elapsed, held, timer, banChannel, ghosts, sinners>>

\* A call that gets the record of the session's IP and counts.
Counts(x) ==
  \E at \in {"closed", "accepted", "open"},
     label \in {"closed", "accepted", "open", "force"}, stat \in Stats :
    LET old == Get(IP[x])
    IN /\ Call(x, at, label, stat)
       /\ stat.banned = old.banned /\ stat.bannedAge = old.bannedAge /\ stat.beat = 0
       /\ sinners' \in {sinners, sinners \cup {IP[x]}}
       /\ stat.invalid > 0 => old.invalid > 0 \/ IP[x] \in sinners'
       /\ label = "force" => IP[x] \in sinners' \/ old.invalid > 0 \/ InvalidPercent = 0

\* Valid shares alone do not reach the ratio.
LEMMA RatioNeedsInvalid ==
  ASSUME NEW v \in Nat \ {0}, InvalidPercent # 0
  PROVE  ~ Ratio(v, 0)
<1>1. InvalidPercent \in Nat \ {0}
  BY PolicyAssumption
<1> DEFINE p == InvalidPercent * v
<1>2. p > 0 /\ p \in Int
  BY <1>1
<1>3. Ratio(v, 0) <=> 0 * 100 >= p
  BY DEF Ratio
<1> HIDE DEF p
<1>4. QED
  BY <1>2, <1>3

\* ApplySharePolicy counts in the record, and goes on to ban only after an offence.
LEMMA ShareCounts ==
  ASSUME TypeOK, NEW x \in Sessions, ApplySharePolicy(x)
  PROVE  Counts(x)
<1> DEFINE ip == IP[x]
           old == Get(ip)
<1>1. ip \in IPs
  BY PolicyAssumption
<1>2. PICK ok \in BOOLEAN :
        LET stat == IF ok THEN [old EXCEPT !.valid = @ + 1, !.conn = @ + LimitJump]
                    ELSE [old EXCEPT !.invalid = @ + 1]
            checked == stat.valid + stat.invalid >= CheckThreshold
            bad == checked /\ Ratio(stat.valid, stat.invalid)
        IN /\ Bounded(stat.conn)
           /\ Call(x, "open", IF bad THEN "force" ELSE "open", Counted(stat, checked))
           /\ sinners' = IF ok THEN sinners ELSE sinners \cup {IP[x]}
  BY DEF ApplySharePolicy
<1> DEFINE stat == IF ok THEN [old EXCEPT !.valid = @ + 1, !.conn = @ + LimitJump]
                   ELSE [old EXCEPT !.invalid = @ + 1]
           checked == stat.valid + stat.invalid >= CheckThreshold
           bad == checked /\ Ratio(stat.valid, stat.invalid)
           new == Counted(stat, checked)
           label == IF bad THEN "force" ELSE "open"
<1>3. old \in Stats /\ old.beat = 0
  BY <1>1, GetType
<1>4. CheckThreshold \in Nat \ {0} /\ LimitJump \in Nat /\ InvalidPercent \in Nat
  BY PolicyAssumption
<1>5. /\ old.valid \in 0 .. CheckThreshold /\ old.invalid \in 0 .. CheckThreshold
      /\ old.valid + old.invalid < CheckThreshold /\ old.conn \in Int
  BY <1>3, PolicyAssumption DEF Stats
<1>6. /\ stat.valid = old.valid + (IF ok THEN 1 ELSE 0)
      /\ stat.invalid = old.invalid + (IF ok THEN 0 ELSE 1)
      /\ stat.conn \in -1 .. MaxConn
      /\ stat.malformed = old.malformed /\ stat.banned = old.banned
      /\ stat.bannedAge = old.bannedAge /\ stat.beat = old.beat
      /\ stat \in [valid : Nat, invalid : Nat, malformed : 0 .. MalformedLimit - 1,
                   conn : -1 .. MaxConn, banned : BOOLEAN,
                   bannedAge : 0 .. Timeout, beat : 0 .. Interval]
  <2>1. Bounded(stat.conn)
    BY <1>2
  <2>2. CASE ok
    <3> DEFINE v == old.valid + 1
               c == old.conn + LimitJump
    <3>1. stat = [old EXCEPT !.valid = v, !.conn = c]
      BY <2>2
    <3>2. /\ old \in [valid : Nat, invalid : Nat, malformed : 0 .. MalformedLimit - 1,
                      conn : -1 .. MaxConn, banned : BOOLEAN,
                      bannedAge : 0 .. Timeout, beat : 0 .. Interval]
          /\ v \in Nat
      BY <1>3, <1>5 DEF Stats
    <3>3. stat.conn = c
      BY <3>1, <3>2
    <3>4. c \in -1 .. MaxConn
      BY <2>1, <3>3 DEF Bounded
    <3>5. v = old.valid + (IF ok THEN 1 ELSE 0) /\ old.invalid = old.invalid + (IF ok THEN 0 ELSE 1)
      BY <1>5, <2>2
    <3> HIDE DEF v, c, stat, old
    <3>6. /\ stat.valid = v /\ stat.invalid = old.invalid /\ stat.conn = c
          /\ stat.malformed = old.malformed /\ stat.banned = old.banned
          /\ stat.bannedAge = old.bannedAge /\ stat.beat = old.beat
          /\ stat \in [valid : Nat, invalid : Nat, malformed : 0 .. MalformedLimit - 1,
                       conn : -1 .. MaxConn, banned : BOOLEAN,
                       bannedAge : 0 .. Timeout, beat : 0 .. Interval]
      BY <3>1, <3>2, <3>4
    <3>7. QED
      BY <3>4, <3>5, <3>6
  <2>3. CASE ~ ok
    BY <1>3, <1>4, <1>5, <2>1, <2>3 DEF Stats, Bounded
  <2>4. QED
    BY <2>2, <2>3
<1>7. /\ new \in Stats /\ new.banned = old.banned /\ new.bannedAge = old.bannedAge
      /\ new.beat = 0 /\ new.invalid \in {0, stat.invalid}
  <2> HIDE DEF stat, old
  <2>1. CASE checked
    <3>1. new = [stat EXCEPT !.valid = 0, !.invalid = 0]
      BY <2>1 DEF Counted
    <3>2. 0 \in 0 .. CheckThreshold /\ 0 + 0 < CheckThreshold
      BY <1>4
    <3> HIDE DEF checked, new
    <3>3. /\ new.valid = 0 /\ new.invalid = 0
          /\ new \in [valid : 0 .. CheckThreshold, invalid : 0 .. CheckThreshold,
                      malformed : 0 .. MalformedLimit - 1, conn : -1 .. MaxConn,
                      banned : BOOLEAN, bannedAge : 0 .. Timeout, beat : 0 .. Interval]
          /\ new.banned = stat.banned /\ new.bannedAge = stat.bannedAge /\ new.beat = stat.beat
      BY <1>6, <3>1, <3>2
    <3>4. QED
      BY <1>3, <1>6, <3>2, <3>3 DEF Stats
  <2>2. CASE ~ checked
    BY <1>3, <1>4, <1>5, <1>6, <2>2 DEF Counted, Stats
  <2>3. QED
    BY <2>1, <2>2
<1>8. Call(x, "open", label, new) /\ sinners' = IF ok THEN sinners ELSE sinners \cup {ip}
  BY <1>2
<1>9. new.invalid > 0 => old.invalid > 0 \/ ip \in sinners'
  <2> HIDE DEF stat, old, new
  <2>1. QED
    BY <1>5, <1>6, <1>7, <1>8
<1>10. bad => ip \in sinners' \/ old.invalid > 0 \/ InvalidPercent = 0
  <2>1. SUFFICES ASSUME bad, ok, old.invalid = 0, InvalidPercent # 0 PROVE FALSE
    BY <1>5, <1>8
  <2> HIDE DEF stat, old
  <2>2. stat.valid \in Nat \ {0} /\ stat.invalid = 0
    BY <1>5, <1>6, <2>1
  <2>3. QED
    BY <2>1, <2>2, RatioNeedsInvalid
<1>11. sinners' \in {sinners, sinners \cup {ip}}
  BY <1>8
<1> HIDE DEF stat, bad, new
<1>12. label \in {"closed", "accepted", "open", "force"} /\ (label = "force" => bad)
  OBVIOUS
<1>13. QED
  BY <1>7, <1>8, <1>9, <1>10, <1>11, <1>12 DEF Counts

\* What a session does before forceBan moves its label or counts in its record.
LEMMA SessionSteps ==
  ASSUME TypeOK, NEW x \in Sessions, Client(x) \/ ApplyLimitPolicy(x)
  PROVE  Moves(x) \/ Counts(x)
<1> DEFINE ip == IP[x]
           old == Get(ip)
<1>1. ip \in IPs /\ old \in Stats /\ old.beat = 0
  BY PolicyAssumption, GetType
<1>2. ASSUME NEW at \in {"closed", "accepted", "open"},
             NEW label \in {"closed", "accepted", "open", "force"}, NEW stat \in Stats,
             Call(x, at, label, stat),
             stat.banned = old.banned, stat.bannedAge = old.bannedAge, stat.beat = 0,
             stat.invalid = old.invalid,
             sinners' = sinners \cup {ip} \/ (sinners' = sinners /\ label # "force")
      PROVE  Counts(x)
  <2>1. stat.invalid > 0 => old.invalid > 0
    BY <1>2
  <2> HIDE DEF old
  <2>2. label = "force" => ip \in sinners'
    BY <1>2
  <2>3. sinners' \in {sinners, sinners \cup {ip}}
    BY <1>2
  <2>4. QED
    BY <1>2, <2>1, <2>2, <2>3 DEF Counts, old
<1>3. CASE Accept(x)
  <2>1. Call(x, "closed", IF old.banned THEN "closed" ELSE "accepted", old) /\ UNCHANGED sinners
    BY <1>3 DEF Accept
  <2> HIDE DEF old
  <2>2. QED
    BY <1>1, <1>2, <2>1
<1>4. CASE ApplyLimitPolicy(x)
  <2> DEFINE n == old.conn - 1
             stat == [old EXCEPT !.conn = n]
  <2>1. CASE /\ Bounded(n) /\ UNCHANGED sinners
             /\ Call(x, "accepted", IF n > 0 THEN "open" ELSE "closed", stat)
    <3>1. /\ stat \in Stats /\ stat.banned = old.banned /\ stat.bannedAge = old.bannedAge
          /\ stat.beat = 0 /\ stat.invalid = old.invalid
      BY <1>1, <2>1 DEF Stats, Bounded
    <3> HIDE DEF stat, n
    <3>2. QED
      BY <1>2, <2>1, <3>1
  <2>2. QED
    BY <1>4, <2>1 DEF ApplyLimitPolicy, Moves
<1>5. CASE Disconnect(x)
  BY <1>5 DEF Disconnect, Moves
<1>6. CASE ApplyMalformedPolicy(x)
  <2> DEFINE n == old.malformed + 1
             stat == [old EXCEPT !.malformed = IF n < MalformedLimit THEN n ELSE MalformedLimit - 1]
  <2>1. /\ Call(x, "open", IF n >= MalformedLimit THEN "force" ELSE "closed", stat)
        /\ sinners' = sinners \cup {ip}
    BY <1>6 DEF ApplyMalformedPolicy
  <2>2. /\ stat \in Stats /\ stat.banned = old.banned /\ stat.bannedAge = old.bannedAge
        /\ stat.beat = 0 /\ stat.invalid = old.invalid
    <3>1. /\ MalformedLimit \in Nat \ {0} /\ old.malformed \in 0 .. MalformedLimit - 1
      BY <1>1, PolicyAssumption DEF Stats
    <3>2. (IF n < MalformedLimit THEN n ELSE MalformedLimit - 1) \in 0 .. MalformedLimit - 1
      BY <3>1
    <3>3. QED
      BY <1>1, <3>2 DEF Stats
  <2> HIDE DEF stat, n
  <2>3. QED
    BY <1>2, <2>1, <2>2
<1>7. CASE LoginOrFlood(x)
  <2>1. Call(x, "open", "force", old) /\ sinners' = sinners \cup {ip}
    BY <1>7 DEF LoginOrFlood
  <2> HIDE DEF old
  <2>2. QED
    BY <1>1, <1>2, <2>1
<1>8. QED
  BY <1>3, <1>4, <1>5, <1>6, <1>7, ShareCounts DEF Client

-----------------------------------------------------------------------------
(* Types *)

RefsType ==
  /\ stats \in [IPs -> Records \cup {NoRecord}]
  /\ held \in [Sessions -> Records \cup {NoRecord}]
  /\ pc \in [Sessions -> Places]
  /\ \A x \in Sessions : Banning(x) <=> held[x] # NoRecord
  /\ over \subseteq {x \in Sessions : Banning(x)}

HeapType == DOMAIN heap = Live /\ \A r \in Live : heap[r] \in Stats

RestType ==
  /\ whitelisted \subseteq IPs /\ whitelist \in {{}, whitelisted}
  /\ failed \in BOOLEAN /\ sinners \subseteq IPs /\ elapsed \in 0 .. Grace + 1
  /\ banChannel \in Seq(IPs) /\ Len(banChannel) <= BanCap
  /\ since \in [IPs -> 0 .. Timeout] /\ raced \in [IPs -> BOOLEAN]
  /\ quiet \in [IPs -> 0 .. Interval]

\* The type invariant, part by part.
LEMMA TypeParts == TypeOK <=> RefsType /\ HeapType /\ RestType /\ pass \in Passes
BY DEF TypeOK, RefsType, HeapType, RestType, Passes

\* The type invariant after a step, part by part.
LEMMA TypePartsNext == TypeOK' <=> RefsType' /\ HeapType' /\ RestType' /\ pass' \in Passes'
<1>1. (TypeOK <=> RefsType /\ HeapType /\ RestType /\ pass \in Passes)'
  BY TypeParts, PTL
<1>2. QED
  BY <1>1

\* An idle pass is one of the passes, whatever the map knows.
LEMMA IdlePass ==
  ASSUME TypeOK, pass.at = "idle"
  PROVE  pass = [at |-> "idle"]
<1>1. pass \in Passes
  BY TypeParts
<1>2. pass \in [at : {"idle"}]
  BY <1>1 DEF Passes
<1>3. QED
  BY <1>2

\* A ban's record leaves the session, and goes if nothing else points to it.
LEMMA ReleaseDoes ==
  ASSUME TypeOK, NEW x \in Sessions, Banning(x), NEW label \in {"closed", "send"}, NEW h,
         Release(x, label, h), \A r \in Live : h[r] \in Stats
  PROVE  /\ RefsType' /\ HeapType' /\ Live' \subseteq Live
         /\ stats' = stats /\ pc' = [pc EXCEPT ![x] = label] /\ over' = over \ {x}
         /\ held' = [held EXCEPT ![x] = NoRecord]
         /\ \A ip \in IPs : stats[ip] # NoRecord => heap'[stats[ip]] = h[stats[ip]]
         /\ \A r \in Live' : heap'[r].banned = h[r].banned
                               /\ heap'[r].bannedAge = h[r].bannedAge
<1>1. /\ stats' = stats /\ pc' = [pc EXCEPT ![x] = label] /\ over' = over \ {x}
      /\ held' = [held EXCEPT ![x] = NoRecord] /\ Keep(h)
  BY DEF Release, Goto
<1>2. RefsType
  BY TypeParts
<1>3. Live' \subseteq Live
  BY <1>1, <1>2 DEF RefsType, Live
<1>4. /\ DOMAIN heap' = Live' /\ \A r \in Live' : heap'[r] \in Stats
      /\ \A r \in Live' : heap'[r].banned = h[r].banned /\ heap'[r].bannedAge = h[r].bannedAge
      /\ \A ip \in IPs : stats'[ip] # NoRecord => heap'[stats'[ip]] = h[stats'[ip]]
  BY <1>1, <1>3, KeepDoes
<1>5. RefsType'
  BY <1>1, <1>2 DEF RefsType, Banning, Places
<1>6. QED
  BY <1>1, <1>3, <1>4, <1>5 DEF HeapType

\* One field of a record of counters is set.
LEMMA SetField ==
  ASSUME TypeOK, NEW r \in Live
  PROVE  /\ \A age \in 0 .. Timeout : \A q \in Live :
              [heap EXCEPT ![r].bannedAge = age][q] \in Stats
         /\ \A b \in BOOLEAN : \A q \in Live : [heap EXCEPT ![r].banned = b][q] \in Stats
<1>1. DOMAIN heap = Live /\ \A q \in Live : heap[q] \in Stats
  BY DEF TypeOK
<1>2. ASSUME NEW age \in 0 .. Timeout
      PROVE  [heap[r] EXCEPT !.bannedAge = age] \in Stats
  BY <1>1, <1>2 DEF Stats
<1>3. ASSUME NEW b \in BOOLEAN
      PROVE  [heap[r] EXCEPT !.banned = b] \in Stats
  BY <1>1, <1>3 DEF Stats
<1>4. QED
  BY <1>1, <1>2, <1>3

\* Counting keeps the types.
LEMMA CountsType ==
  ASSUME TypeOK, NEW x \in Sessions, Counts(x)
  PROVE  TypeOK'
<1> DEFINE ip == IP[x]
<1>1. PICK at \in {"closed", "accepted", "open"},
           label \in {"closed", "accepted", "open", "force"}, stat \in Stats :
        Call(x, at, label, stat) /\ sinners' \in {sinners, sinners \cup {ip}}
  BY DEF Counts
<1>2. /\ ip \in IPs /\ pass.at = "idle" /\ pc[x] = at /\ pc' = [pc EXCEPT ![x] = label]
      /\ stats' = [stats EXCEPT ![ip] = Ref(ip)]
      /\ held' = [held EXCEPT ![x] = IF label = "force" THEN Ref(ip) ELSE NoRecord]
      /\ DOMAIN heap' = Live' /\ stats'[ip] = Ref(ip)
      /\ heap'[Ref(ip)] = stat
      /\ \A r \in Live' \ {Ref(ip)} : r \in Live /\ heap'[r] = heap[r]
      /\ quiet' = [quiet EXCEPT ![ip] = IF @ < Interval THEN 0 ELSE @]
      /\ UNCHANGED <<lists, elapsed, timer, banChannel, since, raced>>
  BY <1>1, CallDoes
<1>3. Ref(ip) \in Records /\ Ref(ip) # NoRecord
  BY <1>2, RefIs
<1>4. RefsType /\ HeapType /\ RestType /\ pass = [at |-> "idle"]
  BY <1>2, TypeParts, IdlePass
<1>5. RefsType'
  BY <1>2, <1>3, <1>4 DEF RefsType, Banning, Places, timer
<1>6. HeapType'
  BY <1>2, <1>4 DEF HeapType
<1>7. RestType'
  <2>1. quiet' \in [IPs -> 0 .. Interval]
    <3>1. quiet \in [IPs -> 0 .. Interval] /\ 0 \in 0 .. Interval
      BY <1>4, PolicyAssumption DEF RestType
    <3>2. QED
      BY <1>2, <3>1
  <2>2. QED
    BY <1>1, <1>2, <1>4, <2>1 DEF RestType, lists
<1>8. pass' \in Passes'
  BY <1>2, <1>4 DEF Passes, timer
<1>9. QED
  BY <1>5, <1>6, <1>7, <1>8, TypePartsNext

\* What the pass does to the record at hand.
LEMMA DropIdleDoes ==
  ASSUME TypeOK, pass.at # "idle",
         NEW h, \A r \in Live : h[r] \in Stats, Keep(h), UNCHANGED <<pc, held, over>>,
         stats' \in {stats, [stats EXCEPT ![pass.key] = NoRecord]}, NextKey
  PROVE  /\ RefsType' /\ HeapType' /\ pass' \in Passes' /\ Live' \subseteq Live
         /\ \A ip \in IPs : stats'[ip] # NoRecord =>
              stats'[ip] = stats[ip] /\ heap'[stats[ip]] = h[stats[ip]]
         /\ \A r \in Live' : heap'[r].banned = h[r].banned
                               /\ heap'[r].bannedAge = h[r].bannedAge
<1>1. RefsType /\ pass \in Passes
  BY TypeParts
<1>2. /\ pass.key \in Known /\ pass.todo \subseteq Known /\ pass.key \in IPs
      /\ pass.key \notin pass.todo
  BY <1>1 DEF Passes, Known
<1>3. \A ip \in IPs : stats'[ip] # NoRecord => stats'[ip] = stats[ip]
  BY <1>1 DEF RefsType
<1>4. Live' \subseteq Live
  BY <1>1, <1>3 DEF Live
<1>5. /\ DOMAIN heap' = Live' /\ \A r \in Live' : heap'[r] \in Stats
      /\ \A r \in Live' : heap'[r].banned = h[r].banned /\ heap'[r].bannedAge = h[r].bannedAge
      /\ \A ip \in IPs : stats'[ip] # NoRecord => heap'[stats'[ip]] = h[stats'[ip]]
  BY <1>4, KeepDoes
<1>6. RefsType'
  BY <1>1, <1>2 DEF RefsType, Banning
<1>7. pass' \in Passes'
  <2>1. CASE pass.todo = {}
    BY <2>1 DEF NextKey, Passes
  <2>2. ASSUME NEW ip \in pass.todo, pass' = [at |-> "load", key |-> ip, todo |-> pass.todo \ {ip}]
        PROVE  pass' \in Passes'
    <3>1. pass.todo \subseteq Known'
      BY <1>1, <1>2 DEF Known, RefsType
    <3>2. QED
      BY <2>2, <3>1 DEF Passes
  <2>3. QED
    BY <2>1, <2>2 DEF NextKey
<1>8. QED
  BY <1>3, <1>4, <1>5, <1>6, <1>7 DEF HeapType

\* The first step of forceBan keeps the types.
LEMMA ForceType ==
  ASSUME TypeOK, NEW x \in Sessions, ForceBan(x)
  PROVE  TypeOK'
<1>1. RefsType /\ HeapType /\ RestType /\ pass \in Passes
  BY TypeParts
<1>2. /\ pc[x] = "force" /\ Banning(x) /\ held[x] \in Live
      /\ UNCHANGED <<lists, elapsed, pass, banChannel, ghosts, sinners>>
  BY <1>1, LiveRecords DEF ForceBan, Banning, RefsType
<1>3. UNCHANGED stats /\ RefsType' /\ HeapType'
  <2>1. CASE IP[x] \in whitelist
    <3>1. Release(x, "closed", heap)
      BY <2>1 DEF ForceBan
    <3>2. QED
      BY <1>1, <1>2, <3>1, ReleaseDoes DEF HeapType
  <2>2. CASE IP[x] \notin whitelist
    <3>1. /\ Goto(x, "cas") /\ heap' = [heap EXCEPT ![held[x]].bannedAge = 0]
          /\ UNCHANGED <<stats, held, over>>
      BY <2>2 DEF ForceBan
    <3>2. RefsType'
      BY <1>1, <1>2, <3>1 DEF RefsType, Goto, Banning, Places
    <3>3. Live' = Live
      BY <3>1 DEF Live
    <3>4. 0 \in 0 .. Timeout
      BY PolicyAssumption
    <3>5. HeapType'
      BY <1>1, <1>2, <3>1, <3>3, <3>4, SetField DEF HeapType
    <3>6. QED
      BY <3>1, <3>2, <3>5
  <2>3. QED
    BY <2>1, <2>2
<1>4. RestType' /\ pass' \in Passes'
  BY <1>1, <1>2, <1>3 DEF RestType, lists, ghosts, Passes, Known
<1>5. QED
  BY <1>3, <1>4, TypePartsNext

\* The swap of Banned keeps the types.
LEMMA SwapType ==
  ASSUME TypeOK, NEW x \in Sessions, SwapBanned(x)
  PROVE  TypeOK'
<1>1. RefsType /\ HeapType /\ RestType /\ pass \in Passes
  BY TypeParts
<1> DEFINE h == [heap EXCEPT ![held[x]].banned = TRUE]
           label == IF heap[held[x]].banned THEN "closed" ELSE "send"
<1>2. /\ Banning(x) /\ held[x] \in Live /\ Release(x, label, h)
      /\ since' = [since EXCEPT ![IP[x]] = 0]
      /\ raced' = [raced EXCEPT ![IP[x]] = x \in over]
      /\ quiet' = [quiet EXCEPT ![IP[x]] = 0]
      /\ UNCHANGED <<lists, elapsed, pass, banChannel, sinners>>
  BY <1>1, LiveRecords DEF SwapBanned, Banning, RefsType
<1>3. \A r \in Live : h[r] \in Stats
  BY <1>2, SetField
<1> HIDE DEF h
<1>4. label \in {"closed", "send"}
  OBVIOUS
<1> HIDE DEF label
<1>5. UNCHANGED stats /\ RefsType' /\ HeapType'
  BY <1>2, <1>3, <1>4, ReleaseDoes
<1>6. 0 \in 0 .. Timeout /\ 0 \in 0 .. Interval
  BY PolicyAssumption
<1>7. /\ since' \in [IPs -> 0 .. Timeout] /\ raced' \in [IPs -> BOOLEAN]
      /\ quiet' \in [IPs -> 0 .. Interval]
  <2>1. IP[x] \in IPs /\ (x \in over) \in BOOLEAN
    BY PolicyAssumption
  <2>2. since \in [IPs -> 0 .. Timeout] /\ raced \in [IPs -> BOOLEAN]
    BY <1>1 DEF RestType
  <2>3. since' \in [IPs -> 0 .. Timeout] /\ quiet' \in [IPs -> 0 .. Interval]
    <3>1. quiet \in [IPs -> 0 .. Interval]
      BY <1>1 DEF RestType
    <3>2. QED
      BY <1>2, <1>6, <2>1, <2>2, <3>1
  <2>4. raced' \in [IPs -> BOOLEAN]
    <3> DEFINE b == x \in over
    <3> HIDE DEF b
    <3>1. raced' = [raced EXCEPT ![IP[x]] = b] /\ b \in BOOLEAN
      BY <1>2, <2>1 DEF b
    <3>2. QED
      BY <2>1, <2>2, <3>1
  <2>5. QED
    BY <2>3, <2>4
<1>8. RestType'
  BY <1>1, <1>2, <1>7 DEF RestType, lists
<1>9. pass' \in Passes'
  BY <1>1, <1>2, <1>5 DEF Passes, Known
<1>10. QED
  BY <1>5, <1>8, <1>9, TypePartsNext

\* The reset pass keeps the types.
LEMMA PassType ==
  ASSUME TypeOK, PassStep
  PROVE  TypeOK'
<1>1. RefsType /\ HeapType /\ RestType /\ pass \in Passes
  BY TypeParts
<1>2. pass.at \in {"load", "store", "cas"} /\ UNCHANGED <<lists, elapsed, banChannel, ghosts, sinners>>
  BY DEF PassStep, LoadTimes, ClearBannedAt, DropBan
<1>3. /\ pass \in {p \in [at : {"load", "store", "cas"}, key : Known, todo : SUBSET Known] :
                     p.key \notin p.todo}
      /\ stats[pass.key] \in Live /\ pass.key \in IPs
  <2>1. pass \notin [at : {"idle"}]
    BY <1>2
  <2>2. QED
    BY <1>1, <2>1, LiveRecords DEF Passes, Known
<1>4. RestType'
  BY <1>1, <1>2 DEF RestType, lists, ghosts
<1>5. CASE UNCHANGED <<stats, held, pc, over>> /\ pass' = [pass EXCEPT !.at = "store"] /\ UNCHANGED heap
  <2>1. Live' = Live /\ Known' = Known
    BY <1>5 DEF Live, Known
  <2>2. RefsType' /\ HeapType'
    BY <1>1, <1>5, <2>1 DEF RefsType, Banning, HeapType
  <2>3. pass' \in Passes'
    BY <1>3, <1>5, <2>1 DEF Passes
  <2>4. QED
    BY <1>4, <2>2, <2>3, TypePartsNext
<1>6. CASE ClearBannedAt
  <2>1. /\ pass' = [pass EXCEPT !.at = "cas"]
        /\ heap' = [heap EXCEPT ![stats[pass.key]].bannedAge = Timeout]
        /\ UNCHANGED <<stats, pc, held, over>>
    BY <1>6 DEF ClearBannedAt
  <2>2. Live' = Live /\ Known' = Known /\ Timeout \in 0 .. Timeout
    BY <2>1, PolicyAssumption DEF Live, Known
  <2>3. RefsType' /\ HeapType'
    BY <1>1, <1>3, <2>1, <2>2, SetField DEF RefsType, Banning, HeapType
  <2>4. pass' \in Passes'
    BY <1>3, <2>1, <2>2 DEF Passes
  <2>5. QED
    BY <1>4, <2>3, <2>4, TypePartsNext
<1>7. CASE LoadTimes /\ ~ Expired(pass.key)
  <2>1. DropIdle(pass.key) /\ NextKey /\ UNCHANGED <<pc, over>> /\ pass.at # "idle"
    BY <1>7 DEF LoadTimes
  <2>2. RefsType' /\ HeapType' /\ pass' \in Passes'
    BY <1>1, <2>1, DropIdleDoes DEF DropIdle, HeapType
  <2>3. QED
    BY <1>4, <2>2, TypePartsNext
<1>8. CASE DropBan
  <2> DEFINE h == [heap EXCEPT ![stats[pass.key]].banned = FALSE]
  <2>1. /\ pass.at # "idle" /\ NextKey /\ UNCHANGED <<pc, held, over>> /\ Keep(h)
        /\ stats' \in {stats, [stats EXCEPT ![pass.key] = NoRecord]}
    BY <1>8 DEF DropBan
  <2>2. \A r \in Live : h[r] \in Stats
    BY <1>3, SetField
  <2> HIDE DEF h
  <2>3. RefsType' /\ HeapType' /\ pass' \in Passes'
    BY <2>1, <2>2, DropIdleDoes
  <2>4. QED
    BY <1>4, <2>3, TypePartsNext
<1>9. QED
  BY <1>5, <1>6, <1>7, <1>8 DEF PassStep, LoadTimes

\* The passing of time keeps the types.
LEMMA TickType ==
  ASSUME TypeOK, Tick
  PROVE  TypeOK'
<1>1. RefsType /\ HeapType /\ RestType /\ pass = [at |-> "idle"]
  BY TypeParts, IdlePass DEF Tick
<1>2. /\ heap' = [r \in DOMAIN heap |->
           [heap[r] EXCEPT !.beat = Older(@, Interval), !.bannedAge = Older(@, Timeout)]]
      /\ since' = [ip \in IPs |-> Older(since[ip], Timeout)]
      /\ raced' = [ip \in IPs |-> raced[ip] /\ since'[ip] < Timeout]
      /\ quiet' = [ip \in IPs |->
           IF since'[ip] < Timeout THEN Older(quiet[ip], Interval) ELSE Interval]
      /\ elapsed' = Older(elapsed, Grace + 1)
      /\ UNCHANGED <<lists, stats, pc, held, timer, banChannel, sinners>>
  BY DEF Tick
<1>3. ASSUME NEW most \in Nat, NEW age \in 0 .. most
      PROVE  Older(age, most) \in 0 .. most
  BY <1>3 DEF Older
<1>4. Timeout \in Nat /\ Interval \in Nat /\ Grace + 1 \in Nat
  BY PolicyAssumption
<1>5. RefsType' /\ Live' = Live
  BY <1>1, <1>2 DEF RefsType, Banning, Live, timer
<1>6. HeapType'
  <2>1. ASSUME NEW s \in Stats
        PROVE  [s EXCEPT !.beat = Older(@, Interval), !.bannedAge = Older(@, Timeout)] \in Stats
    <3>1. Older(s.beat, Interval) \in 0 .. Interval /\ Older(s.bannedAge, Timeout) \in 0 .. Timeout
      BY <1>3, <1>4 DEF Stats
    <3>2. QED
      BY <3>1 DEF Stats
  <2>2. QED
    BY <1>1, <1>2, <1>5, <2>1 DEF HeapType
<1>7. RestType'
  <2>1. since' \in [IPs -> 0 .. Timeout] /\ elapsed' \in 0 .. Grace + 1
    BY <1>1, <1>2, <1>3, <1>4 DEF RestType
  <2>2. raced' \in [IPs -> BOOLEAN]
    BY <1>1, <1>2 DEF RestType
  <2>3. quiet' \in [IPs -> 0 .. Interval]
    <3>1. \A ip \in IPs : quiet[ip] \in 0 .. Interval
      BY <1>1 DEF RestType
    <3>2. \A ip \in IPs : Older(quiet[ip], Interval) \in 0 .. Interval
      BY <1>3, <1>4, <3>1
    <3>3. Interval \in 0 .. Interval
      BY <1>4
    <3>4. QED
      BY <1>2, <3>2, <3>3
  <2>4. QED
    BY <1>1, <1>2, <2>1, <2>2, <2>3 DEF RestType, lists
<1>8. pass' \in Passes'
  BY <1>1, <1>2 DEF Passes, timer
<1>9. QED
  BY <1>5, <1>6, <1>7, <1>8, TypePartsNext

\* Every step keeps the types.
LEMMA TypeStep ==
  ASSUME TypeOK, [Next]_vars
  PROVE  TypeOK'
<1>1. RefsType /\ HeapType /\ RestType /\ pass \in Passes
  BY TypeParts
<1>2. ASSUME UNCHANGED <<heap, stats, held>>, RestType', UNCHANGED <<pass, over>>,
             pc' \in [Sessions -> Places], \A x \in Sessions : Banning(x)' <=> Banning(x)
      PROVE  TypeOK'
  <2>1. Live' = Live /\ Known' = Known
    BY <1>2 DEF Live, Known
  <2>2. RefsType' /\ HeapType' /\ pass' \in Passes'
    BY <1>1, <1>2, <2>1 DEF RefsType, HeapType, Passes
  <2>3. QED
    BY <1>2, <2>2, TypePartsNext
<1>3. CASE UNCHANGED vars
  BY <1>1, <1>2, <1>3 DEF vars, lists, ghosts, timer, RestType, RefsType, Banning
<1>4. ASSUME NEW x \in Sessions, Moves(x)
      PROVE  TypeOK'
  <2>1. PICK label \in {"open", "closed"} : Goto(x, label)
    BY <1>4 DEF Moves
  <2>2. pc' \in [Sessions -> Places] /\ \A y \in Sessions : Banning(y)' <=> Banning(y)
    BY <1>1, <1>4, <2>1 DEF Moves, Goto, RefsType, Banning, Places
  <2>3. RestType' /\ UNCHANGED <<heap, stats, held>> /\ UNCHANGED <<pass, over>>
    BY <1>1, <1>4 DEF Moves, RestType, lists, ghosts, timer
  <2>4. QED
    BY <1>2, <2>2, <2>3
<1>5. ASSUME NEW x \in Sessions, SendBan(x)
      PROVE  TypeOK'
  <2>1. /\ pc[x] = "send" /\ Len(banChannel) < BanCap /\ Goto(x, "closed")
        /\ banChannel' = Append(banChannel, IP[x])
        /\ UNCHANGED <<lists, heap, stats, elapsed, held, timer, ghosts, sinners>>
    BY <1>5 DEF SendBan
  <2>2. pc' \in [Sessions -> Places] /\ \A y \in Sessions : Banning(y)' <=> Banning(y)
    BY <1>1, <2>1 DEF Goto, RefsType, Banning, Places
  <2>3. banChannel' \in Seq(IPs) /\ Len(banChannel') <= BanCap
    <3>1. IP[x] \in IPs /\ BanCap \in Nat /\ banChannel \in Seq(IPs)
      BY <1>1, PolicyAssumption DEF RestType
    <3>2. Len(banChannel') = Len(banChannel) + 1 /\ Len(banChannel) \in Nat
      BY <2>1, <3>1
    <3>3. QED
      BY <2>1, <3>1, <3>2
  <2>4. RestType' /\ UNCHANGED <<heap, stats, held>> /\ UNCHANGED <<pass, over>>
    BY <1>1, <2>1, <2>3 DEF RestType, lists, ghosts, timer
  <2>5. QED
    BY <1>2, <2>2, <2>4
<1>6. CASE DoBan
  <2>1. /\ banChannel # <<>> /\ banChannel' = Tail(banChannel)
        /\ UNCHANGED <<lists, heap, stats, elapsed, pc, held, timer, ghosts, sinners>>
    BY <1>6 DEF DoBan
  <2>2. banChannel' \in Seq(IPs) /\ Len(banChannel') <= BanCap
    <3>1. BanCap \in Nat /\ banChannel \in Seq(IPs) /\ Len(banChannel) <= BanCap
      BY <1>1, PolicyAssumption DEF RestType
    <3>2. Len(banChannel') = Len(banChannel) - 1 /\ Len(banChannel) \in Nat
      BY <2>1, <3>1
    <3>3. QED
      BY <2>1, <3>1, <3>2
  <2>3. RestType' /\ UNCHANGED <<heap, stats, held>> /\ UNCHANGED <<pass, over>>
    BY <1>1, <2>1, <2>2 DEF RestType, lists, ghosts, timer
  <2>4. QED
    BY <1>1, <1>2, <2>1, <2>3 DEF RefsType, Banning
<1>7. CASE ResetStats
  <2>1. PICK ip \in Known : pass' = [at |-> "load", key |-> ip, todo |-> Known \ {ip}]
    BY <1>7 DEF ResetStats
  <2>2. /\ over' = {y \in Sessions : Banning(y)}
        /\ UNCHANGED <<lists, heap, stats, elapsed, pc, held, banChannel, ghosts, sinners>>
    BY <1>7 DEF ResetStats
  <2>3. Live' = Live /\ Known' = Known
    BY <2>2 DEF Live, Known
  <2>4. RefsType' /\ HeapType' /\ RestType'
    BY <1>1, <2>2, <2>3 DEF RefsType, HeapType, RestType, Banning, lists, ghosts
  <2>5. pass' \in Passes'
    BY <2>1, <2>3 DEF Passes
  <2>6. QED
    BY <2>4, <2>5, TypePartsNext
<1>8. CASE RefreshState
  <2>1. /\ whitelist' \in {{}, whitelisted} /\ failed' \in BOOLEAN
        /\ UNCHANGED <<whitelisted, heap, stats, elapsed, pc, held, timer, banChannel, ghosts, sinners>>
    BY <1>1, <1>8 DEF RefreshState, RestType
  <2>2. RestType'
    BY <1>1, <2>1 DEF RestType, ghosts
  <2>3. QED
    BY <1>1, <1>2, <2>1, <2>2 DEF RefsType, Banning, timer
<1>9. QED
  BY <1>3, <1>4, <1>5, <1>6, <1>7, <1>8, SessionSteps, CountsType, ForceType, SwapType,
    PassType, TickType DEF Next, Handler

\* Every variable has its type: in particular no record keeps CheckThreshold
\* shares unjudged, and sessions, the map and the reset pass point to records
\* that exist.
THEOREM TypeCorrect == Spec => []TypeOK
<1>1. Init => TypeOK
  <2> SUFFICES ASSUME Init PROVE TypeOK
    OBVIOUS
  <2>1. Live = {} /\ DOMAIN heap = {} /\ Known = {}
    BY DEF Init, Live, Known
  <2>2. RefsType /\ HeapType /\ pass \in Passes
    BY <2>1 DEF Init, RefsType, HeapType, Passes, Banning, Places
  <2>3. RestType
    <3>1. <<>> \in Seq(IPs) /\ Len(<<>>) = 0 /\ BanCap \in Nat
      BY PolicyAssumption
    <3>2. /\ since \in [IPs -> 0 .. Timeout] /\ raced \in [IPs -> BOOLEAN]
          /\ quiet \in [IPs -> 0 .. Interval]
      BY PolicyAssumption DEF Init
    <3>3. elapsed \in 0 .. Grace + 1
      BY PolicyAssumption DEF Init
    <3>4. banChannel \in Seq(IPs) /\ Len(banChannel) <= BanCap
      BY <3>1 DEF Init
    <3>5. QED
      BY <3>2, <3>3, <3>4 DEF Init, RestType
  <2>4. QED
    BY <2>2, <2>3, TypeParts
<1>2. TypeOK /\ [Next]_vars => TypeOK'
  BY TypeStep
<1>3. QED
  BY <1>1, <1>2, PTL DEF Spec
-----------------------------------------------------------------------------
(* The invariant: what a session and the pass know of the records *)

\* A record belongs to one IP, and so do the pointers to it.
Own ==
  /\ \A i, j \in IPs : stats[i] = stats[j] /\ stats[i] # NoRecord => i = j
  /\ \A x \in Sessions, i \in IPs : held[x] # NoRecord /\ held[x] = stats[i] => i = IP[x]

\* No call begins during a pass, so the pass has met every ban under way.
Met == pass.at # "idle" => \A x \in Sessions : Banning(x) => x \in over

\* A ban that no pass has met is made in the record of the map, just touched.
Fresh ==
  \A x \in Sessions : Banning(x) /\ x \notin over =>
    /\ held[x] = stats[IP[x]] /\ heap[held[x]].beat = 0
    /\ pc[x] = "cas" => heap[held[x]].bannedAge = 0

\* A ban of IP ip that the code means to keep: it is not over, its call met no
\* reset pass, and the IP is not idle.
Lasting(ip) == since[ip] < Timeout /\ quiet[ip] < Interval /\ ~ raced[ip]

\* BanLasts, with the ages that keep the record.
Last ==
  \A ip \in IPs : Lasting(ip) =>
    /\ stats[ip] # NoRecord /\ heap[stats[ip]].banned
    /\ heap[stats[ip]].bannedAge <= since[ip] /\ heap[stats[ip]].beat <= quiet[ip]

\* A pass that has found a ban expired may only meet one made since.
Loaded == pass.at \in {"store", "cas"} => ~ Lasting(pass.key)

\* The inductive invariant of the bans.
IInv == Own /\ Met /\ Fresh /\ Last /\ Loaded

\* What a call that counts does to the records of the map and to the pointers.
LEMMA CountsDo ==
  ASSUME TypeOK, Own, NEW x \in Sessions, Counts(x)
  PROVE  /\ IP[x] \in IPs /\ ~ Banning(x)
         /\ pass = [at |-> "idle"] /\ UNCHANGED <<lists, timer, since, raced>>
         /\ \A i \in IPs : quiet'[i] \in {0, quiet[i]} /\ (i # IP[x] => quiet'[i] = quiet[i])
         /\ quiet'[IP[x]] = IF quiet[IP[x]] < Interval THEN 0 ELSE quiet[IP[x]]
         /\ stats'[IP[x]] # NoRecord
         /\ \A i \in IPs : stats[i] # NoRecord =>
              /\ stats'[i] = stats[i]
              /\ heap'[stats[i]].banned = heap[stats[i]].banned
              /\ heap'[stats[i]].bannedAge = heap[stats[i]].bannedAge
              /\ i # IP[x] => heap'[stats[i]] = heap[stats[i]]
         /\ heap'[stats'[IP[x]]].beat = 0
         /\ stats[IP[x]] = NoRecord => ~ heap'[stats'[IP[x]]].banned
         /\ \A i \in IPs : i # IP[x] => stats'[i] = stats[i]
         /\ \A y \in Sessions : y # x => held'[y] = held[y] /\ pc'[y] = pc[y]
         /\ pc'[x] # "cas" /\ (Banning(x)' => held'[x] = stats'[IP[x]])
         /\ held'[x] \in {NoRecord, stats'[IP[x]]}
         /\ stats[IP[x]] # stats'[IP[x]] => stats'[IP[x]] \notin Live
<1> DEFINE ip == IP[x]
<1>1. PICK at \in {"closed", "accepted", "open"},
           label \in {"closed", "accepted", "open", "force"}, stat \in Stats :
        /\ Call(x, at, label, stat)
        /\ stat.banned = Get(ip).banned /\ stat.bannedAge = Get(ip).bannedAge
        /\ stat.beat = 0
  BY DEF Counts
<1>2. /\ ip \in IPs /\ pass.at = "idle" /\ pc[x] = at /\ pc' = [pc EXCEPT ![x] = label]
      /\ stats' = [stats EXCEPT ![ip] = Ref(ip)]
      /\ held' = [held EXCEPT ![x] = IF label = "force" THEN Ref(ip) ELSE NoRecord]
      /\ stats'[ip] = Ref(ip) /\ heap'[Ref(ip)] = stat
      /\ \A r \in Live' \ {Ref(ip)} : r \in Live /\ heap'[r] = heap[r]
      /\ quiet' = [quiet EXCEPT ![ip] = IF @ < Interval THEN 0 ELSE @]
      /\ UNCHANGED <<lists, elapsed, timer, banChannel, since, raced>>
  BY <1>1, CallDoes
<1>3. /\ Ref(ip) # NoRecord
      /\ IF stats[ip] = NoRecord THEN Ref(ip) \notin Live ELSE Ref(ip) = stats[ip]
  BY <1>2, RefIs
<1>4. RefsType
  BY TypeParts
<1>5. ASSUME NEW i \in IPs, i # ip
      PROVE  stats'[i] = stats[i] /\ (stats[i] # NoRecord => heap'[stats[i]] = heap[stats[i]])
  <2>1. stats'[i] = stats[i]
    BY <1>2, <1>4, <1>5 DEF RefsType
  <2>2. SUFFICES ASSUME stats[i] # NoRecord PROVE heap'[stats[i]] = heap[stats[i]]
    BY <2>1
  <2>3. stats[i] \in Live' /\ stats[i] \in Live
    BY <2>1, <2>2 DEF Live
  <2>4. stats[i] # Ref(ip)
    BY <1>2, <1>3, <1>5, <2>2, <2>3 DEF Own
  <2>5. QED
    BY <1>2, <2>3, <2>4
<1>6. stats[ip] # NoRecord =>
        /\ stats'[ip] = stats[ip] /\ heap'[stats[ip]].banned = heap[stats[ip]].banned
        /\ heap'[stats[ip]].bannedAge = heap[stats[ip]].bannedAge
  BY <1>1, <1>2, <1>3, GetType
<1>7. stats[ip] = NoRecord => ~ heap'[stats'[ip]].banned
  BY <1>1, <1>2, GetType
<1>8. \A y \in Sessions : y # x => held'[y] = held[y] /\ pc'[y] = pc[y]
  BY <1>2, <1>4 DEF RefsType
<1>9. /\ pc'[x] = label /\ held'[x] = IF label = "force" THEN Ref(ip) ELSE NoRecord
  BY <1>2, <1>4 DEF RefsType
<1>10. heap'[stats'[ip]].beat = 0 /\ stats'[ip] # NoRecord
  BY <1>1, <1>2, <1>3
<1>11. pass = [at |-> "idle"] /\ ~ Banning(x)
  BY <1>2, IdlePass DEF Banning
<1>12. (Banning(x)' => held'[x] = stats'[ip]) /\ held'[x] \in {NoRecord, stats'[ip]}
         /\ pc'[x] # "cas"
  BY <1>2, <1>9 DEF Banning
<1>13. stats[ip] # stats'[ip] => stats'[ip] \notin Live
  BY <1>2, <1>3
<1>14. /\ quiet'[ip] = IF quiet[ip] < Interval THEN 0 ELSE quiet[ip]
       /\ \A i \in IPs : quiet'[i] \in {0, quiet[i]} /\ (i # ip => quiet'[i] = quiet[i])
  <2>1. quiet \in [IPs -> 0 .. Interval]
    BY TypeParts DEF RestType
  <2>2. QED
    BY <1>2, <2>1
<1>15. QED
  BY <1>2, <1>5, <1>6, <1>7, <1>8, <1>10, <1>11, <1>12, <1>13, <1>14

\* Counting leaves every record with the one address that it belongs to.
LEMMA CountsOwn ==
  ASSUME TypeOK, Own, NEW x \in Sessions, Counts(x)
  PROVE  Own'
<1> DEFINE ip == IP[x]
<1>1. /\ ip \in IPs
      /\ \A i \in IPs : i # ip => stats'[i] = stats[i]
      /\ \A y \in Sessions : y # x => held'[y] = held[y]
      /\ held'[x] \in {NoRecord, stats'[ip]}
      /\ stats[ip] # stats'[ip] => stats'[ip] \notin Live
  BY CountsDo
<1>2. /\ \A i \in IPs : stats[i] # NoRecord => stats[i] \in Live
      /\ \A y \in Sessions : held[y] # NoRecord => held[y] \in Live
  BY LiveRecords
<1>3. ASSUME NEW i \in IPs, NEW j \in IPs, stats'[i] = stats'[j], stats'[i] # NoRecord
      PROVE  i = j
  BY <1>1, <1>2, <1>3 DEF Own
<1>4. ASSUME NEW y \in Sessions, NEW i \in IPs, held'[y] # NoRecord, held'[y] = stats'[i]
      PROVE  i = IP[y]
  <2>1. CASE y = x
    BY <1>1, <1>3, <1>4, <2>1
  <2>2. CASE y # x
    BY <1>1, <1>2, <1>4, <2>2 DEF Own
  <2>3. QED
    BY <2>1, <2>2
<1>5. QED
  BY <1>3, <1>4 DEF Own

\* Counting keeps the invariant.
LEMMA CountsInv ==
  ASSUME TypeOK, IInv, NEW x \in Sessions, Counts(x)
  PROVE  IInv'
<1> DEFINE ip == IP[x]
<1>1. Own /\ Met /\ Fresh /\ Last /\ Loaded
  BY DEF IInv
<1>2. /\ ip \in IPs
      /\ pass = [at |-> "idle"] /\ pass' = pass /\ over' = over
      /\ since' = since /\ raced' = raced
      /\ \A i \in IPs : i # ip => quiet'[i] = quiet[i]
      /\ quiet'[ip] = IF quiet[ip] < Interval THEN 0 ELSE quiet[ip]
      /\ stats'[ip] # NoRecord
      /\ \A i \in IPs : stats[i] # NoRecord =>
           /\ stats'[i] = stats[i]
           /\ heap'[stats[i]].banned = heap[stats[i]].banned
           /\ heap'[stats[i]].bannedAge = heap[stats[i]].bannedAge
           /\ i # ip => heap'[stats[i]] = heap[stats[i]]
      /\ heap'[stats'[ip]].beat = 0
      /\ \A i \in IPs : i # ip => stats'[i] = stats[i]
      /\ \A y \in Sessions : y # x => held'[y] = held[y] /\ pc'[y] = pc[y]
      /\ pc'[x] # "cas" /\ (Banning(x)' => held'[x] = stats'[ip])
  BY <1>1, CountsDo DEF timer
<1>3. Own'
  BY <1>1, CountsOwn
<1>4. Met' /\ Loaded'
  BY <1>2 DEF Met, Loaded
<1>5. \A i \in IPs : quiet[i] \in Nat /\ Interval \in Nat
  BY TypeParts, PolicyAssumption DEF RestType
<1>6. Last'
  <2> SUFFICES ASSUME NEW i \in IPs, since'[i] < Timeout, quiet'[i] < Interval, ~ raced'[i]
               PROVE  /\ stats'[i] # NoRecord /\ heap'[stats'[i]].banned
                      /\ heap'[stats'[i]].bannedAge <= since'[i]
                      /\ heap'[stats'[i]].beat <= quiet'[i]
    BY DEF Last, Lasting
  <2>1. quiet[i] < Interval
    BY <1>2
  <2>2. /\ stats[i] # NoRecord /\ heap[stats[i]].banned
        /\ heap[stats[i]].bannedAge <= since[i] /\ heap[stats[i]].beat <= quiet[i]
    BY <1>1, <1>2, <2>1 DEF Last, Lasting
  <2>3. CASE i = ip
    <3>1. heap'[stats'[i]].beat = 0 /\ quiet'[i] = 0
      BY <1>2, <2>1, <2>3
    <3>2. QED
      BY <1>2, <2>2, <3>1
  <2>4. CASE i # ip
    BY <1>2, <2>2, <2>4
  <2>5. QED
    BY <2>3, <2>4
<1>7. Fresh'
  <2> SUFFICES ASSUME NEW y \in Sessions, Banning(y)', y \notin over'
               PROVE  /\ held'[y] = stats'[IP[y]] /\ heap'[held'[y]].beat = 0
                      /\ pc'[y] = "cas" => heap'[held'[y]].bannedAge = 0
    BY DEF Fresh
  <2>1. CASE y = x
    BY <1>2, <2>1
  <2>2. CASE y # x
    <3>1. IP[y] \in IPs /\ Banning(y) /\ y \notin over
      BY <1>2, <2>2, PolicyAssumption DEF Banning
    <3>2. /\ held[y] = stats[IP[y]] /\ heap[held[y]].beat = 0 /\ held[y] # NoRecord
          /\ pc[y] = "cas" => heap[held[y]].bannedAge = 0
      BY <1>1, <3>1, TypeParts DEF Fresh, RefsType
    <3>3. heap'[stats[IP[y]]].beat = 0
      BY <1>2, <3>1, <3>2
    <3>4. QED
      BY <1>2, <2>2, <3>1, <3>2, <3>3
  <2>3. QED
    BY <2>1, <2>2
<1>8. QED
  BY <1>3, <1>4, <1>6, <1>7 DEF IInv

\* A session is done with its ban: whoever stays is as before.
LEMMA ReleaseInv ==
  ASSUME TypeOK, Own, Met, Fresh, NEW x \in Sessions, Banning(x),
         NEW label \in {"closed", "send"}, NEW h,
         Release(x, label, h), UNCHANGED pass, \A r \in Live : h[r] \in Stats,
         \A r \in Live : h[r].beat = heap[r].beat /\ h[r].bannedAge = heap[r].bannedAge
  PROVE  Own' /\ Met' /\ Fresh'
<1>1. /\ stats' = stats /\ over' = over \ {x} /\ ~ Banning(x)'
      /\ \A y \in Sessions : y # x => held'[y] = held[y] /\ pc'[y] = pc[y]
      /\ held'[x] = NoRecord
      /\ \A i \in IPs : stats[i] # NoRecord => heap'[stats[i]] = h[stats[i]]
  BY TypeParts, ReleaseDoes DEF RefsType, Banning
<1>2. Own' /\ Met'
  BY <1>1 DEF Own, Met, Banning
<1>3. Fresh'
  <2> SUFFICES ASSUME NEW y \in Sessions, Banning(y)', y \notin over'
               PROVE  /\ held'[y] = stats'[IP[y]] /\ heap'[held'[y]].beat = 0
                      /\ pc'[y] = "cas" => heap'[held'[y]].bannedAge = 0
    BY DEF Fresh
  <2>1. y # x
    BY <1>1
  <2>2. IP[y] \in IPs /\ Banning(y) /\ y \notin over
    BY <1>1, <2>1, PolicyAssumption DEF Banning
  <2>3. /\ held[y] = stats[IP[y]] /\ heap[held[y]].beat = 0 /\ held[y] \in Live
        /\ held[y] # NoRecord /\ (pc[y] = "cas" => heap[held[y]].bannedAge = 0)
    BY <2>2, TypeParts, LiveRecords DEF Fresh, RefsType
  <2>4. QED
    BY <1>1, <2>1, <2>2, <2>3
<1>4. QED
  BY <1>2, <1>3

\* The first step of forceBan keeps the invariant.
LEMMA ForceInv ==
  ASSUME TypeOK, IInv, NEW x \in Sessions, ForceBan(x)
  PROVE  IInv'
<1>1. Own /\ Met /\ Fresh /\ Last /\ Loaded /\ RefsType
  BY TypeParts DEF IInv
<1>2. /\ pc[x] = "force" /\ Banning(x) /\ held[x] \in Live
      /\ UNCHANGED pass /\ UNCHANGED <<since, raced, quiet>>
  BY <1>1, LiveRecords DEF ForceBan, Banning, RefsType, ghosts
<1>3. Loaded'
  BY <1>1, <1>2 DEF Loaded, Lasting
<1>4. CASE IP[x] \in whitelist
  <2>1. Release(x, "closed", heap)
    BY <1>4 DEF ForceBan
  <2>2. \A r \in Live : heap[r] \in Stats
    BY LiveRecords
  <2>3. Own' /\ Met' /\ Fresh'
    BY <1>1, <1>2, <2>1, <2>2, ReleaseInv
  <2>4. stats' = stats /\ \A i \in IPs : stats[i] # NoRecord => heap'[stats[i]] = heap[stats[i]]
    BY <1>2, <2>1, <2>2, ReleaseDoes
  <2>5. Last'
    BY <1>1, <1>2, <2>4 DEF Last, Lasting
  <2>6. QED
    BY <1>3, <2>3, <2>5 DEF IInv
<1>5. CASE IP[x] \notin whitelist
  <2>1. /\ pc' = [pc EXCEPT ![x] = "cas"]
        /\ heap' = [heap EXCEPT ![held[x]].bannedAge = 0]
        /\ UNCHANGED <<stats, held, over>>
    BY <1>5 DEF ForceBan, Goto
  <2>2. \A r \in Live :
          /\ heap'[r].beat = heap[r].beat /\ heap'[r].banned = heap[r].banned
          /\ heap'[r].bannedAge = IF r = held[x] THEN 0 ELSE heap[r].bannedAge
    <3>1. DOMAIN heap = Live /\ \A r \in Live : heap[r] \in Stats
      BY DEF TypeOK
    <3>2. ASSUME NEW s \in Stats
          PROVE  LET t == [s EXCEPT !.bannedAge = 0]
                 IN t.beat = s.beat /\ t.banned = s.banned /\ t.bannedAge = 0
      BY <3>2 DEF Stats
    <3>3. heap'[held[x]] = [heap[held[x]] EXCEPT !.bannedAge = 0]
      BY <1>2, <2>1, <3>1
    <3>4. \A r \in Live : r # held[x] => heap'[r] = heap[r]
      BY <2>1, <3>1
    <3>5. /\ heap'[held[x]].beat = heap[held[x]].beat
          /\ heap'[held[x]].banned = heap[held[x]].banned
          /\ heap'[held[x]].bannedAge = 0
      BY <1>2, <3>1, <3>2, <3>3
    <3>6. QED
      BY <3>4, <3>5
  <2>3. \A y \in Sessions : /\ Banning(y)' <=> Banning(y)
                            /\ pc'[y] = "cas" => pc[y] = "cas" \/ y = x
    BY <1>1, <1>2, <2>1 DEF Banning, RefsType
  <2>4. Own' /\ Met'
    BY <1>1, <1>2, <2>1, <2>3 DEF Own, Met
  <2>5. Last'
    <3> SUFFICES ASSUME NEW i \in IPs, Lasting(i)
                 PROVE  /\ stats[i] # NoRecord /\ heap'[stats[i]].banned
                        /\ heap'[stats[i]].bannedAge <= since[i]
                        /\ heap'[stats[i]].beat <= quiet[i]
      BY <1>2, <2>1 DEF Last, Lasting
    <3>1. /\ stats[i] # NoRecord /\ heap[stats[i]].banned
          /\ heap[stats[i]].bannedAge <= since[i] /\ heap[stats[i]].beat <= quiet[i]
      BY <1>1 DEF Last
    <3>2. /\ stats[i] \in Live /\ since[i] \in 0 .. Timeout
          /\ heap'[stats[i]].bannedAge \in {0, heap[stats[i]].bannedAge}
      BY <2>2, <3>1, TypeParts, LiveRecords DEF RestType
    <3>3. QED
      BY <2>2, <3>1, <3>2
  <2>6. Fresh'
    <3> SUFFICES ASSUME NEW y \in Sessions, Banning(y), y \notin over
                 PROVE  /\ held[y] = stats[IP[y]] /\ heap'[held[y]].beat = 0
                        /\ pc'[y] = "cas" => heap'[held[y]].bannedAge = 0
      BY <2>1, <2>3 DEF Fresh
    <3>1. /\ held[y] = stats[IP[y]] /\ heap[held[y]].beat = 0 /\ held[y] \in Live
          /\ (pc[y] = "cas" => heap[held[y]].bannedAge = 0)
      BY <1>1, LiveRecords DEF Fresh, RefsType
    <3>2. QED
      BY <2>2, <2>3, <3>1
  <2>7. QED
    BY <1>3, <2>4, <2>5, <2>6 DEF IInv
<1>6. QED
  BY <1>4, <1>5

\* The swap of Banned keeps the invariant.
LEMMA SwapInv ==
  ASSUME TypeOK, IInv, NEW x \in Sessions, SwapBanned(x)
  PROVE  IInv'
<1> DEFINE ip == IP[x]
           h == [heap EXCEPT ![held[x]].banned = TRUE]
           label == IF heap[held[x]].banned THEN "closed" ELSE "send"
<1>1. Own /\ Met /\ Fresh /\ Last /\ Loaded /\ RefsType
  BY TypeParts DEF IInv
<1>2. /\ pc[x] = "cas" /\ Banning(x) /\ held[x] \in Live /\ Release(x, label, h)
      /\ since' = [since EXCEPT ![ip] = 0]
      /\ raced' = [raced EXCEPT ![ip] = x \in over]
      /\ quiet' = [quiet EXCEPT ![ip] = 0]
      /\ UNCHANGED pass
  BY <1>1, LiveRecords DEF SwapBanned, Banning, RefsType
<1>3. \A r \in Live : h[r] \in Stats
  BY <1>2, SetField
<1>4. /\ h[held[x]].banned
      /\ \A r \in Live : /\ h[r].beat = heap[r].beat /\ h[r].bannedAge = heap[r].bannedAge
                         /\ heap[r].banned => h[r].banned
  <2>1. DOMAIN heap = Live /\ \A r \in Live : heap[r] \in Stats
    BY DEF TypeOK
  <2>2. ASSUME NEW s \in Stats
        PROVE  LET t == [s EXCEPT !.banned = TRUE]
               IN t.beat = s.beat /\ t.banned /\ t.bannedAge = s.bannedAge
    BY <2>2 DEF Stats
  <2>3. h[held[x]] = [heap[held[x]] EXCEPT !.banned = TRUE]
    BY <1>2, <2>1
  <2>4. \A r \in Live : r # held[x] => h[r] = heap[r]
    BY <2>1
  <2>5. QED
    BY <1>2, <2>1, <2>2, <2>3, <2>4
<1> HIDE DEF h
<1>5. label \in {"closed", "send"}
  OBVIOUS
<1> HIDE DEF label
<1>6. Own' /\ Met' /\ Fresh'
  BY <1>1, <1>2, <1>3, <1>4, <1>5, ReleaseInv
<1>7. stats' = stats /\ \A i \in IPs : stats[i] # NoRecord => heap'[stats[i]] = h[stats[i]]
  BY <1>2, <1>3, <1>5, ReleaseDoes
<1>8. /\ ip \in IPs /\ since'[ip] = 0 /\ quiet'[ip] = 0 /\ (raced'[ip] <=> x \in over)
      /\ \A i \in IPs : i # ip =>
           since'[i] = since[i] /\ quiet'[i] = quiet[i] /\ raced'[i] = raced[i]
  BY <1>2, PolicyAssumption, TypeParts DEF RestType
<1>9. Last'
  <2> SUFFICES ASSUME NEW i \in IPs, since'[i] < Timeout, quiet'[i] < Interval, ~ raced'[i]
               PROVE  /\ stats[i] # NoRecord /\ heap'[stats[i]].banned
                      /\ heap'[stats[i]].bannedAge <= since'[i]
                      /\ heap'[stats[i]].beat <= quiet'[i]
    BY <1>7 DEF Last, Lasting
  <2>1. CASE i # ip
    <3>1. /\ stats[i] # NoRecord /\ heap[stats[i]].banned
          /\ heap[stats[i]].bannedAge <= since[i] /\ heap[stats[i]].beat <= quiet[i]
      BY <1>1, <1>8, <2>1 DEF Last, Lasting
    <3>2. QED
      BY <1>4, <1>7, <1>8, <2>1, <3>1, LiveRecords
  <2>2. CASE i = ip
    <3>1. x \notin over
      BY <1>8, <2>2
    <3>2. held[x] = stats[ip] /\ heap[held[x]].beat = 0 /\ heap[held[x]].bannedAge = 0
      BY <1>1, <1>2, <3>1 DEF Fresh
    <3>3. stats[ip] # NoRecord
      BY <1>1, <1>2, <3>2 DEF RefsType
    <3>4. QED
      BY <1>2, <1>4, <1>7, <1>8, <2>2, <3>2, <3>3
  <2>3. QED
    BY <2>1, <2>2
<1>10. Loaded'
  <2> SUFFICES ASSUME pass.at \in {"store", "cas"}, since'[pass.key] < Timeout,
                      quiet'[pass.key] < Interval
               PROVE  raced'[pass.key]
    BY <1>2 DEF Loaded, Lasting
  <2>1. pass.key \in IPs
    BY TypeParts DEF Passes, Known
  <2>2. x \in over
    BY <1>1, <1>2 DEF Met
  <2>3. QED
    BY <1>1, <1>8, <2>1, <2>2 DEF Loaded, Lasting
<1>11. QED
  BY <1>6, <1>9, <1>10 DEF IInv

\* The pass goes on to its next record, with or without this one.
LEMMA DropInv ==
  ASSUME TypeOK, IInv, pass.at # "idle",
         NEW h, \A r \in Live : h[r] \in Stats, Keep(h), UNCHANGED <<pc, held, over>>,
         UNCHANGED ghosts, NextKey,
         stats' \in {stats, [stats EXCEPT ![pass.key] = NoRecord]},
         \A r \in Live : r # stats[pass.key] => h[r] = heap[r],
         \/ pass.at = "cas"
         \/ stats' = stats /\ h = heap
         \/ Idle(pass.key) /\ h = heap
  PROVE  IInv'
<1> DEFINE key == pass.key
<1>1. Own /\ Met /\ Fresh /\ Last /\ Loaded /\ RefsType
  BY TypeParts DEF IInv
<1>2. /\ \A i \in IPs : stats'[i] # NoRecord =>
           stats'[i] = stats[i] /\ heap'[stats[i]] = h[stats[i]]
  BY DropIdleDoes
<1>3. key \in IPs /\ stats[key] # NoRecord
  BY TypeParts DEF Passes, Known
<1>4. UNCHANGED <<pc, held, over, since, raced, quiet>>
  BY DEF ghosts
<1>5. Own'
  BY <1>1, <1>2, <1>4 DEF Own
<1>6. Met' /\ Fresh'
  <2>1. \A x \in Sessions : Banning(x)' <=> Banning(x)
    BY <1>4 DEF Banning
  <2>2. \A x \in Sessions : Banning(x) => x \in over
    BY <1>1 DEF Met
  <2>3. QED
    BY <1>4, <2>1, <2>2 DEF Met, Fresh
<1>7. Loaded'
  BY DEF Loaded, NextKey
<1>8. Last'
  <2> SUFFICES ASSUME NEW i \in IPs, Lasting(i)
               PROVE  /\ stats'[i] # NoRecord /\ heap'[stats'[i]].banned
                      /\ heap'[stats'[i]].bannedAge <= since[i]
                      /\ heap'[stats'[i]].beat <= quiet[i]
    BY <1>4 DEF Last, Lasting
  <2>1. /\ stats[i] # NoRecord /\ heap[stats[i]].banned
        /\ heap[stats[i]].bannedAge <= since[i] /\ heap[stats[i]].beat <= quiet[i]
    BY <1>1 DEF Last
  <2>2. stats[i] \in Live /\ heap[stats[i]] \in Stats
    BY <2>1, LiveRecords
  <2>3. stats'[i] = stats[i] /\ h[stats[i]] = heap[stats[i]]
    <3>1. CASE i # key
      BY <1>1, <1>3, <2>1, <2>2, <3>1 DEF RefsType, Own
    <3>2. CASE i = key
      <4>1. pass.at # "cas"
        BY <1>1, <3>2 DEF Loaded
      <4>2. ~ Idle(key)
        <5>1. /\ heap[stats[i]].beat \in Int /\ quiet[i] \in Int /\ Interval \in Int
              /\ quiet[i] < Interval
          BY <2>2, TypeParts, PolicyAssumption DEF Stats, RestType, Lasting
        <5>2. ~ (heap[stats[i]].beat >= Interval)
          BY <2>1, <5>1
        <5>3. QED
          BY <3>2, <5>2 DEF Idle
      <4>3. QED
        BY <4>1, <4>2
    <3>3. QED
      BY <3>1, <3>2
  <2>4. QED
    BY <1>2, <2>1, <2>3
<1>9. QED
  BY <1>5, <1>6, <1>7, <1>8 DEF IInv

\* The reset pass keeps the invariant.
LEMMA PassInv ==
  ASSUME TypeOK, IInv, PassStep
  PROVE  IInv'
<1> DEFINE key == pass.key
<1>1. Own /\ Met /\ Fresh /\ Last /\ Loaded /\ RefsType
  BY TypeParts DEF IInv
<1>2. /\ pass.at \in {"load", "store", "cas"} /\ UNCHANGED <<pc, over>> /\ UNCHANGED ghosts
      /\ UNCHANGED <<since, raced, quiet>>
  BY DEF PassStep, LoadTimes, ClearBannedAt, DropBan, ghosts
<1>3. /\ key \in IPs /\ stats[key] \in Live /\ stats[key] # NoRecord
      /\ DOMAIN heap = Live /\ \A r \in Live : heap[r] \in Stats
  BY <1>2, TypeParts, LiveRecords DEF Passes, Known, HeapType
<1>4. pass \in [at : {"load", "store", "cas"}, key : Known, todo : SUBSET Known]
  BY <1>2, TypeParts DEF Passes
<1>5. UNCHANGED <<stats, held>> => Own'
  BY <1>1 DEF Own
<1>6. UNCHANGED held /\ pass'.at # "idle" => Met' /\ Fresh'
  <2>1. \A x \in Sessions : (Banning(x)' <=> Banning(x)) /\ (Banning(x) => x \in over)
    BY <1>1, <1>2 DEF Banning, Met
  <2>2. QED
    BY <1>2, <2>1 DEF Met, Fresh
<1>7. CASE LoadTimes /\ Expired(key)
  <2>1. pass' = [pass EXCEPT !.at = "store"] /\ UNCHANGED <<heap, stats, held>>
    BY <1>7 DEF LoadTimes
  <2>2. pass'.at = "store" /\ pass'.key = key
    BY <1>4, <2>1
  <2>3. Last'
    BY <1>1, <1>2, <2>1 DEF Last, Lasting
  <2>4. Loaded'
    <3>1. SUFFICES ASSUME Lasting(key) PROVE FALSE
      BY <1>2, <2>2 DEF Loaded, Lasting
    <3>2. heap[stats[key]].bannedAge <= since[key] /\ heap[stats[key]].bannedAge >= Timeout
      BY <1>1, <1>3, <1>7, <3>1 DEF Last, Expired
    <3>3. since[key] \in Int /\ heap[stats[key]].bannedAge \in Int /\ Timeout \in Int
      BY <1>3, TypeParts, PolicyAssumption DEF RestType, Stats
    <3>4. QED
      BY <3>1, <3>2, <3>3 DEF Lasting
  <2>5. QED
    BY <1>5, <1>6, <2>1, <2>2, <2>3, <2>4 DEF IInv
<1>8. CASE LoadTimes /\ ~ Expired(key)
  <2>1. DropIdle(key) /\ NextKey
    BY <1>8 DEF LoadTimes
  <2>2. QED
    BY <1>2, <1>3, <2>1, DropInv DEF DropIdle
<1>9. CASE ClearBannedAt
  <2>1. /\ pass.at = "store" /\ pass' = [pass EXCEPT !.at = "cas"]
        /\ heap' = [heap EXCEPT ![stats[key]].bannedAge = Timeout]
        /\ UNCHANGED <<stats, held>>
    BY <1>9 DEF ClearBannedAt
  <2>2. pass'.at = "cas" /\ pass'.key = key
    BY <1>4, <2>1
  <2>3. Loaded'
    BY <1>1, <1>2, <2>1, <2>2 DEF Loaded, Lasting
  <2>4. Last'
    <3> SUFFICES ASSUME NEW i \in IPs, Lasting(i)
                 PROVE  /\ stats[i] # NoRecord /\ heap'[stats[i]].banned
                        /\ heap'[stats[i]].bannedAge <= since[i]
                        /\ heap'[stats[i]].beat <= quiet[i]
      BY <1>2, <2>1 DEF Last, Lasting
    <3>1. /\ stats[i] # NoRecord /\ heap[stats[i]].banned
          /\ heap[stats[i]].bannedAge <= since[i] /\ heap[stats[i]].beat <= quiet[i]
      BY <1>1 DEF Last
    <3>2. i # key
      BY <1>1, <2>1 DEF Loaded
    <3>3. stats[i] # stats[key] /\ stats[i] \in Live
      BY <1>1, <1>3, <3>1, <3>2, LiveRecords DEF Own
    <3>4. heap'[stats[i]] = heap[stats[i]]
      BY <1>3, <2>1, <3>3
    <3>5. QED
      BY <3>1, <3>4
  <2>5. QED
    BY <1>5, <1>6, <2>1, <2>2, <2>3, <2>4 DEF IInv
<1>10. CASE DropBan
  <2> DEFINE h == [heap EXCEPT ![stats[key]].banned = FALSE]
  <2>1. /\ pass.at = "cas" /\ NextKey /\ UNCHANGED held /\ Keep(h)
        /\ stats' \in {stats, [stats EXCEPT ![key] = NoRecord]}
    BY <1>10 DEF DropBan
  <2>2. /\ \A r \in Live : h[r] \in Stats
        /\ \A r \in Live : r # stats[key] => h[r] = heap[r]
    BY <1>3, SetField
  <2> HIDE DEF h
  <2>3. QED
    BY <1>2, <2>1, <2>2, DropInv
<1>11. QED
  BY <1>7, <1>8, <1>9, <1>10 DEF PassStep

\* The passing of time keeps the invariant: it stops for a ban and a pass.
LEMMA TickInv ==
  ASSUME TypeOK, IInv, Tick
  PROVE  IInv'
<1>1. Own /\ Last
  BY DEF IInv
<1>2. /\ heap' = [r \in DOMAIN heap |->
           [heap[r] EXCEPT !.beat = Older(@, Interval), !.bannedAge = Older(@, Timeout)]]
      /\ since' = [ip \in IPs |-> Older(since[ip], Timeout)]
      /\ raced' = [ip \in IPs |-> raced[ip] /\ since'[ip] < Timeout]
      /\ quiet' = [ip \in IPs |->
           IF since'[ip] < Timeout THEN Older(quiet[ip], Interval) ELSE Interval]
      /\ UNCHANGED <<stats, pc, held, pass, over>>
      /\ pass.at = "idle" /\ \A x \in Sessions : ~ Banning(x)
  BY DEF Tick, timer
<1>3. Own' /\ Met' /\ Fresh' /\ Loaded'
  BY <1>1, <1>2 DEF Own, Met, Fresh, Loaded, Banning
<1>4. Last'
  <2> SUFFICES ASSUME NEW i \in IPs, since'[i] < Timeout, quiet'[i] < Interval, ~ raced'[i]
               PROVE  /\ stats[i] # NoRecord /\ heap'[stats[i]].banned
                      /\ heap'[stats[i]].bannedAge <= since'[i]
                      /\ heap'[stats[i]].beat <= quiet'[i]
    BY <1>2 DEF Last, Lasting
  <2>1. /\ since[i] \in 0 .. Timeout /\ Timeout \in Nat /\ Interval \in Nat
        /\ quiet[i] \in 0 .. Interval
    BY TypeParts, PolicyAssumption DEF RestType
  <2>2. /\ since'[i] = since[i] + 1 /\ since[i] < Timeout /\ ~ raced[i]
        /\ quiet'[i] = quiet[i] + 1 /\ quiet[i] < Interval
    BY <1>2, <2>1 DEF Older
  <2>3. /\ stats[i] # NoRecord /\ heap[stats[i]].banned
        /\ heap[stats[i]].bannedAge <= since[i] /\ heap[stats[i]].beat <= quiet[i]
    BY <1>1, <2>2 DEF Last, Lasting
  <2>4. stats[i] \in DOMAIN heap /\ heap[stats[i]] \in Stats
    BY <2>3, LiveRecords DEF TypeOK
  <2>5. ASSUME NEW s \in Stats
        PROVE  LET t == [s EXCEPT !.beat = Older(@, Interval), !.bannedAge = Older(@, Timeout)]
               IN t.banned = s.banned /\ t.beat <= s.beat + 1 /\ t.bannedAge <= s.bannedAge + 1
    <3>1. s.beat \in Int /\ s.bannedAge \in Int
      BY <2>1, <2>5 DEF Stats
    <3>2. Older(s.beat, Interval) <= s.beat + 1 /\ Older(s.bannedAge, Timeout) <= s.bannedAge + 1
      BY <3>1 DEF Older
    <3>3. QED
      BY <2>5, <3>2 DEF Stats
  <2>6. heap[stats[i]].beat \in Int /\ heap[stats[i]].bannedAge \in Int
    BY <2>1, <2>4 DEF Stats
  <2>7. /\ heap'[stats[i]].banned = heap[stats[i]].banned
        /\ heap'[stats[i]].beat <= heap[stats[i]].beat + 1
        /\ heap'[stats[i]].bannedAge <= heap[stats[i]].bannedAge + 1
    BY <1>2, <2>4, <2>5
  <2>8. heap'[stats[i]].beat \in Int /\ heap'[stats[i]].bannedAge \in Int
    <3>1. HeapType' /\ stats'[i] = stats[i] /\ stats'[i] \in Live'
      BY <1>2, <2>3, TickType, TypePartsNext DEF Live
    <3>2. heap'[stats[i]] \in Stats
      BY <3>1 DEF HeapType
    <3>3. QED
      BY <2>1, <3>2 DEF Stats
  <2>9. QED
    <3> DEFINE b == heap[stats[i]].beat
               c == heap'[stats[i]].beat
               d == heap[stats[i]].bannedAge
               e == heap'[stats[i]].bannedAge
    <3>1. heap'[stats[i]].banned /\ stats[i] # NoRecord
      BY <2>3, <2>7
    <3>2. b \in Int /\ c \in Int /\ d \in Int /\ e \in Int /\ c <= b + 1 /\ e <= d + 1
          /\ b <= quiet[i] /\ d <= since[i]
      BY <2>3, <2>6, <2>7, <2>8
    <3> HIDE DEF b, c, d, e
    <3>3. c <= quiet'[i] /\ e <= since'[i]
      BY <2>1, <2>2, <3>2
    <3>4. QED
      BY <3>1, <3>3 DEF c, e
<1>5. QED
  BY <1>3, <1>4 DEF IInv

\* Every step keeps the invariant.
LEMMA InvStep ==
  ASSUME TypeOK, IInv, [Next]_vars
  PROVE  IInv'
<1>1. Own /\ Met /\ Fresh /\ Last /\ Loaded /\ RefsType
  BY TypeParts DEF IInv
<1>2. ASSUME UNCHANGED <<heap, stats, held, pass, over, since, raced, quiet>>,
             \A x \in Sessions : /\ Banning(x)' <=> Banning(x)
                                 /\ pc'[x] = "cas" <=> pc[x] = "cas"
      PROVE  IInv'
  <2>1. Own' /\ Met' /\ Last' /\ Loaded'
    BY <1>1, <1>2 DEF Own, Met, Last, Loaded, Lasting
  <2>2. Fresh'
    BY <1>1, <1>2 DEF Fresh
  <2>3. QED
    BY <2>1, <2>2 DEF IInv
<1>3. CASE UNCHANGED vars
  BY <1>2, <1>3 DEF vars, ghosts, timer, Banning
<1>4. ASSUME NEW x \in Sessions, Moves(x)
      PROVE  IInv'
  <2>1. PICK label \in {"open", "closed"} : pc' = [pc EXCEPT ![x] = label]
    BY <1>4 DEF Moves, Goto
  <2>2. \A y \in Sessions : /\ Banning(y)' <=> Banning(y)
                            /\ pc'[y] = "cas" <=> pc[y] = "cas"
    BY <1>1, <1>4, <2>1 DEF Moves, Banning, RefsType
  <2>3. QED
    BY <1>2, <1>4, <2>2 DEF Moves, ghosts, timer
<1>5. ASSUME NEW x \in Sessions, SendBan(x)
      PROVE  IInv'
  <2>1. \A y \in Sessions : /\ Banning(y)' <=> Banning(y)
                            /\ pc'[y] = "cas" <=> pc[y] = "cas"
    BY <1>1, <1>5 DEF SendBan, Goto, Banning, RefsType
  <2>2. QED
    BY <1>2, <1>5, <2>1 DEF SendBan, ghosts, timer
<1>6. CASE DoBan \/ RefreshState
  BY <1>2, <1>6 DEF DoBan, RefreshState, Banning, ghosts, timer
<1>7. CASE ResetStats
  <2>1. PICK ip \in Known : pass' = [at |-> "load", key |-> ip, todo |-> Known \ {ip}]
    BY <1>7 DEF ResetStats
  <2>2. /\ over' = {x \in Sessions : Banning(x)}
        /\ UNCHANGED <<heap, stats, pc, held, since, raced, quiet>>
    BY <1>7 DEF ResetStats, ghosts
  <2>3. QED
    BY <1>1, <2>1, <2>2 DEF IInv, Own, Met, Fresh, Last, Loaded, Lasting, Banning
<1>8. QED
  BY <1>3, <1>4, <1>5, <1>6, <1>7, SessionSteps, CountsInv, ForceInv, SwapInv, PassInv, TickInv
    DEF Next, Handler

\* The inductive invariant: who owns a record, and what a ban and a pass under
\* way know of it.
THEOREM Invariance == Spec => []IInv
<1>1. Init => IInv
  <2> SUFFICES ASSUME Init PROVE IInv
    OBVIOUS
  <2>1. Own /\ Met /\ Fresh /\ Loaded
    BY DEF Init, Own, Met, Fresh, Loaded, Banning
  <2>2. Last
    BY PolicyAssumption DEF Init, Last, Lasting
  <2>3. QED
    BY <2>1, <2>2 DEF IInv
<1>2. TypeOK /\ IInv /\ [Next]_vars => IInv'
  BY InvStep
<1>3. QED
  BY <1>1, <1>2, TypeCorrect, PTL DEF Spec

\* A ban stays until its timeout (policy.go:284-300), whatever the other sessions
\* of the IP, the reset passes (policy.go:117-139) and the refresh do, and whether
\* the timeout or the reset interval is longer, with the two exceptions of the
\* code: its call met a reset pass, or the IP has been quiet for the reset interval.
THEOREM BansLast == Spec => []BanLasts
<1>1. IInv => BanLasts
  BY DEF IInv, Last, Lasting, BanLasts, Banned
<1>2. QED
  BY <1>1, Invariance, PTL

-----------------------------------------------------------------------------
(* Who is banned *)

\* Counted and banned offences are those of sinners, and the copy of the
\* whitelist is the whitelist until a refresh has failed.
Just ==
  /\ ~ failed => whitelist = whitelisted
  /\ \A x \in Sessions :
       Banning(x) => /\ IP[x] \in sinners
                     /\ pc[x] = "cas" /\ IP[x] \in whitelisted => failed
  /\ \A ip \in IPs : stats[ip] # NoRecord =>
       /\ heap[stats[ip]].invalid > 0 => ip \in sinners
       /\ heap[stats[ip]].banned => ip \in sinners /\ (ip \in whitelisted => failed)

\* The records of the map keep what they have and lose counters at most.
LEMMA JustKept ==
  ASSUME TypeOK, Just, UNCHANGED <<lists, sinners>>,
         \A x \in Sessions : /\ Banning(x)' => Banning(x)
                             /\ pc'[x] = "cas" => pc[x] = "cas",
         \A i \in IPs : stats'[i] # NoRecord =>
           /\ stats'[i] = stats[i] /\ heap'[stats'[i]].invalid = heap[stats[i]].invalid
           /\ heap'[stats'[i]].banned => heap[stats[i]].banned
  PROVE  Just'
BY DEF Just, lists

\* A session that counts and goes on to ban has a sinner's counters.
LEMMA CountsJust ==
  ASSUME TypeOK, Own, Just, InvalidPercent # 0, NEW x \in Sessions, Counts(x)
  PROVE  Just'
<1> DEFINE ip == IP[x]
<1>1. PICK at \in {"closed", "accepted", "open"},
           label \in {"closed", "accepted", "open", "force"}, stat \in Stats :
        /\ Call(x, at, label, stat)
        /\ sinners' \in {sinners, sinners \cup {ip}}
        /\ stat.invalid > 0 => Get(ip).invalid > 0 \/ ip \in sinners'
        /\ label = "force" => ip \in sinners' \/ Get(ip).invalid > 0
  BY DEF Counts
<1>2. /\ ip \in IPs /\ pc' = [pc EXCEPT ![x] = label]
      /\ stats'[ip] = Ref(ip) /\ heap'[Ref(ip)] = stat
      /\ UNCHANGED <<whitelisted, whitelist, failed>>
  BY <1>1, CallDoes DEF lists
<1>3. /\ \A i \in IPs : stats[i] # NoRecord =>
           /\ heap'[stats[i]].banned = heap[stats[i]].banned
           /\ i # ip => heap'[stats[i]] = heap[stats[i]]
      /\ stats[ip] = NoRecord => ~ heap'[stats'[ip]].banned
      /\ stats[ip] # NoRecord => stats'[ip] = stats[ip]
      /\ \A i \in IPs : i # ip => stats'[i] = stats[i]
      /\ \A y \in Sessions : y # x => pc'[y] = pc[y]
      /\ pc'[x] # "cas"
  BY CountsDo
<1>4. sinners \subseteq sinners'
  BY <1>1
<1>5. Get(ip).invalid > 0 => ip \in sinners
  <2> DEFINE n == Get(ip).invalid
  <2>1. /\ stats[ip] = NoRecord => n = 0
        /\ stats[ip] # NoRecord => n = heap[stats[ip]].invalid
    BY <1>2, GetType
  <2>2. stats[ip] # NoRecord /\ heap[stats[ip]].invalid > 0 => ip \in sinners
    BY <1>2 DEF Just
  <2> HIDE DEF n
  <2>3. n > 0 => ip \in sinners
    BY <2>1, <2>2
  <2>4. QED
    BY <2>3 DEF n
<1>6. ASSUME NEW y \in Sessions, Banning(y)'
      PROVE  IP[y] \in sinners' /\ (pc'[y] = "cas" /\ IP[y] \in whitelisted => failed)
  <2>1. CASE y = x
    <3>1. label = "force"
      BY <1>2, <1>6, <2>1, TypeParts DEF Banning, RefsType
    <3>2. QED
      BY <1>1, <1>3, <1>4, <1>5, <2>1, <3>1
  <2>2. CASE y # x
    BY <1>3, <1>4, <1>6, <2>2 DEF Just, Banning
  <2>3. QED
    BY <2>1, <2>2
<1>7. ASSUME NEW i \in IPs, stats'[i] # NoRecord
      PROVE  /\ heap'[stats'[i]].invalid > 0 => i \in sinners'
             /\ heap'[stats'[i]].banned => i \in sinners' /\ (i \in whitelisted => failed)
  <2>1. CASE i = ip
    <3>1. heap'[stats'[i]].invalid > 0 => i \in sinners'
      BY <1>1, <1>2, <1>4, <1>5, <2>1
    <3>2. heap'[stats'[i]].banned => stats[i] # NoRecord /\ heap[stats[i]].banned
      BY <1>3, <2>1
    <3>3. QED
      BY <1>4, <3>1, <3>2 DEF Just
  <2>2. CASE i # ip
    BY <1>3, <1>4, <1>7, <2>2 DEF Just
  <2>3. QED
    BY <2>1, <2>2
<1>8. QED
  BY <1>2, <1>6, <1>7 DEF Just

\* The first step of forceBan bans nobody that a counter does not justify.
LEMMA ForceJust ==
  ASSUME TypeOK, Just, NEW x \in Sessions, ForceBan(x)
  PROVE  Just'
<1>1. RefsType /\ DOMAIN heap = Live /\ \A r \in Live : heap[r] \in Stats
  BY TypeParts DEF TypeOK
<1>2. pc[x] = "force" /\ Banning(x) /\ held[x] \in Live /\ UNCHANGED <<lists, sinners>>
  BY <1>1, LiveRecords DEF ForceBan, Banning, RefsType
<1>3. CASE IP[x] \in whitelist
  <2>1. Release(x, "closed", heap)
    BY <1>3 DEF ForceBan
  <2>2. /\ stats' = stats /\ pc' = [pc EXCEPT ![x] = "closed"]
        /\ \A i \in IPs : stats[i] # NoRecord => heap'[stats[i]] = heap[stats[i]]
    BY <1>1, <1>2, <2>1, ReleaseDoes
  <2>3. QED
    BY <1>1, <1>2, <2>2, JustKept DEF Banning, RefsType
<1>4. CASE IP[x] \notin whitelist
  <2>1. /\ pc' = [pc EXCEPT ![x] = "cas"] /\ stats' = stats
        /\ heap' = [heap EXCEPT ![held[x]].bannedAge = 0]
    BY <1>4 DEF ForceBan, Goto
  <2>2. ASSUME NEW s \in Stats
        PROVE  LET t == [s EXCEPT !.bannedAge = 0]
               IN t.banned = s.banned /\ t.invalid = s.invalid
    BY <2>2 DEF Stats
  <2>3. heap'[held[x]] = [heap[held[x]] EXCEPT !.bannedAge = 0]
    BY <1>1, <1>2, <2>1
  <2>4. \A r \in Live : r # held[x] => heap'[r] = heap[r]
    BY <1>1, <2>1
  <2>5. ASSUME NEW r \in Live
        PROVE  heap'[r].banned = heap[r].banned /\ heap'[r].invalid = heap[r].invalid
    <3>1. CASE r = held[x]
      BY <1>1, <1>2, <2>2, <2>3, <3>1
    <3>2. CASE r # held[x]
      BY <2>4, <2>5, <3>2
    <3>3. QED
      BY <3>1, <3>2
  <2>6. ASSUME NEW y \in Sessions, Banning(y)'
        PROVE  Banning(y) /\ (pc'[y] = "cas" => pc[y] = "cas" \/ y = x)
    BY <1>1, <1>2, <2>1, <2>6 DEF RefsType, Banning
  <2>7. IP[x] \in whitelisted => failed
    BY <1>4 DEF Just
  <2>8. QED
    BY <1>2, <2>1, <2>5, <2>6, <2>7, LiveRecords DEF Just, lists
<1>5. QED
  BY <1>3, <1>4

\* The swap of Banned bans nobody that a counter does not justify.
LEMMA SwapJust ==
  ASSUME TypeOK, Own, Just, NEW x \in Sessions, SwapBanned(x)
  PROVE  Just'
<1> DEFINE h == [heap EXCEPT ![held[x]].banned = TRUE]
           label == IF heap[held[x]].banned THEN "closed" ELSE "send"
<1>1. RefsType /\ DOMAIN heap = Live /\ \A r \in Live : heap[r] \in Stats
  BY TypeParts DEF TypeOK
<1>2. /\ pc[x] = "cas" /\ Banning(x) /\ held[x] \in Live /\ held[x] # NoRecord
      /\ UNCHANGED <<whitelisted, whitelist, failed, sinners>> /\ Release(x, label, h)
  BY <1>1, LiveRecords DEF SwapBanned, Banning, RefsType, lists
<1>3. \A r \in Live : h[r] \in Stats
  BY <1>2, SetField
<1>4. /\ h[held[x]].invalid = heap[held[x]].invalid
      /\ \A r \in Live : r # held[x] => h[r] = heap[r]
  <2>1. ASSUME NEW s \in Stats
        PROVE  [s EXCEPT !.banned = TRUE].invalid = s.invalid
    BY <2>1 DEF Stats
  <2>2. h[held[x]] = [heap[held[x]] EXCEPT !.banned = TRUE]
    BY <1>1, <1>2
  <2>3. \A r \in Live : r # held[x] => h[r] = heap[r]
    BY <1>1
  <2>4. QED
    BY <1>1, <1>2, <2>1, <2>2, <2>3
<1> HIDE DEF h
<1>5. label \in {"closed", "send"}
  OBVIOUS
<1> HIDE DEF label
<1>6. /\ stats' = stats /\ pc' = [pc EXCEPT ![x] = label]
      /\ \A i \in IPs : stats[i] # NoRecord => heap'[stats[i]] = h[stats[i]]
  BY <1>2, <1>3, <1>5, ReleaseDoes
<1>7. ASSUME NEW y \in Sessions
      PROVE  (Banning(y)' => Banning(y)) /\ (pc'[y] = "cas" => pc[y] = "cas")
  BY <1>1, <1>2, <1>5, <1>6 DEF Banning, RefsType
<1>8. IP[x] \in sinners /\ (IP[x] \in whitelisted => failed)
  BY <1>2 DEF Just
<1>9. ASSUME NEW i \in IPs, stats[i] # NoRecord
      PROVE  /\ heap'[stats[i]].invalid > 0 => i \in sinners
             /\ heap'[stats[i]].banned => i \in sinners /\ (i \in whitelisted => failed)
  <2>1. CASE stats[i] = held[x]
    <3>1. i = IP[x]
      BY <1>2, <2>1 DEF Own
    <3>2. QED
      BY <1>8, <3>1
  <2>2. CASE stats[i] # held[x]
    <3>1. heap'[stats[i]] = heap[stats[i]]
      BY <1>4, <1>6, <1>9, <2>2, LiveRecords
    <3>2. QED
      BY <1>9, <3>1 DEF Just
  <2>3. QED
    BY <2>1, <2>2
<1>10. QED
  BY <1>2, <1>6, <1>7, <1>9 DEF Just

\* The reset pass bans nobody and takes no justification away.
LEMMA PassJust ==
  ASSUME TypeOK, Own, Just, PassStep
  PROVE  Just'
<1> DEFINE key == pass.key
<1>1. /\ pass.at \in {"load", "store", "cas"} /\ UNCHANGED <<pc, over>>
      /\ UNCHANGED <<lists, sinners>>
  BY DEF PassStep, LoadTimes, ClearBannedAt, DropBan
<1>2. /\ stats[key] \in Live /\ DOMAIN heap = Live /\ \A r \in Live : heap[r] \in Stats
  BY <1>1, TypeParts, LiveRecords DEF Passes, Known, HeapType
<1>3. ASSUME NEW h, \A r \in Live : h[r] \in Stats, Keep(h), UNCHANGED held, NextKey,
             stats' \in {stats, [stats EXCEPT ![key] = NoRecord]},
             \A r \in Live : /\ h[r].invalid = heap[r].invalid
                             /\ h[r].banned => heap[r].banned
      PROVE  Just'
  <2>1. \A i \in IPs : stats'[i] # NoRecord =>
          stats'[i] = stats[i] /\ heap'[stats[i]] = h[stats[i]]
    BY <1>1, <1>3, DropIdleDoes
  <2>2. \A i \in IPs : stats'[i] # NoRecord =>
          /\ stats'[i] = stats[i] /\ heap'[stats'[i]].invalid = heap[stats[i]].invalid
          /\ heap'[stats'[i]].banned => heap[stats[i]].banned
    BY <1>3, <2>1, LiveRecords
  <2>3. QED
    BY <1>1, <2>2, JustKept DEF Banning
<1>4. CASE LoadTimes /\ Expired(key)
  <2>1. UNCHANGED <<heap, stats>>
    BY <1>4 DEF LoadTimes
  <2>2. QED
    BY <1>1, <2>1, JustKept DEF Banning
<1>5. CASE LoadTimes /\ ~ Expired(key)
  <2>1. DropIdle(key) /\ NextKey
    BY <1>5 DEF LoadTimes
  <2>2. QED
    BY <1>2, <1>3, <2>1 DEF DropIdle
<1>6. CASE ClearBannedAt
  <2>1. heap' = [heap EXCEPT ![stats[key]].bannedAge = Timeout] /\ UNCHANGED stats
    BY <1>6 DEF ClearBannedAt
  <2>2. ASSUME NEW r \in Live
        PROVE  heap'[r].banned = heap[r].banned /\ heap'[r].invalid = heap[r].invalid
    <3>1. ASSUME NEW s \in Stats
          PROVE  LET t == [s EXCEPT !.bannedAge = Timeout]
                 IN t.banned = s.banned /\ t.invalid = s.invalid
      BY <3>1 DEF Stats
    <3>2. heap'[stats[key]] = [heap[stats[key]] EXCEPT !.bannedAge = Timeout]
      BY <1>2, <2>1
    <3>3. CASE r = stats[key]
      BY <1>2, <3>1, <3>2, <3>3
    <3>4. CASE r # stats[key]
      BY <1>2, <2>1, <2>2, <3>4
    <3>5. QED
      BY <3>3, <3>4
  <2>3. QED
    BY <1>1, <2>1, <2>2, LiveRecords, JustKept DEF Banning
<1>7. CASE DropBan
  <2> DEFINE h == [heap EXCEPT ![stats[key]].banned = FALSE]
  <2>1. /\ NextKey /\ UNCHANGED held /\ Keep(h)
        /\ stats' \in {stats, [stats EXCEPT ![key] = NoRecord]}
    BY <1>7 DEF DropBan
  <2>2. \A r \in Live : h[r] \in Stats
    BY <1>2, SetField
  <2>3. ASSUME NEW r \in Live
        PROVE  h[r].invalid = heap[r].invalid /\ (h[r].banned => heap[r].banned)
    <3>1. ASSUME NEW s \in Stats
          PROVE  LET t == [s EXCEPT !.banned = FALSE]
                 IN ~ t.banned /\ t.invalid = s.invalid
      BY <3>1 DEF Stats
    <3>2. h[stats[key]] = [heap[stats[key]] EXCEPT !.banned = FALSE]
      BY <1>2
    <3>3. r # stats[key] => h[r] = heap[r]
      BY <1>2, <2>3
    <3> HIDE DEF h
    <3>4. QED
      BY <1>2, <3>1, <3>2, <3>3
  <2> HIDE DEF h
  <2>4. QED
    BY <1>3, <2>1, <2>2, <2>3
<1>8. QED
  BY <1>4, <1>5, <1>6, <1>7 DEF PassStep

\* Every step keeps bans and the way to them justified.
LEMMA JustStep ==
  ASSUME TypeOK, Own, Just, InvalidPercent # 0, [Next]_vars
  PROVE  Just'
<1>1. RefsType
  BY TypeParts
<1>2. ASSUME UNCHANGED <<heap, stats, lists, sinners>>,
             \A x \in Sessions : /\ Banning(x)' => Banning(x)
                                 /\ pc'[x] = "cas" => pc[x] = "cas"
      PROVE  Just'
  BY <1>2, JustKept
<1>3. CASE UNCHANGED vars
  BY <1>2, <1>3 DEF vars, Banning
<1>4. ASSUME NEW x \in Sessions, Moves(x)
      PROVE  Just'
  <2>1. PICK label \in {"open", "closed"} : pc' = [pc EXCEPT ![x] = label]
    BY <1>4 DEF Moves, Goto
  <2>2. QED
    BY <1>1, <1>2, <1>4, <2>1 DEF Moves, Banning, RefsType
<1>5. ASSUME NEW x \in Sessions, SendBan(x)
      PROVE  Just'
  BY <1>1, <1>2, <1>5 DEF SendBan, Goto, Banning, RefsType
<1>6. CASE DoBan \/ ResetStats
  BY <1>2, <1>6 DEF DoBan, ResetStats, Banning
<1>7. CASE RefreshState
  <2>1. /\ \/ whitelist' = whitelisted /\ UNCHANGED failed
           \/ whitelist' = {} /\ failed' = (whitelisted # {})
        /\ UNCHANGED <<whitelisted, heap, stats, pc, sinners>>
    BY <1>7 DEF RefreshState
  <2>2. /\ ~ failed' => whitelist' = whitelisted
        /\ \A ip \in whitelisted : failed => failed'
    <3>1. CASE whitelist' = whitelisted /\ UNCHANGED failed
      BY <3>1
    <3>2. CASE whitelist' = {} /\ failed' = (whitelisted # {})
      <4>1. failed' <=> whitelisted # {}
        BY <3>2
      <4>2. QED
        BY <3>2, <4>1
    <3>3. QED
      BY <2>1, <3>1, <3>2
  <2>3. QED
    BY <2>1, <2>2 DEF Just, Banning
<1>8. CASE Tick
  <2>1. /\ heap' = [r \in DOMAIN heap |->
             [heap[r] EXCEPT !.beat = Older(@, Interval), !.bannedAge = Older(@, Timeout)]]
        /\ UNCHANGED <<lists, stats, pc, sinners>>
    BY <1>8 DEF Tick
  <2>2. ASSUME NEW s \in Stats
        PROVE  LET t == [s EXCEPT !.beat = Older(@, Interval), !.bannedAge = Older(@, Timeout)]
               IN t.banned = s.banned /\ t.invalid = s.invalid
    BY <2>2 DEF Stats
  <2>3. DOMAIN heap = Live /\ \A r \in Live : heap[r] \in Stats
    BY DEF TypeOK
  <2>4. \A i \in IPs : stats[i] # NoRecord =>
          /\ heap'[stats[i]].banned = heap[stats[i]].banned
          /\ heap'[stats[i]].invalid = heap[stats[i]].invalid
    BY <2>1, <2>2, <2>3, LiveRecords
  <2>5. QED
    BY <2>1, <2>4, JustKept DEF Banning
<1>9. QED
  BY <1>3, <1>4, <1>5, <1>6, <1>7, <1>8, SessionSteps, CountsJust, ForceJust, SwapJust, PassJust
    DEF Next, Handler

\* No IP is banned that never sent anything wrong, and none of the whitelist is
\* while the list can be read (policy.go:226-258, 284-300), if the configured
\* percentage is not zero: with zero the check of the threshold bans everyone.
THEOREM BansAreJust ==
  ASSUME InvalidPercent # 0
  PROVE  Spec => []JustBans
<1>1. Init => Just
  BY DEF Init, Just, Banning
<1>2. TypeOK /\ IInv /\ Just /\ [Next]_vars => Just'
  BY JustStep DEF IInv
<1>3. Just => JustBans
  BY DEF Just, JustBans, Banned
<1>4. QED
  BY <1>1, <1>2, <1>3, TypeCorrect, Invariance, PTL DEF Spec

=============================================================================

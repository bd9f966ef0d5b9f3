---------------------------- MODULE ProxyProofs ------------------------------
(***************************************************************************)
(* Proofs about two machines of the proxy that share no state.             *)
(*                                                                         *)
(* The Stratum sessions (module Stratum): the accept channel counts the    *)
(* handlers, bcast keeps to its capacity, and no handler leaves its        *)
(* session behind but by a flood, for any number of sessions, places and   *)
(* templates.                                                              *)
(*                                                                         *)
(* The upstreams (module Upstream): a client is sick exactly when   *)
(* its failures say so, and a switch goes to the first upstream found      *)
(* alive, for any number of upstreams and any thresholds.                  *)
(***************************************************************************)
EXTENDS Stratum, Upstream, FiniteSetTheorems, TLAPS

-----------------------------------------------------------------------------
(* The invariant *)

Handlers == {x \in Sessions : Served(x)}

HandlerType ==
  /\ pc \in [Sessions -> {"off", "accepted", "read", "register", "check", "fail"}]
  /\ places = Cardinality(Handlers) /\ places <= MaxConn

RegistryType == due \cup flooded \subseteq sessions /\ sessions \subseteq Sessions

CastsType ==
  /\ job \in 0 .. MaxJobs /\ sends \in [Broadcasts -> 0 .. MaxJobs]
  /\ at \in [Broadcasts -> {"off", "load", "lock", "loop"}]
  /\ todo \in [Broadcasts -> SUBSET Sessions]
  /\ push \in [Broadcasts -> [Sessions -> Removing .. MaxJobs]]
  /\ \A b \in Broadcasts : Cardinality(Outstanding(b)) <= BcastCap

\* Only a broadcast that holds the lock has sessions to visit, all registered,
\* and only templates that are stored have one.
LoopInv ==
  /\ \A b \in Broadcasts : todo[b] # {} => at[b] = "loop" /\ todo[b] \subseteq sessions
  /\ \A b \in Broadcasts : b > job => at[b] = "off"

ConnType == conn \in [Sessions -> {"up", "jammed", "down"}]

\* The inductive invariant of the sessions.
IInv == HandlerType /\ RegistryType /\ CastsType /\ LoopInv /\ ConnType /\ RegisteredIsServed

\* The invariant has the types.
LEMMA InvType == IInv => TypeOK
<1> SUFFICES ASSUME IInv PROVE TypeOK
  OBVIOUS
<1>1. todo \in [Broadcasts -> SUBSET sessions]
  BY DEF IInv, CastsType, LoopInv
<1>2. QED
  BY <1>1 DEF IInv, HandlerType, RegistryType, CastsType, ConnType, TypeOK, Handlers

-----------------------------------------------------------------------------
(* Counting *)

\* There are finitely many handlers, one more or one less when a session comes or goes.
LEMMA HandlersFinite ==
  /\ IsFiniteSet(Handlers) /\ Cardinality(Handlers) \in Nat
  /\ \A x \in Sessions \ Handlers : Cardinality(Handlers \cup {x}) = Cardinality(Handlers) + 1
  /\ \A x \in Handlers : Cardinality(Handlers \ {x}) = Cardinality(Handlers) - 1
<1>1. IsFiniteSet(Handlers)
  <2>1. Handlers \in SUBSET Sessions
    BY DEF Handlers
  <2>2. QED
    BY <2>1, StratumAssumption, FS_Subset
<1>2. QED
  BY <1>1, FS_CardinalityType, FS_AddElement, FS_RemoveElement

\* A session that stays in its handler, or out of it, changes no count.
LEMMA Stays ==
  ASSUME HandlerType, NEW x \in Sessions, UNCHANGED places,
         NEW label \in {"off", "accepted", "read", "register", "check", "fail"},
         pc' = [pc EXCEPT ![x] = label],
         Served(x) <=> label \notin {"off", "accepted"}
  PROVE  HandlerType' /\ \A y \in Sessions : Served(y)' <=> Served(y)
<1>1. \A y \in Sessions : Served(y)' <=> Served(y)
  BY DEF HandlerType, Served
<1>2. Handlers' = Handlers
  BY <1>1 DEF Handlers
<1>3. QED
  BY <1>1, <1>2 DEF HandlerType

\* A handler ends and gives its place back.
LEMMA Released ==
  ASSUME HandlerType, NEW x \in Sessions, Served(x), Release(x)
  PROVE  /\ HandlerType' /\ \A y \in Sessions : y # x => (Served(y)' <=> Served(y))
         /\ pc' = [pc EXCEPT ![x] = "off"]
<1>1. pc' = [pc EXCEPT ![x] = "off"] /\ places' = places - 1
  BY DEF Release, Goto
<1>2. \A y \in Sessions : Served(y)' <=> Served(y) /\ y # x
  BY <1>1 DEF HandlerType, Served
<1>3. Handlers' = Handlers \ {x} /\ x \in Handlers
  BY <1>2 DEF Handlers
<1>4. Cardinality(Handlers') = Cardinality(Handlers) - 1 /\ Cardinality(Handlers) \in Nat
  BY <1>3, HandlersFinite
<1>5. QED
  BY <1>1, <1>2, <1>4, StratumAssumption DEF HandlerType

\* A push that starts takes one number of bcast, and one that ends none.
LEMMA PushCount ==
  ASSUME CastsType, NEW b \in Broadcasts, NEW x \in Sessions, NEW n \in Removing .. MaxJobs,
         push' = [push EXCEPT ![b][x] = n],
         n <= None \/ Cardinality(Outstanding(b)) < BcastCap
  PROVE  /\ push' \in [Broadcasts -> [Sessions -> Removing .. MaxJobs]]
         /\ \A c \in Broadcasts : Cardinality(Outstanding(c)') <= BcastCap
<1>1. push \in [Broadcasts -> [Sessions -> Removing .. MaxJobs]]
  BY DEF CastsType
<1>2. push' \in [Broadcasts -> [Sessions -> Removing .. MaxJobs]]
  BY <1>1
<1>3. /\ \A c \in Broadcasts \ {b} : push'[c] = push[c]
      /\ push'[b][x] = n /\ \A y \in Sessions \ {x} : push'[b][y] = push[b][y]
  BY <1>1
<1>4. \A c \in Broadcasts : Outstanding(c) \in SUBSET Sessions
  BY DEF Outstanding
<1>5. ASSUME NEW c \in Broadcasts
      PROVE  IsFiniteSet(Outstanding(c)) /\ Cardinality(Outstanding(c)) \in Nat
  BY <1>4, StratumAssumption, FS_Subset, FS_CardinalityType
<1>6. ASSUME NEW c \in Broadcasts
      PROVE  Cardinality(Outstanding(c)') <= BcastCap
  <2>1. CASE c # b
    <3>1. Outstanding(c)' = Outstanding(c)
      BY <1>3, <2>1 DEF Outstanding
    <3>2. QED
      BY <3>1 DEF CastsType
  <2>2. CASE c = b /\ n <= None
    <3>1. Outstanding(c)' \in SUBSET Outstanding(c)
      BY <1>3, <2>2 DEF Outstanding, None, Removing
    <3>2. IsFiniteSet(Outstanding(c)') /\ Cardinality(Outstanding(c)') <= Cardinality(Outstanding(c))
      BY <1>5, <3>1, FS_Subset
    <3>3. Cardinality(Outstanding(c)') \in Nat /\ Cardinality(Outstanding(c)) <= BcastCap
      BY <3>2, FS_CardinalityType DEF CastsType
    <3>4. QED
      BY <1>5, <3>2, <3>3, StratumAssumption
  <2>3. CASE c = b /\ Cardinality(Outstanding(b)) < BcastCap
    <3> DEFINE S == Outstanding(b)
    <3>1. IsFiniteSet(S \cup {x}) /\ Cardinality(S \cup {x}) <= Cardinality(S) + 1
      <4>1. IsFiniteSet(S) /\ Cardinality(S) \in Nat
        BY <1>5
      <4> HIDE DEF S
      <4>2. /\ IsFiniteSet(S \cup {x})
            /\ \/ Cardinality(S \cup {x}) = Cardinality(S)
               \/ Cardinality(S \cup {x}) = Cardinality(S) + 1
        BY <4>1, FS_AddElement
      <4>3. QED
        BY <4>1, <4>2
    <3>2. Outstanding(c)' \in SUBSET (S \cup {x})
      BY <1>3, <2>3 DEF Outstanding
    <3>3. /\ IsFiniteSet(Outstanding(c)')
          /\ Cardinality(Outstanding(c)') <= Cardinality(S \cup {x})
      <4> HIDE DEF S
      <4>1. QED
        BY <3>1, <3>2, FS_Subset
    <3>4. Cardinality(Outstanding(c)') \in Nat /\ Cardinality(S \cup {x}) \in Nat
      BY <3>1, <3>3, FS_CardinalityType
    <3> HIDE DEF S
    <3>5. Cardinality(S) \in Nat /\ Cardinality(S) < BcastCap /\ BcastCap \in Nat
      BY <1>5, <2>3, StratumAssumption DEF S
    <3>6. QED
      BY <3>1, <3>3, <3>4, <3>5
  <2>4. QED
    BY <2>1, <2>2, <2>3
<1>7. QED
  BY <1>2, <1>6

-----------------------------------------------------------------------------
(* The steps *)

\* A session is removed while no broadcast holds the lock.
LEMMA Removed ==
  ASSUME RegistryType, LoopInv, CastsType, NEW x \in Sessions, RemoveSession(x),
         UNCHANGED <<job, at, todo>>
  PROVE  /\ RegistryType' /\ LoopInv'
         /\ sessions' = sessions \ {x} /\ flooded' = flooded \ {x}
<1>1. /\ sessions' = sessions \ {x} /\ due' = due \ {x} /\ flooded' = flooded \ {x}
      /\ \A b \in Broadcasts : at[b] # "loop"
  BY DEF RemoveSession, MayWrite, Readers
<1>2. \A b \in Broadcasts : todo[b] = {}
  BY <1>1 DEF LoopInv
<1>3. QED
  BY <1>1, <1>2 DEF RegistryType, LoopInv

\* Steps of a handler that leave the broadcasts alone.
LEMMA HandlerStep ==
  ASSUME IInv, NEW x \in Sessions, Peer(x) \/ Handler(x)
  PROVE  IInv'
<1>1. /\ HandlerType /\ RegistryType /\ CastsType /\ LoopInv /\ ConnType /\ RegisteredIsServed
      /\ pc \in [Sessions -> {"off", "accepted", "read", "register", "check", "fail"}]
  BY DEF IInv, HandlerType
<1>2. ASSUME UNCHANGED casts
      PROVE  CastsType' /\ UNCHANGED <<job, at, todo>>
  BY <1>1, <1>2 DEF casts, CastsType, Outstanding
<1>3. ASSUME UNCHANGED <<registry, casts>>
      PROVE  RegistryType' /\ CastsType' /\ LoopInv'
  BY <1>1, <1>2, <1>3 DEF registry, RegistryType, LoopInv, casts
<1>4. ASSUME NEW label \in {"off", "accepted", "read", "register", "check", "fail"},
             Goto(x, label), Served(x) <=> label \notin {"off", "accepted"},
             UNCHANGED places, UNCHANGED <<registry, casts>>, ConnType'
      PROVE  IInv'
  <2>1. HandlerType' /\ \A y \in Sessions : Served(y)' <=> Served(y)
    BY <1>1, <1>4, Stays DEF Goto
  <2>2. RegisteredIsServed'
    BY <1>1, <1>4, <2>1 DEF RegisteredIsServed, registry, RegistryType
  <2>3. QED
    BY <1>3, <1>4, <2>1, <2>2 DEF IInv
<1>5. CASE Accept(x)
  <2>1. ConnType'
    BY <1>1, <1>5 DEF Accept, ConnType
  <2>2. QED
    BY <1>4, <1>5, <2>1 DEF Accept, Served
<1>6. CASE Disturb(x)
  <2>1. ConnType' /\ UNCHANGED <<handler, registry, casts>>
    BY <1>1, <1>6 DEF Disturb, ConnType
  <2>2. HandlerType' /\ RegisteredIsServed'
    BY <1>1, <2>1 DEF handler, HandlerType, Handlers, Served, RegisteredIsServed, registry
  <2>3. QED
    BY <1>3, <2>1, <2>2 DEF IInv
<1>7. CASE Request(x) \/ ReadFails(x)
  <2>1. PICK label \in {"register", "check", "read", "fail"} : Goto(x, label)
    BY <1>7 DEF Request, ReadFails, Answered
  <2>2. Served(x) /\ UNCHANGED places /\ UNCHANGED <<conn, registry, casts>>
    BY <1>7 DEF Request, ReadFails, Served
  <2>3. QED
    BY <1>1, <1>4, <2>1, <2>2 DEF ConnType
<1>8. CASE Flood(x)
  <2>1. /\ Served(x) /\ Release(x) /\ flooded' = flooded \cup ({x} \cap sessions)
        /\ UNCHANGED <<conn, sessions, due, casts>>
    BY <1>8 DEF Flood, Served
  <2>2. HandlerType' /\ \A y \in Sessions : y # x => (Served(y)' <=> Served(y))
    BY <1>1, <2>1, Released
  <2>3. RegistryType' /\ CastsType' /\ LoopInv' /\ ConnType'
    BY <1>1, <1>2, <2>1 DEF RegistryType, LoopInv, ConnType
  <2>4. RegisteredIsServed'
    BY <1>1, <2>1, <2>2 DEF RegisteredIsServed, RegistryType
  <2>5. QED
    BY <2>2, <2>3, <2>4 DEF IInv
<1>9. CASE Start(x)
  <2>1. /\ pc[x] = "accepted" /\ places < MaxConn /\ places' = places + 1
        /\ pc' = [pc EXCEPT ![x] = "read"] /\ UNCHANGED <<conn, registry, casts>>
    BY <1>9 DEF Start, Goto
  <2>2. \A y \in Sessions : Served(y)' <=> Served(y) \/ y = x
    BY <1>1, <2>1 DEF Served
  <2>3. Handlers' = Handlers \cup {x} /\ x \in Sessions \ Handlers
    BY <2>1, <2>2 DEF Handlers, Served
  <2>4. Cardinality(Handlers') = Cardinality(Handlers) + 1 /\ Cardinality(Handlers) \in Nat
    BY <2>3, HandlersFinite
  <2>5. HandlerType'
    BY <1>1, <2>1, <2>4, StratumAssumption DEF HandlerType
  <2>6. RegisteredIsServed' /\ ConnType'
    BY <1>1, <2>1, <2>2 DEF RegisteredIsServed, registry, RegistryType, ConnType
  <2>7. QED
    BY <1>3, <2>1, <2>5, <2>6 DEF IInv
<1>10. CASE RegisterSession(x)
  <2>1. PICK label \in {"read", "fail"} : Goto(x, label)
    BY <1>10 DEF RegisterSession, Answered
  <2>2. /\ Served(x) /\ sessions' = sessions \cup {x}
        /\ UNCHANGED <<places, conn, due, flooded, casts>>
    BY <1>10 DEF RegisterSession, Served
  <2>3. HandlerType' /\ \A y \in Sessions : Served(y)' <=> Served(y)
    BY <1>1, <2>1, <2>2, Stays DEF Goto
  <2>4. RegistryType' /\ CastsType' /\ LoopInv' /\ ConnType'
    BY <1>1, <1>2, <2>2 DEF RegistryType, LoopInv, ConnType
  <2>5. RegisteredIsServed'
    BY <1>1, <2>2, <2>3 DEF RegisteredIsServed, RegistryType
  <2>6. QED
    BY <2>3, <2>4, <2>5 DEF IInv
<1>11. CASE CheckSession(x)
  <2>1. PICK label \in {"read", "fail"} : Goto(x, label)
    BY <1>11 DEF CheckSession, Answered
  <2>2. Served(x) /\ UNCHANGED places /\ UNCHANGED <<conn, registry, casts>>
    BY <1>11 DEF CheckSession, Served
  <2>3. QED
    BY <1>1, <1>4, <2>1, <2>2 DEF ConnType
<1>12. CASE Fail(x)
  <2>1. /\ Served(x) /\ RemoveSession(x) /\ Release(x)
        /\ conn' = [conn EXCEPT ![x] = "down"] /\ UNCHANGED casts
    BY <1>12 DEF Fail, Served
  <2>2. HandlerType' /\ \A y \in Sessions : y # x => (Served(y)' <=> Served(y))
    BY <1>1, <2>1, Released
  <2>3. /\ RegistryType' /\ LoopInv'
        /\ sessions' = sessions \ {x} /\ flooded' = flooded \ {x}
    BY <1>1, <1>2, <2>1, Removed
  <2>4. CastsType' /\ ConnType'
    BY <1>1, <1>2, <2>1 DEF ConnType
  <2>5. RegisteredIsServed'
    BY <1>1, <2>2, <2>3 DEF RegisteredIsServed, RegistryType
  <2>6. QED
    BY <2>2, <2>3, <2>4, <2>5 DEF IInv
<1>13. QED
  BY <1>5, <1>6, <1>7, <1>8, <1>9, <1>10, <1>11, <1>12 DEF Peer, Handler

\* Steps of the broadcasts, which leave the handlers alone.
LEMMA BroadcastStep ==
  ASSUME IInv,
         StoreTemplate \/ \E b \in Broadcasts : Broadcast(b) \/ \E x \in Sessions : Push(b, x)
  PROVE  IInv'
<1>1. HandlerType /\ RegistryType /\ CastsType /\ LoopInv /\ ConnType /\ RegisteredIsServed
  BY DEF IInv
<1>2. UNCHANGED <<handler, conn>>
  BY DEF StoreTemplate, Broadcast, LoadTemplate, LockSessions, StartPush, Unlock, Push,
    PushNewJob, RemovePushed
<1>3. HandlerType' /\ ConnType' /\ \A y \in Sessions : Served(y)' <=> Served(y)
  BY <1>1, <1>2 DEF handler, HandlerType, Handlers, Served, ConnType
<1>4. UNCHANGED <<sessions, flooded>> => RegisteredIsServed'
  BY <1>1, <1>3 DEF RegisteredIsServed, RegistryType
<1>5. UNCHANGED push => /\ push' \in [Broadcasts -> [Sessions -> Removing .. MaxJobs]]
                        /\ \A c \in Broadcasts : Cardinality(Outstanding(c)') <= BcastCap
  BY <1>1 DEF CastsType, Outstanding
<1>6. /\ at \in [Broadcasts -> {"off", "load", "lock", "loop"}]
      /\ sends \in [Broadcasts -> 0 .. MaxJobs] /\ todo \in [Broadcasts -> SUBSET Sessions]
      /\ job \in 0 .. MaxJobs /\ MaxJobs \in Nat
      /\ push \in [Broadcasts -> [Sessions -> Removing .. MaxJobs]]
  BY <1>1, StratumAssumption DEF CastsType
<1>7. CASE StoreTemplate
  <2>1. /\ job < MaxJobs /\ job' = job + 1 /\ due' = sessions
        /\ at' = [at EXCEPT ![job'] = "load"]
        /\ UNCHANGED <<sessions, flooded, sends, todo, push>>
    BY <1>7 DEF StoreTemplate
  <2>2. job' \in Broadcasts /\ job' \in 0 .. MaxJobs /\ job' > job
    BY <1>6, <2>1 DEF Broadcasts
  <2>3. CastsType'
    BY <1>5, <1>6, <2>1, <2>2 DEF CastsType
  <2>4. LoopInv'
    <3>1. todo[job'] = {}
      BY <1>1, <2>2 DEF LoopInv
    <3>2. \A b \in Broadcasts : b > job' => at'[b] = at[b] /\ b > job
      BY <1>6, <2>1, <2>2 DEF Broadcasts
    <3>3. QED
      BY <1>1, <1>6, <2>1, <3>1, <3>2 DEF LoopInv
  <2>5. QED
    BY <1>1, <1>3, <1>4, <2>1, <2>3, <2>4 DEF IInv, RegistryType
<1>8. ASSUME NEW b \in Broadcasts, LoadTemplate(b)
      PROVE  IInv'
  <2>1. /\ at[b] = "load" /\ UNCHANGED <<sessions, flooded, job, todo, push>>
        /\ \E label \in {"lock", "off"} : at' = [at EXCEPT ![b] = label]
        /\ sends' \in {sends, [sends EXCEPT ![b] = job]} /\ due' \in {due, {}}
    BY <1>8 DEF LoadTemplate, Current
  <2>2. CastsType'
    BY <1>5, <1>6, <2>1 DEF CastsType
  <2>3. LoopInv' /\ RegistryType'
    BY <1>1, <1>6, <2>1 DEF LoopInv, RegistryType
  <2>4. QED
    BY <1>3, <1>4, <2>1, <2>2, <2>3 DEF IInv
<1>9. ASSUME NEW b \in Broadcasts, LockSessions(b)
      PROVE  IInv'
  <2>1. /\ at[b] = "lock" /\ at' = [at EXCEPT ![b] = "loop"]
        /\ todo' = [todo EXCEPT ![b] = sessions]
        /\ UNCHANGED <<sessions, due, flooded, job, sends, push>>
    BY <1>9 DEF LockSessions, registry
  <2>2. CastsType'
    BY <1>1, <1>5, <1>6, <2>1 DEF CastsType, RegistryType
  <2>3. LoopInv' /\ RegistryType'
    BY <1>1, <1>6, <2>1 DEF LoopInv, RegistryType
  <2>4. QED
    BY <1>3, <1>4, <2>1, <2>2, <2>3 DEF IInv
<1>10. ASSUME NEW b \in Broadcasts, StartPush(b)
       PROVE  IInv'
  <2>1. PICK x \in todo[b] : /\ todo' = [todo EXCEPT ![b] = @ \ {x}]
                             /\ push' = [push EXCEPT ![b][x] = sends[b]]
    BY <1>10 DEF StartPush
  <2>2. /\ at[b] = "loop" /\ Cardinality(Outstanding(b)) < BcastCap
        /\ UNCHANGED <<sessions, due, flooded, job, at, sends>>
    BY <1>10 DEF StartPush, registry
  <2>3. x \in Sessions /\ sends[b] \in Removing .. MaxJobs
    BY <1>6, <2>1 DEF Removing
  <2>4. CastsType'
    BY <1>1, <1>6, <2>1, <2>2, <2>3, PushCount DEF CastsType
  <2>5. LoopInv' /\ RegistryType'
    BY <1>1, <1>6, <2>1, <2>2 DEF LoopInv, RegistryType
  <2>6. QED
    BY <1>3, <1>4, <2>2, <2>4, <2>5 DEF IInv
<1>11. ASSUME NEW b \in Broadcasts, Unlock(b)
       PROVE  IInv'
  <2>1. /\ at[b] = "loop" /\ todo[b] = {} /\ at' = [at EXCEPT ![b] = "off"]
        /\ sends' = [sends EXCEPT ![b] = 0]
        /\ UNCHANGED <<sessions, due, flooded, job, todo, push>>
    BY <1>11 DEF Unlock, registry
  <2>2. CastsType'
    BY <1>5, <1>6, <2>1 DEF CastsType
  <2>3. LoopInv' /\ RegistryType'
    BY <1>1, <1>6, <2>1 DEF LoopInv, RegistryType
  <2>4. QED
    BY <1>3, <1>4, <2>1, <2>2, <2>3 DEF IInv
<1>12. ASSUME NEW b \in Broadcasts, NEW x \in Sessions, PushNewJob(b, x)
       PROVE  IInv'
  <2>1. PICK n \in {None, Removing} : push' = [push EXCEPT ![b][x] = n]
    BY <1>12 DEF PushNewJob
  <2>2. due' \subseteq due /\ UNCHANGED <<sessions, flooded, job, at, sends, todo>>
    BY <1>12 DEF PushNewJob
  <2>3. n \in Removing .. MaxJobs /\ n <= None
    BY <1>6, <2>1 DEF None, Removing
  <2>4. CastsType'
    BY <1>1, <1>6, <2>1, <2>2, <2>3, PushCount DEF CastsType
  <2>5. LoopInv' /\ RegistryType'
    BY <1>1, <2>2 DEF LoopInv, RegistryType
  <2>6. QED
    BY <1>3, <1>4, <2>2, <2>4, <2>5 DEF IInv
<1>13. ASSUME NEW b \in Broadcasts, NEW x \in Sessions, RemovePushed(b, x)
       PROVE  IInv'
  <2>1. /\ RemoveSession(x) /\ push' = [push EXCEPT ![b][x] = None]
        /\ UNCHANGED <<job, at, sends, todo>>
    BY <1>13 DEF RemovePushed
  <2>2. None \in Removing .. MaxJobs /\ None <= None
    BY <1>6 DEF None, Removing
  <2>3. CastsType'
    BY <1>1, <1>6, <2>1, <2>2, PushCount DEF CastsType
  <2>4. /\ RegistryType' /\ LoopInv'
        /\ sessions' = sessions \ {x} /\ flooded' = flooded \ {x}
    BY <1>1, <2>1, Removed
  <2>5. RegisteredIsServed'
    BY <1>1, <1>3, <2>4 DEF RegisteredIsServed, RegistryType
  <2>6. QED
    BY <1>3, <2>3, <2>4, <2>5 DEF IInv
<1>14. QED
  BY <1>7, <1>8, <1>9, <1>10, <1>11, <1>12, <1>13 DEF Broadcast, Push

\* The inductive invariant: beside the types and RegisteredIsServed, that only
\* a broadcast that holds the lock has sessions still to visit.
THEOREM Invariance == Spec => []IInv
<1>1. Init => IInv
  <2> SUFFICES ASSUME Init PROVE IInv
    OBVIOUS
  <2>1. Handlers = {} /\ \A b \in Broadcasts : Outstanding(b) = {}
    BY DEF Init, Handlers, Served, Outstanding, None
  <2>2. HandlerType
    BY <2>1, FS_EmptySet, StratumAssumption DEF Init, HandlerType
  <2>3. CastsType
    <3>1. 0 \in 0 .. MaxJobs /\ None \in Removing .. MaxJobs /\ 0 <= BcastCap
      BY StratumAssumption DEF None, Removing
    <3>2. \A b \in Broadcasts : Cardinality(Outstanding(b)) <= BcastCap
      BY <2>1, <3>1, FS_EmptySet
    <3>3. QED
      BY <3>1, <3>2 DEF Init, CastsType
  <2>4. QED
    BY <2>2, <2>3 DEF Init, IInv, RegistryType, LoopInv, ConnType, RegisteredIsServed
<1>2. IInv /\ [Next]_vars => IInv'
  <2> SUFFICES ASSUME IInv, [Next]_vars PROVE IInv'
    OBVIOUS
  <2>1. CASE UNCHANGED vars
    BY <2>1 DEF vars, handler, registry, casts, IInv, HandlerType, Handlers, Served,
      RegistryType, CastsType, Outstanding, LoopInv, ConnType, RegisteredIsServed
  <2>2. QED
    BY <2>1, HandlerStep, BroadcastStep DEF Next
<1>3. QED
  BY <1>1, <1>2, PTL DEF Spec

\* The types: the accept channel (stratum.go:46-68) holds a number for every
\* handler that runs, bcast never more than its capacity (stratum.go:208-226),
\* and a broadcast has only registered sessions to visit.
THEOREM TypeCorrect == Spec => []TypeOK
BY InvType, Invariance, PTL

\* Whatever ends a handler leaves no session registered; only a flood does
\* (stratum.go:60-68, 72-103, 189-193).
THEOREM NoSessionIsLeftBehind == Spec => []RegisteredIsServed
<1>1. IInv => RegisteredIsServed
  BY DEF IInv
<1>2. QED
  BY <1>1, Invariance, PTL



-----------------------------------------------------------------------------
(* The choice of an upstream *)

\* What a loop that has found the upstreams in S alive has chosen.
First(S, i) == IF S = {} THEN i = 1 ELSE i \in S /\ \A p \in S : i <= p

\* The loop has found alive those it passed, and keeps the first of them.
Loop ==
  check # NotChecking =>
    /\ check.i \in Upstreams
    /\ \A p \in passed : p < check.i
    /\ check.backup <=> passed # {}
    /\ First(passed, check.candidate)

\* The loop at an upstream.
Positions ==
  [at : {"call", "mark", "ask"}, i : Upstreams, candidate : Upstreams, backup : BOOLEAN]

\* A smaller one than all others is the least.
LEMMA LeastIs ==
  ASSUME NEW S \in SUBSET Int, NEW m \in S, \A x \in S : m <= x
  PROVE  Min(S) = m
<1>1. \A x \in S : (\A y \in S : x <= y) => x = m
  OBVIOUS
<1>2. QED
  BY <1>1 DEF Min

\* The upstreams are numbered from one.
LEMMA UpstreamsAre ==
  /\ Upstreams \subseteq Nat /\ 1 \in Upstreams /\ N \in Upstreams
  /\ N \in Nat
  /\ \A i \in Upstreams : 1 <= i /\ i <= N /\ (i < N => i + 1 \in Upstreams)
BY UpstreamAssumption DEF Upstreams

\* The counters of the RPC clients.
Clients ==
  /\ sickRate \in [Upstreams -> 0 .. SickAfter]
  /\ successRate \in [Upstreams -> 0 .. AliveAfter - 1]
  /\ sick = [i \in Upstreams |-> sickRate[i] = SickAfter]

\* A failed call counts, up to the threshold at which the client is sick.
LEMMA MarkSickClients ==
  ASSUME Clients, NEW i \in Upstreams, MarkSick(i)
  PROVE  Clients'
<1> DEFINE rate == IF sickRate[i] < SickAfter THEN sickRate[i] + 1 ELSE SickAfter
<1>1. SickAfter \in Nat \ {0} /\ AliveAfter \in Nat \ {0}
  BY UpstreamAssumption
<1>2. sickRate[i] \in 0 .. SickAfter
  BY DEF Clients
<1>3. rate \in 0 .. SickAfter /\ (rate >= SickAfter <=> rate = SickAfter)
      /\ (sickRate[i] = SickAfter => rate = SickAfter)
  BY <1>1, <1>2
<1>4. /\ sickRate' = [sickRate EXCEPT ![i] = rate]
      /\ successRate' = [successRate EXCEPT ![i] = 0]
      /\ sick' = [sick EXCEPT ![i] = @ \/ rate >= SickAfter]
  BY DEF MarkSick
<1> HIDE DEF rate
<1>5. sickRate' \in [Upstreams -> 0 .. SickAfter]
  BY <1>3, <1>4 DEF Clients
<1>6. successRate' \in [Upstreams -> 0 .. AliveAfter - 1]
  BY <1>1, <1>4 DEF Clients
<1>7. sick' = [j \in Upstreams |-> sickRate'[j] = SickAfter]
  <2>1. sick'[i] = (rate = SickAfter) /\ sickRate'[i] = rate
    BY <1>3, <1>4 DEF Clients
  <2>2. \A j \in Upstreams : sick'[j] = (sickRate'[j] = SickAfter)
    BY <1>4, <2>1 DEF Clients
  <2>3. sick' = [j \in Upstreams |-> sick'[j]]
    BY <1>4 DEF Clients
  <2>4. QED
    BY <2>2, <2>3
<1>8. QED
  BY <1>5, <1>6, <1>7 DEF Clients

\* A good check counts, up to the threshold at which all is forgotten.
LEMMA MarkAliveClients ==
  ASSUME Clients, NEW i \in Upstreams, MarkAlive(i)
  PROVE  Clients'
<1>1. SickAfter \in Nat \ {0} /\ AliveAfter \in Nat \ {0}
  BY UpstreamAssumption
<1>2. successRate[i] \in 0 .. AliveAfter - 1
  BY DEF Clients
<1>3. CASE successRate[i] + 1 >= AliveAfter
  <2>1. /\ sick' = [sick EXCEPT ![i] = FALSE]
        /\ sickRate' = [sickRate EXCEPT ![i] = 0]
        /\ successRate' = [successRate EXCEPT ![i] = 0]
    BY <1>3 DEF MarkAlive
  <2>2. sickRate' \in [Upstreams -> 0 .. SickAfter]
    BY <1>1, <2>1 DEF Clients
  <2>3. successRate' \in [Upstreams -> 0 .. AliveAfter - 1]
    BY <1>1, <2>1 DEF Clients
  <2>4. \A j \in Upstreams : sick'[j] = (sickRate'[j] = SickAfter)
    BY <1>1, <2>1 DEF Clients
  <2>5. sick' = [j \in Upstreams |-> sick'[j]]
    BY <2>1 DEF Clients
  <2>6. sick' = [j \in Upstreams |-> sickRate'[j] = SickAfter]
    BY <2>4, <2>5
  <2>7. QED
    BY <2>2, <2>3, <2>6 DEF Clients
<1>4. CASE ~ (successRate[i] + 1 >= AliveAfter)
  <2>1. /\ successRate' = [successRate EXCEPT ![i] = @ + 1]
        /\ sick' = sick /\ sickRate' = sickRate
    BY <1>4 DEF MarkAlive
  <2>2. successRate[i] + 1 \in 0 .. AliveAfter - 1
    BY <1>1, <1>2, <1>4
  <2>3. successRate' \in [Upstreams -> 0 .. AliveAfter - 1]
    BY <2>1, <2>2 DEF Clients
  <2>4. QED
    BY <2>1, <2>3 DEF Clients
<1>5. QED
  BY <1>3, <1>4

\* The world, the process and its calls.
OtherTypes ==
  /\ node \in [Upstreams -> NodeStates] /\ redisUp \in BOOLEAN
  /\ process \in {"dead", "starting", "running"}
  /\ fetching \in Upstreams \cup {NoUpstream} /\ submitting \in Upstreams \cup {NoUpstream}
  /\ process = "starting" => fetching = 1
  /\ template \in Upstreams \cup {NoUpstream} /\ failsCount \in 0 .. MaxFails

\* The loop of checkUpstreams, and what it has chosen.
Choosing ==
  /\ upstream \in Upstreams /\ check \in Checks /\ passed \subseteq Upstreams
  /\ Loop

\* Another step for the same upstream.
LEMMA MoveOn ==
  ASSUME Choosing, check \in Positions, NEW to \in {"mark", "ask"},
         check' = [check EXCEPT !.at = to], UNCHANGED <<upstream, passed>>
  PROVE  Choosing'
<1>1. /\ check' \in Positions /\ check'.i = check.i /\ check'.backup = check.backup
      /\ check'.candidate = check.candidate
  BY DEF Positions
<1>2. check # NotChecking
  <2>1. check.at # "idle"
    BY DEF Positions
  <2>2. QED
    BY <2>1 DEF NotChecking
<1>3. QED
  BY <1>1, <1>2 DEF Choosing, Checks, Positions, Loop

\* The answer of one upstream: the choice stays the first, and becomes the
\* upstream after the last.
LEMMA CheckedLoop ==
  ASSUME Choosing, check # NotChecking, NEW alive \in BOOLEAN, Checked(alive)
  PROVE  /\ Choosing'
         /\ upstream' # upstream => upstream' = IF passed' = {} THEN 1 ELSE Min(passed')
<1> DEFINE c == Choice(alive)
<1>1. check \in Positions /\ check.i \in Upstreams /\ check.i \in Nat
  BY UpstreamsAre DEF Choosing, Checks, Positions
<1>2. /\ passed' = IF alive THEN passed \cup {check.i} ELSE passed
      /\ \A p \in passed : p \in Upstreams /\ p \in Nat /\ p < check.i
      /\ check.backup <=> passed # {}
      /\ First(passed, check.candidate)
  BY UpstreamsAre DEF Checked, Choosing, Loop
<1>3. \A p \in passed' : p \in Upstreams /\ p \in Nat /\ p <= check.i
  BY <1>1, <1>2
<1>4. /\ c \in Positions /\ c.i = check.i /\ (c.backup <=> passed' # {})
      /\ First(passed', c.candidate)
  <2>1. CASE alive /\ ~ check.backup
    <3>1. passed' = {check.i}
      BY <1>2, <2>1
    <3>2. c = [check EXCEPT !.candidate = check.i, !.backup = TRUE]
      BY <2>1 DEF Choice
    <3>3. /\ c \in Positions
          /\ c.i = check.i /\ c.backup = TRUE /\ c.candidate = check.i
      <4> HIDE DEF c
      <4>1. QED
        BY <1>1, <3>2 DEF Positions
    <3>4. First(passed', check.i)
      BY <1>1, <3>1 DEF First
    <3>5. QED
      BY <3>1, <3>3, <3>4
  <2>2. CASE ~ (alive /\ ~ check.backup)
    <3>1. c = check
      BY <2>2 DEF Choice
    <3>2. CASE ~ alive
      BY <1>1, <1>2, <3>1, <3>2
    <3>3. CASE alive
      <4>1. passed # {} /\ check.backup /\ passed' = passed \cup {check.i}
        BY <1>2, <2>2, <3>3
      <4>2. First(passed', check.candidate)
        BY <1>1, <1>2, <4>1 DEF First
      <4>3. QED
        BY <1>1, <3>1, <4>1, <4>2
    <3>4. QED
      BY <3>2, <3>3
  <2>3. QED
    BY <2>1, <2>2
<1>5. /\ check.i < N =>
           check' = [c EXCEPT !.at = "call", !.i = @ + 1] /\ upstream' = upstream
      /\ ~ (check.i < N) => check' = NotChecking /\ upstream' = c.candidate
  BY DEF Checked, Chosen
<1> HIDE DEF c
<1>6. CASE check.i < N
  <2>1. check.i + 1 \in Upstreams
    BY <1>1, <1>6, UpstreamsAre
  <2>2. /\ check' \in Positions
        /\ check'.i = check.i + 1 /\ check'.backup = c.backup
        /\ check'.candidate = c.candidate
    <3>1. check' = [at |-> "call", i |-> c.i + 1, candidate |-> c.candidate,
                    backup |-> c.backup]
      BY <1>4, <1>5, <1>6 DEF Positions
    <3>2. c.i + 1 = check.i + 1 /\ c.candidate \in Upstreams /\ c.backup \in BOOLEAN
      BY <1>4 DEF Positions
    <3>3. QED
      BY <2>1, <3>1, <3>2 DEF Positions
  <2>3. \A p \in passed' : p < check.i + 1
    BY <1>1, <1>3
  <2>4. check' \in Checks
    BY <2>2 DEF Checks, Positions
  <2>5. Loop'
    BY <1>4, <2>1, <2>2, <2>3 DEF Loop
  <2>6. QED
    BY <1>3, <1>5, <1>6, <2>4, <2>5 DEF Choosing
<1>7. CASE ~ (check.i < N)
  <2>1. check' = NotChecking /\ upstream' = c.candidate
    BY <1>5, <1>7
  <2>2. c.candidate \in Upstreams
    BY <1>4 DEF Positions
  <2>3. check' \in Checks /\ Loop'
    BY <2>1 DEF Checks, Loop
  <2>4. c.candidate = IF passed' = {} THEN 1 ELSE Min(passed')
    <3>1. CASE passed' = {}
      BY <1>4, <3>1 DEF First
    <3>2. CASE passed' # {}
      <4>1. passed' \in SUBSET Int
        BY <1>3
      <4>2. c.candidate \in passed' /\ \A p \in passed' : c.candidate <= p
        BY <1>4, <3>2 DEF First
      <4>3. QED
        BY <3>2, <4>1, <4>2, LeastIs
    <3>3. QED
      BY <3>1, <3>2
  <2>5. QED
    BY <1>3, <2>1, <2>2, <2>3, <2>4 DEF Choosing
<1>8. QED
  BY <1>6, <1>7

\* The process has begun, or has ended.
LEMMA FreshType ==
  ASSUME NEW state \in {"starting", "dead"}, Fresh(state)
  PROVE  Clients' /\ Choosing' /\ process' = state
         /\ fetching' \in Upstreams \cup {NoUpstream} /\ submitting' = NoUpstream
         /\ (process' = "starting" => fetching' = 1) /\ template' = NoUpstream /\ failsCount' = 0
<1>1. SickAfter \in Nat \ {0} /\ AliveAfter \in Nat \ {0} /\ 1 \in Upstreams
  BY UpstreamsAre, UpstreamAssumption
<1>2. Clients'
  <2>1. sickRate' \in [Upstreams -> 0 .. SickAfter] /\ \A i \in Upstreams : sickRate'[i] = 0
    BY <1>1 DEF Fresh
  <2>2. successRate' \in [Upstreams -> 0 .. AliveAfter - 1]
    BY <1>1 DEF Fresh
  <2>3. sick' = [i \in Upstreams |-> sickRate'[i] = SickAfter]
    BY <1>1, <2>1 DEF Fresh
  <2>4. QED
    BY <2>1, <2>2, <2>3 DEF Clients
<1>3. Choosing'
  BY <1>1 DEF Fresh, Choosing, Checks, Loop
<1>4. QED
  BY <1>1, <1>2, <1>3 DEF Fresh

\* The inductive invariant about the upstreams.
UpstreamInv == Clients /\ Choosing /\ OtherTypes

\* It holds of a proxy that starts.
LEMMA UpstreamStart ==
  ASSUME UpstreamInit
  PROVE  UpstreamInv
<1>1. /\ SickAfter \in Nat \ {0} /\ AliveAfter \in Nat \ {0} /\ 1 \in Upstreams
      /\ MaxFails \in Nat
  BY UpstreamsAre, UpstreamAssumption
<1>2. Clients
  <2>1. sickRate \in [Upstreams -> 0 .. SickAfter] /\ \A i \in Upstreams : sickRate[i] = 0
    BY <1>1 DEF UpstreamInit
  <2>2. successRate \in [Upstreams -> 0 .. AliveAfter - 1]
    BY <1>1 DEF UpstreamInit
  <2>3. sick = [i \in Upstreams |-> sickRate[i] = SickAfter]
    BY <1>1, <2>1 DEF UpstreamInit
  <2>4. QED
    BY <2>1, <2>2, <2>3 DEF Clients
<1>3. Choosing
  BY <1>1 DEF UpstreamInit, Choosing, Checks, Loop
<1>4. OtherTypes
  BY <1>1 DEF UpstreamInit, OtherTypes
<1>5. QED
  BY <1>2, <1>3, <1>4 DEF UpstreamInv

\* A switch goes to the first upstream that was found alive, or to the first.
Switch ==
  upstream' # upstream /\ process = process' =>
    upstream' = IF passed' = {} THEN 1 ELSE Min(passed')

\* The death of the process keeps the invariant, and starts with upstream 1.
LEMMA DeathStep ==
  ASSUME UpstreamInv, Die
  PROVE  UpstreamInv' /\ Switch
<1>1. Fresh("dead") /\ UNCHANGED world
  BY DEF Die
<1>2. UpstreamInv'
  <2>1. /\ Clients' /\ Choosing' /\ process' = "dead" /\ submitting' = NoUpstream
        /\ fetching' \in Upstreams \cup {NoUpstream} /\ template' = NoUpstream /\ failsCount' = 0
    BY <1>1, FreshType
  <2>2. QED
    BY <1>1, <2>1, UpstreamAssumption DEF UpstreamInv, OtherTypes, world
<1>3. Switch
  <2>1. upstream' = 1 /\ passed' = {}
    BY <1>1 DEF Fresh
  <2>2. QED
    BY <2>1 DEF Switch
<1>4. QED
  BY <1>2, <1>3

\* A step of a check keeps the invariant, and switches as it should.
LEMMA CheckStep ==
  ASSUME UpstreamInv, Check
  PROVE  UpstreamInv' /\ Switch
<1>1. check.at \in {"call", "mark", "ask"}
  BY DEF Check, CheckCall, CheckMark, CheckAsk
<1>2. CASE Die
  BY <1>2, DeathStep
<1>3. /\ check \in Positions /\ check.i \in Upstreams /\ check # NotChecking
      /\ Clients /\ Choosing /\ Loop
  <2>1. check # NotChecking
    BY <1>1 DEF NotChecking
  <2>2. QED
    BY <2>1 DEF UpstreamInv, Choosing, Checks, Positions
<1>4. CASE CheckCall /\ ~ Die
  <2>1. CheckReply(node[check.i]) /\ UNCHANGED <<world, process, calls, template, failsCount>>
    BY <1>4 DEF CheckCall
  <2>2. OtherTypes'
    BY <2>1 DEF OtherTypes, UpstreamInv, world, calls
  <2>3. CASE MarkSick(check.i) /\ Checked(FALSE)
    BY <1>3, <2>2, <2>3, MarkSickClients, CheckedLoop DEF UpstreamInv, Switch
  <2>4. CASE UNCHANGED clients /\ Checked(FALSE)
    <3>1. Clients'
      BY <1>3, <2>4 DEF Clients, clients
    <3>2. Choosing' /\ Switch
      BY <1>3, <2>4, CheckedLoop DEF Switch
    <3>3. QED
      BY <2>2, <3>1, <3>2 DEF UpstreamInv
  <2>5. CASE check' = [check EXCEPT !.at = "mark"] /\ UNCHANGED <<clients, upstream, passed>>
    <3>1. Clients'
      BY <1>3, <2>5 DEF Clients, clients
    <3>2. Choosing'
      BY <1>3, <2>5, MoveOn
    <3>3. QED
      BY <2>2, <2>5, <3>1, <3>2 DEF UpstreamInv, Switch
  <2>6. QED
    BY <2>1, <2>3, <2>4, <2>5 DEF CheckReply
<1>5. CASE CheckMark
  <2>1. /\ MarkAlive(check.i) /\ check' = [check EXCEPT !.at = "ask"]
        /\ UNCHANGED <<upstream, passed>>
        /\ UNCHANGED <<world, process, calls, template, failsCount>>
    BY <1>5 DEF CheckMark
  <2>2. Clients'
    BY <1>3, <2>1, MarkAliveClients
  <2>3. Choosing'
    BY <1>3, <2>1, MoveOn
  <2>4. OtherTypes'
    BY <2>1 DEF OtherTypes, UpstreamInv, world, calls
  <2>5. QED
    BY <2>1, <2>2, <2>3, <2>4 DEF UpstreamInv, Switch
<1>6. CASE CheckAsk
  <2>1. /\ Checked(~ sick[check.i]) /\ UNCHANGED clients
        /\ UNCHANGED <<world, process, calls, template, failsCount>>
    BY <1>6 DEF CheckAsk
  <2>2. sick[check.i] \in BOOLEAN
    BY <1>3 DEF Clients
  <2>3. Choosing' /\ Switch
    BY <1>3, <2>1, <2>2, CheckedLoop DEF Switch
  <2>4. Clients'
    BY <1>3, <2>1 DEF Clients, clients
  <2>5. OtherTypes'
    BY <2>1 DEF OtherTypes, UpstreamInv, world, calls
  <2>6. QED
    BY <2>3, <2>4, <2>5 DEF UpstreamInv
<1>7. QED
  BY <1>2, <1>4, <1>5, <1>6 DEF Check

\* So does every step: nothing but a check, a start or an end sets the upstream.
LEMMA UpstreamStep ==
  ASSUME UpstreamInv, [UpstreamNext]_upstreamVars
  PROVE  UpstreamInv' /\ Switch
<1> USE DEF world, clients, checking, calls
<1>1. Clients /\ Choosing /\ OtherTypes
  BY DEF UpstreamInv
<1>2. CASE Check
  BY <1>2, CheckStep
<1>3. CASE CheckTimer
  <2>1. /\ check' = [at |-> "call", i |-> 1, candidate |-> 1, backup |-> FALSE]
        /\ passed' = {} /\ UNCHANGED <<clients, upstream>>
        /\ UNCHANGED <<world, process, calls, template, failsCount>>
    BY <1>3 DEF CheckTimer
  <2>2. check' \in Positions /\ check'.i = 1 /\ check'.candidate = 1 /\ check'.backup = FALSE
    BY <2>1, UpstreamsAre DEF Positions
  <2>3. Choosing'
    BY <1>1, <2>1, <2>2, UpstreamsAre DEF Choosing, Checks, Positions, Loop, First
  <2>4. Clients' /\ OtherTypes'
    BY <1>1, <2>1 DEF Clients, OtherTypes
  <2>5. QED
    BY <2>1, <2>3, <2>4 DEF UpstreamInv, Switch
<1>4. CASE FetchBlockTemplate \/ SubmitBlock \/ StateUpdate \/ World \/ UNCHANGED upstreamVars
  <2>1. UNCHANGED <<clients, upstream, checking, process>>
    BY <1>4 DEF FetchBlockTemplate, SubmitBlock, StateUpdate, World, upstreamVars
  <2>2. Clients' /\ Choosing'
    BY <1>1, <2>1 DEF Clients, Choosing, Loop
  <2>3. OtherTypes'
    <3>1. CASE FetchBlockTemplate
      BY <1>1, <3>1 DEF FetchBlockTemplate, Running, OtherTypes, Choosing
    <3>2. CASE SubmitBlock
      BY <1>1, <3>2 DEF SubmitBlock, Running, OtherTypes, Choosing
    <3>3. CASE StateUpdate
      BY <1>1, <3>3, UpstreamAssumption DEF StateUpdate, Running, OtherTypes
    <3>4. CASE World
      BY <1>1, <3>4 DEF World, OtherTypes
    <3>5. CASE UNCHANGED upstreamVars
      BY <1>1, <3>5 DEF upstreamVars, OtherTypes
    <3>6. QED
      BY <1>4, <3>1, <3>2, <3>3, <3>4, <3>5
  <2>4. QED
    BY <2>1, <2>2, <2>3 DEF UpstreamInv, Switch
<1>5. CASE FetchReply
  <2>1. CASE Die
    BY <2>1, DeathStep
  <2>2. CASE ~ Die
    <3>1. /\ fetching # NoUpstream /\ fetching' = NoUpstream /\ process' = "running"
          /\ template' = (IF node[fetching] = "ok" THEN fetching ELSE template)
          /\ UNCHANGED <<world, clients, upstream, checking, submitting, failsCount>>
      BY <1>5, <2>2 DEF FetchReply
    <3>2. Clients' /\ Choosing' /\ OtherTypes'
      BY <1>1, <3>1 DEF Clients, Choosing, Loop, OtherTypes
    <3>3. QED
      BY <3>1, <3>2 DEF UpstreamInv, Switch
  <2>3. QED
    BY <2>1, <2>2
<1>6. CASE SubmitReply /\ Die
  BY <1>6, DeathStep
<1>7. CASE SubmitReply /\ ~ Die
  <2>1. /\ submitting # NoUpstream /\ submitting' = NoUpstream
        /\ UNCHANGED <<world, process, upstream, checking, fetching, template, failsCount>>
    BY <1>7 DEF SubmitReply
  <2>2. submitting \in Upstreams
    BY <1>1, <2>1 DEF OtherTypes
  <2>3. Clients'
    <3>1. CASE MarkSick(submitting)
      BY <1>1, <2>2, <3>1, MarkSickClients
    <3>2. CASE UNCHANGED clients
      BY <1>1, <3>2 DEF Clients
    <3>3. QED
      BY <1>7, <3>1, <3>2 DEF SubmitReply
  <2>4. Choosing' /\ OtherTypes'
    BY <1>1, <2>1 DEF Choosing, Loop, OtherTypes
  <2>5. QED
    BY <2>1, <2>3, <2>4 DEF UpstreamInv, Switch
<1>8. CASE Restart
  <2>1. process = "dead" /\ Fresh("starting") /\ UNCHANGED world
    BY <1>8 DEF Restart
  <2>2. UpstreamInv'
    BY <1>1, <2>1, FreshType, UpstreamAssumption DEF UpstreamInv, OtherTypes
  <2>3. QED
    BY <2>1, <2>2 DEF Fresh, Switch
<1>9. QED
  BY <1>2, <1>3, <1>4, <1>5, <1>6, <1>7, <1>8 DEF UpstreamNext

\* The invariant holds of every reachable state.
THEOREM UpstreamInvariance == UpstreamSpec => []UpstreamInv
<1>1. UpstreamInit => UpstreamInv
  BY UpstreamStart
<1>2. UpstreamInv /\ [UpstreamNext]_upstreamVars => UpstreamInv'
  BY UpstreamStep
<1>3. QED
  BY <1>1, <1>2, PTL DEF UpstreamSpec

\* Types, and clients that are sick exactly when they have failed often enough
\* (markSick and markAlive, rpc.go:455-474, in any order of calls).
THEOREM UpstreamTypes == UpstreamSpec => []UpstreamTypeOK
<1>1. UpstreamInv => UpstreamTypeOK
  BY DEF UpstreamInv, Clients, Choosing, OtherTypes, UpstreamTypeOK
<1>2. QED
  BY <1>1, UpstreamInvariance, PTL

\* checkUpstreams switches to the first upstream of the configuration that its
\* loop has found alive (proxy.go:164-179).
THEOREM TheFirstAliveIsTaken == UpstreamSpec => SwitchesToFirstAlive
<1>1. UpstreamInv /\ [UpstreamNext]_upstreamVars => [Switch]_upstreamVars
  BY UpstreamStep
<1>2. QED
  BY <1>1, UpstreamInvariance, PTL DEF UpstreamSpec, SwitchesToFirstAlive, Switch
=============================================================================

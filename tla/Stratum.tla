------------------------------ MODULE Stratum ------------------------------
(***************************************************************************)
(* The Stratum sessions of the proxy (src/proxy/stratum.go, handlers.go):  *)
(* the accept loop and its channel of places, one handler goroutine per    *)
(* connection, the map of registered sessions behind an RWMutex, and the   *)
(* goroutines that push a new job to every registered session.             *)
(*                                                                         *)
(* A write to a connection is one step, as Session.Lock makes it.          *)
(* Deadlines are steps that may come at any time and must come when        *)
(* nothing else can.  The policy and the shares are modules of their own:  *)
(* here they only decide between a result and an error.                    *)
(***************************************************************************)
EXTENDS Integers, FiniteSets

CONSTANTS
  Sessions,
  MaxConn,    \* capacity of the accept channel
  BcastCap,   \* capacity of bcast (1024 in the code)
  MaxJobs     \* bound of this model: templates that are stored

ASSUME StratumAssumption ==
  /\ IsFiniteSet(Sessions)
  /\ MaxConn \in Nat \ {0} /\ BcastCap \in Nat \ {0} /\ MaxJobs \in Nat

VARIABLES
  pc,         \* a session's place in the accept loop or its handler
  conn,       \* "up", "jammed" (the peer sends, and does not read) or "down"
  places,     \* the length of the accept channel
  sessions,   \* the registered sessions
  job,        \* the number of the newest template
  at,         \* at[b]: the place of the broadcast that template b has started
  sends,      \* sends[b]: the template it has loaded (0: none)
  todo,       \* todo[b]: the sessions its loop has still to visit
  push,       \* push[b][x]: the template its goroutine for session x writes,
              \* or that it must remove the session
  due,        \* sessions that the newest template has still to reach
  flooded     \* registered sessions that a flood has left without handler

handler == <<pc, places>>
registry == <<sessions, due, flooded>>
casts == <<job, at, sends, todo, push>>
vars == <<handler, conn, registry, casts>>

-----------------------------------------------------------------------------

Broadcasts == 1 .. MaxJobs

\* Places of a push goroutine that writes nothing.
None == 0
Removing == -1

Init ==
  /\ pc = [x \in Sessions |-> "off"] /\ conn = [x \in Sessions |-> "down"]
  /\ places = 0
  /\ sessions = {} /\ due = {} /\ flooded = {}
  /\ job = 0
  /\ at = [b \in Broadcasts |-> "off"] /\ sends = [b \in Broadcasts |-> 0]
  /\ todo = [b \in Broadcasts |-> {}]
  /\ push = [b \in Broadcasts |-> [x \in Sessions |-> None]]

Goto(x, label) == pc' = [pc EXCEPT ![x] = label]

(* sessionsMu.  A writer holds it for one step; a goroutine that has come to *)
(* such a step waits in Lock, and keeps new readers from joining others.     *)

Readers == {b \in Broadcasts : at[b] = "loop"}

Writers ==
  {x \in Sessions :
     pc[x] \in {"register", "fail"} \/ \E b \in Broadcasts : push[b][x] = Removing}

MayRead == Readers = {} \/ Writers = {}

MayWrite == Readers = {}

RemoveSession(x) ==
  /\ MayWrite
  /\ sessions' = sessions \ {x} /\ due' = due \ {x} /\ flooded' = flooded \ {x}

-----------------------------------------------------------------------------
(* The accept loop *)

\* A connection that the policy lets in.  A session is made: one whose name
\* nothing refers to any more.
Accept(x) ==
  /\ \A y \in Sessions : pc[y] # "accepted"
  /\ pc[x] = "off" /\ x \notin sessions
  /\ \A b \in Broadcasts : push[b][x] = None
  /\ Goto(x, "accepted") /\ conn' = [conn EXCEPT ![x] = "up"]
  /\ UNCHANGED <<places, registry, casts>>

\* accept <- n, and the goroutine.
Start(x) ==
  /\ pc[x] = "accepted" /\ places < MaxConn
  /\ places' = places + 1 /\ Goto(x, "read")
  /\ UNCHANGED <<conn, registry, casts>>

\* The peer stops to read, or goes.
Disturb(x) ==
  /\ pc[x] # "off" \/ x \in sessions
  /\ \/ conn[x] = "up" /\ conn' = [conn EXCEPT ![x] = "jammed"]
     \/ conn[x] # "down" /\ conn' = [conn EXCEPT ![x] = "down"]
  /\ UNCHANGED <<handler, registry, casts>>

-----------------------------------------------------------------------------
(* The handler of a session *)

\* sendTCPResult: where the handler goes on after its answer.
Answered(x) == IF conn[x] = "up" THEN "read" ELSE "fail"

\* Mutant of Release: only one that has failed gives its place back.
ReleaseFailed(x) ==
  /\ Goto(x, "off") /\ places' = IF pc[x] = "fail" THEN places - 1 ELSE places

\* <-accept, at the end of the handler.
Release(x) == Goto(x, "off") /\ places' = places - 1

\* A line is there: a login, a submission, or a request for work or of the
\* hashrate, whose answer is written at once; or one that is refused or cannot
\* be parsed, which ends the handler whether the error can be sent or not.
Request(x) ==
  /\ pc[x] = "read" /\ conn[x] # "down"
  /\ \E label \in {"register", "check", Answered(x), "fail"} : Goto(x, label)
  /\ UNCHANGED <<places, conn, registry, casts>>

\* A line longer than the buffer: the error is nil, so nobody removes the
\* session or closes its connection.
Flood(x) ==
  /\ pc[x] = "read" /\ conn[x] # "down" /\ Release(x)
  /\ flooded' = flooded \cup ({x} \cap sessions)
  /\ UNCHANGED <<conn, sessions, due, casts>>

\* A timeout, an error of the connection, or its end.
ReadFails(x) ==
  /\ pc[x] = "read" /\ Goto(x, "fail")
  /\ UNCHANGED <<places, conn, registry, casts>>

\* handleLoginRPC, with registerSession.
RegisterSession(x) ==
  /\ pc[x] = "register" /\ MayWrite /\ Goto(x, Answered(x))
  /\ sessions' = sessions \cup {x}
  /\ UNCHANGED <<places, conn, due, flooded, casts>>

\* handleTCPSubmitRPC: a session that is not registered is refused, and a share
\* may be.
CheckSession(x) ==
  /\ pc[x] = "check" /\ MayRead
  /\ \/ x \in sessions /\ Goto(x, Answered(x))
     \/ Goto(x, "fail")
  /\ UNCHANGED <<places, conn, registry, casts>>

\* Mutant of Fail: the end of a connection leaves the session registered.
EofStays(x) ==
  /\ pc[x] = "fail" /\ Release(x) /\ conn' = [conn EXCEPT ![x] = "down"]
  /\ IF conn[x] = "down" THEN UNCHANGED registry ELSE RemoveSession(x)
  /\ UNCHANGED casts

\* The session is removed, and the connection closed (at its end it is not, but
\* the peer has done so).
Fail(x) ==
  /\ pc[x] = "fail" /\ RemoveSession(x) /\ Release(x)
  /\ conn' = [conn EXCEPT ![x] = "down"]
  /\ UNCHANGED casts

-----------------------------------------------------------------------------
(* The broadcast of a job *)

\* fetchBlockTemplate stores a template and starts a broadcast.
StoreTemplate ==
  /\ job < MaxJobs /\ job' = job + 1 /\ due' = sessions
  /\ at' = [at EXCEPT ![job'] = "load"]
  /\ UNCHANGED <<handler, conn, sessions, flooded, sends, todo, push>>

\* Mutant of Current: the template the broadcast's fetch has replaced.
Replaced(b) == b - 1

\* The template a broadcast loads: the newest, not always its own.
Current(b) == job

\* The template is loaded, and a sick proxy broadcasts nothing.
LoadTemplate(b) ==
  /\ at[b] = "load"
  /\ \/ /\ at' = [at EXCEPT ![b] = "lock"] /\ UNCHANGED due
        /\ sends' = [sends EXCEPT ![b] = Current(b)]
     \/ at' = [at EXCEPT ![b] = "off"] /\ due' = {} /\ UNCHANGED sends
  /\ UNCHANGED <<handler, conn, sessions, flooded, job, todo, push>>

LockSessions(b) ==
  /\ at[b] = "lock" /\ MayRead
  /\ at' = [at EXCEPT ![b] = "loop"] /\ todo' = [todo EXCEPT ![b] = sessions]
  /\ UNCHANGED <<handler, conn, registry, job, sends, push>>

\* Mutant of Outstanding: a push goroutine removes a failed session first and
\* takes its number out of bcast afterwards.
OutstandingTillRemoved(b) == {x \in Sessions : push[b][x] # None}

\* The numbers in bcast: a push goroutine takes its own out after the write.
Outstanding(b) == {x \in Sessions : push[b][x] > None}

\* bcast <- n, and a goroutine for the next session.
StartPush(b) ==
  /\ at[b] = "loop" /\ Cardinality(Outstanding(b)) < BcastCap
  /\ \E x \in todo[b] :
       /\ todo' = [todo EXCEPT ![b] = @ \ {x}]
       /\ push' = [push EXCEPT ![b][x] = sends[b]]
  /\ UNCHANGED <<handler, conn, registry, job, at, sends>>

Unlock(b) ==
  /\ at[b] = "loop" /\ todo[b] = {}
  /\ at' = [at EXCEPT ![b] = "off"] /\ sends' = [sends EXCEPT ![b] = 0]
  /\ UNCHANGED <<handler, conn, registry, job, todo, push>>

\* pushNewJob, and <-bcast.
PushNewJob(b, x) ==
  /\ push[b][x] > None
  /\ push' = [push EXCEPT ![b][x] = IF conn[x] = "up" THEN None ELSE Removing]
  /\ due' = IF conn[x] = "up" /\ push[b][x] = job THEN due \ {x} ELSE due
  /\ UNCHANGED <<handler, conn, sessions, flooded, job, at, sends, todo>>

\* The push has failed: whatever its handler does, the session is removed.
RemovePushed(b, x) ==
  /\ push[b][x] = Removing
  /\ RemoveSession(x) /\ push' = [push EXCEPT ![b][x] = None]
  /\ UNCHANGED <<handler, conn, job, at, sends, todo>>

-----------------------------------------------------------------------------

\* What peers and the network do.
Peer(x) == Accept(x) \/ Disturb(x) \/ Request(x) \/ Flood(x) \/ ReadFails(x)

\* What the accept loop and the handler do without the peer.
Handler(x) ==
  \/ Start(x) \/ RegisterSession(x) \/ CheckSession(x) \/ Fail(x)

\* A read ends when the peer is gone, or is never answered.
Deadline(x) == conn[x] # "up" /\ ReadFails(x)

Broadcast(b) == LoadTemplate(b) \/ LockSessions(b) \/ StartPush(b) \/ Unlock(b)

Push(b, x) == PushNewJob(b, x) \/ RemovePushed(b, x)

Next ==
  \/ \E x \in Sessions : Peer(x) \/ Handler(x)
  \/ StoreTemplate
  \/ \E b \in Broadcasts : Broadcast(b) \/ \E x \in Sessions : Push(b, x)

Spec == Init /\ [][Next]_vars

\* Goroutines go on, and a read that gets nothing meets its deadline.
FairSpec ==
  /\ Spec
  /\ \A x \in Sessions : WF_vars(Handler(x)) /\ WF_vars(Deadline(x))
  /\ \A b \in Broadcasts :
       WF_vars(Broadcast(b)) /\ \A x \in Sessions : WF_vars(Push(b, x))

-----------------------------------------------------------------------------
(* Properties *)

Served(x) == pc[x] \notin {"off", "accepted"}

\* The types: in particular the accept channel holds one number for every
\* handler that runs, and a session is gone only when nothing refers to it.
TypeOK ==
  /\ pc \in [Sessions -> {"off", "accepted", "read", "register", "check", "fail"}]
  /\ conn \in [Sessions -> {"up", "jammed", "down"}]
  /\ places = Cardinality({x \in Sessions : Served(x)}) /\ places <= MaxConn
  /\ due \cup flooded \subseteq sessions /\ sessions \subseteq Sessions
  /\ job \in 0 .. MaxJobs /\ sends \in [Broadcasts -> 0 .. MaxJobs]
  /\ at \in [Broadcasts -> {"off", "load", "lock", "loop"}]
  /\ todo \in [Broadcasts -> SUBSET sessions]
  /\ push \in [Broadcasts -> [Sessions -> Removing .. MaxJobs]]
  /\ \A b \in Broadcasts : Cardinality(Outstanding(b)) <= BcastCap

\* Whatever ends a handler (an error, a timeout, the end of the connection, a
\* push that failed meanwhile), it leaves no session registered; only a flood does.
RegisteredIsServed == \A x \in sessions : Served(x) \/ x \in flooded

\* The handler of a connection that is gone ends and gives its place back: no
\* broadcast, full bcast or waiting removal holds it up for ever.
PlacesComeBack ==
  \A x \in Sessions : []<>~(Served(x) /\ conn[x] = "down")

\* Every session that is registered when a template is stored gets the newest
\* job or is removed, although broadcasts load their template later and run side
\* by side with others, with failing pushes and with the handlers.
EveryoneHears == \A x \in Sessions : []<>(x \notin due)

\* What a broadcast started earlier sends may come after the newest job.  (Does
\* not hold: nothing orders the pushes of two broadcasts to one session.)
NewestComesLast ==
  [][\A b \in Broadcasts, x \in Sessions :
       PushNewJob(b, x) /\ x \notin due /\ conn[x] = "up" => push[b][x] = job]_vars
=============================================================================

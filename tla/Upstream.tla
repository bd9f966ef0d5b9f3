------------------------------ MODULE Upstream ------------------------------
(***************************************************************************)
(* The nodes the proxy gets its work from: the health counters of the RPC  *)
(* clients (rpc.go), checkUpstreams and the proxy's own sick counter       *)
(* (proxy.go), and the fetches (blocks.go) and block submissions           *)
(* (miner.go) that use the chosen upstream.  Each of them runs in its own  *)
(* goroutine and picks the upstream before it calls the node.              *)
(*                                                                         *)
(* A node is "ok", "odd" (it answers without an error, but with no         *)
(* template: an empty list or header, or a result that does not decode),   *)
(* "null" (the result is the JSON null, whose decoding dereferences nil    *)
(* and panics) or "down" (the call or its reply is an error); it may       *)
(* change at any time.                                                     *)
(*                                                                         *)
(* What every module has a name for, as Init and Next, is named after the  *)
(* upstreams, so that a module may extend this one and Stratum.            *)
(***************************************************************************)
EXTENDS Integers, FiniteSets, FiniteSetsExt

CONSTANTS
  N,            \* upstreams of the configuration, in its order
  SickAfter,    \* failures that make a client sick (5 in the code)
  AliveAfter,   \* good checks that make it alive again (5 in the code)
  MaxFails      \* maxFails of the configuration

ASSUME UpstreamAssumption ==
  /\ N \in Nat \ {0} /\ SickAfter \in Nat \ {0} /\ AliveAfter \in Nat \ {0}
  /\ MaxFails \in Nat \ {0}

Upstreams == 1 .. N
NodeStates == {"ok", "odd", "null", "down"}
NoUpstream == 0

VARIABLES
  node, redisUp,                  \* the world
  process,                        \* "dead", "starting" or "running"
  sick, sickRate, successRate,    \* of each RPC client
  upstream,                       \* the chosen one
  check,                          \* the loop of checkUpstreams
  passed,                         \* upstreams whose Check has been true in it
  fetching, submitting,           \* the client a goroutine has picked
  template,                       \* the node the current template came from
  failsCount

world == <<node, redisUp>>
clients == <<sick, sickRate, successRate>>
checking == <<check, passed>>
calls == <<fetching, submitting>>
upstreamVars == <<world, process, clients, upstream, checking, calls, template, failsCount>>

NotChecking == [at |-> "idle"]

\* NewProxy: new clients, the first upstream, and a first fetch from it.
Fresh(state) ==
  /\ process' = state
  /\ sick' = [i \in Upstreams |-> FALSE]
  /\ sickRate' = [i \in Upstreams |-> 0] /\ successRate' = [i \in Upstreams |-> 0]
  /\ upstream' = 1 /\ check' = NotChecking /\ passed' = {}
  /\ fetching' = (IF state = "starting" THEN 1 ELSE NoUpstream) /\ submitting' = NoUpstream
  /\ template' = NoUpstream /\ failsCount' = 0

\* The process dies.
Die == Fresh("dead") /\ UNCHANGED world

UpstreamInit ==
  /\ node \in [Upstreams -> NodeStates] /\ redisUp \in BOOLEAN
  /\ process = "starting"
  /\ sick = [i \in Upstreams |-> FALSE]
  /\ sickRate = [i \in Upstreams |-> 0] /\ successRate = [i \in Upstreams |-> 0]
  /\ upstream = 1 /\ check = NotChecking /\ passed = {}
  /\ fetching = 1 /\ submitting = NoUpstream
  /\ template = NoUpstream /\ failsCount = 0

-----------------------------------------------------------------------------
(* The clients *)

\* Every failed call of doPost.  Only whether sickRate reaches SickAfter
\* matters.
MarkSick(i) ==
  LET rate == IF sickRate[i] < SickAfter THEN sickRate[i] + 1 ELSE SickAfter
  IN /\ sickRate' = [sickRate EXCEPT ![i] = rate]
     /\ successRate' = [successRate EXCEPT ![i] = 0]
     /\ sick' = [sick EXCEPT ![i] = @ \/ rate >= SickAfter]

\* Mutant of MarkAlive: the successes start again, the failures do not.
MarkAliveOnly(i) ==
  IF successRate[i] + 1 >= AliveAfter
  THEN /\ successRate' = [successRate EXCEPT ![i] = AliveAfter]
       /\ sick' = [sick EXCEPT ![i] = FALSE] /\ UNCHANGED sickRate
  ELSE /\ successRate' = [successRate EXCEPT ![i] = @ + 1]
       /\ UNCHANGED <<sick, sickRate>>

\* Every good check.
MarkAlive(i) ==
  IF successRate[i] + 1 >= AliveAfter
  THEN /\ sick' = [sick EXCEPT ![i] = FALSE]
       /\ sickRate' = [sickRate EXCEPT ![i] = 0]
       /\ successRate' = [successRate EXCEPT ![i] = 0]
  ELSE /\ successRate' = [successRate EXCEPT ![i] = @ + 1]
       /\ UNCHANGED <<sick, sickRate>>

-----------------------------------------------------------------------------
(* checkUpstreams *)

Running == process = "running"

CheckTimer ==
  /\ Running /\ check = NotChecking
  /\ check' = [at |-> "call", i |-> 1, candidate |-> 1, backup |-> FALSE]
  /\ passed' = {}
  /\ UNCHANGED <<world, process, clients, upstream, calls, template, failsCount>>

\* Mutant of Choice: the last upstream that answers wins.
ChoiceOfLast(alive) ==
  IF alive THEN [check EXCEPT !.candidate = check.i, !.backup = TRUE] ELSE check

\* The body of the loop, once Check has answered.
Choice(alive) ==
  IF alive /\ ~check.backup
  THEN [check EXCEPT !.candidate = check.i, !.backup = TRUE] ELSE check

\* Mutant of Chosen: the upstream stays while it answers.
ChosenSticky(choice) ==
  IF upstream \in passed' THEN upstream ELSE choice.candidate

\* The upstream after the loop.
Chosen(choice) == choice.candidate

\* Check of upstream check.i has answered: the next one, or the switch.
Checked(alive) ==
  LET c == Choice(alive)
  IN /\ passed' = IF alive THEN passed \cup {check.i} ELSE passed
     /\ IF check.i < N
        THEN check' = [c EXCEPT !.at = "call", !.i = @ + 1] /\ UNCHANGED upstream
        ELSE check' = NotChecking /\ upstream' = Chosen(c)

\* Check: GetWork.  Only doPost notes a failure: a result that does not decode
\* is an error to Check, and none to the client.
CheckReply(answer) ==
  \/ answer = "down" /\ MarkSick(check.i) /\ Checked(FALSE)
  \/ answer = "odd" /\ UNCHANGED clients /\ Checked(FALSE)
  \/ /\ answer \in {"ok", "odd"} /\ check' = [check EXCEPT !.at = "mark"]
     /\ UNCHANGED <<clients, upstream, passed>>

CheckCall ==
  /\ check.at = "call"
  /\ \/ node[check.i] = "null" /\ Die
     \/ /\ CheckReply(node[check.i])
        /\ UNCHANGED <<world, process, calls, template, failsCount>>

\* Check: markAlive, although another goroutine's call may have failed since.
CheckMark ==
  /\ check.at = "mark" /\ MarkAlive(check.i)
  /\ check' = [check EXCEPT !.at = "ask"]
  /\ UNCHANGED <<world, process, upstream, passed, calls, template, failsCount>>

\* Check: !Sick().
CheckAsk ==
  /\ check.at = "ask" /\ Checked(~sick[check.i])
  /\ UNCHANGED <<world, process, clients, calls, template, failsCount>>

-----------------------------------------------------------------------------
(* Work *)

\* The refresh timer, or a session whose block was taken.
FetchBlockTemplate ==
  /\ Running /\ fetching = NoUpstream /\ fetching' = upstream
  /\ UNCHANGED <<world, process, clients, upstream, checking, submitting, template, failsCount>>

\* A failed GetWork returns no reply, and reply[8] panics before the error is
\* looked at; so does an odd one of less than nine strings.  A longer one
\* without a header, or with an error, is left alone.  The first
\* fetch is part of NewProxy.  A template with the header of the current one
\* is not stored: it then counts as this node's.
FetchReply ==
  /\ fetching # NoUpstream
  /\ \/ node[fetching] # "ok" /\ Die
     \/ /\ node[fetching] \in {"ok", "odd"}
        /\ fetching' = NoUpstream /\ process' = "running"
        /\ template' = IF node[fetching] = "ok" THEN fetching ELSE template
        /\ UNCHANGED <<world, clients, upstream, checking, submitting, failsCount>>

\* A session has a block: SubmitBlock.
SubmitBlock ==
  /\ Running /\ template # NoUpstream /\ submitting = NoUpstream /\ submitting' = upstream
  /\ UNCHANGED <<world, process, clients, upstream, checking, fetching, template, failsCount>>

\* Its reply, a failure of which the client notes.  A null result ends a TCP
\* session's goroutine, and the process with it; net/http recovers the panic
\* of a handler.
SubmitReply ==
  /\ submitting # NoUpstream
  /\ \/ node[submitting] = "null" /\ Die
     \/ /\ submitting' = NoUpstream
        /\ IF node[submitting] = "down" THEN MarkSick(submitting) ELSE UNCHANGED clients
        /\ UNCHANGED <<world, process, upstream, checking, fetching, template, failsCount>>

\* The operator starts the dead proxy again.
Restart == process = "dead" /\ Fresh("starting") /\ UNCHANGED world

\* The timer that writes the node's state: markOk or markSick of the proxy.
StateUpdate ==
  /\ Running /\ template # NoUpstream
  /\ failsCount' = IF redisUp THEN 0
                   ELSE IF failsCount < MaxFails THEN failsCount + 1 ELSE MaxFails
  /\ UNCHANGED <<world, process, clients, upstream, checking, calls, template>>

IsSick == failsCount >= MaxFails

\* handleGetWorkRPC has work to give.
Serving == Running /\ template # NoUpstream /\ ~IsSick

\* Nodes and Redis come and go.  From one trouble to another a node takes two
\* steps, by way of "ok", which saves TLC most of the transitions.
World ==
  /\ \/ \E i \in Upstreams, s \in NodeStates :
       /\ node[i] # s /\ (node[i] = "ok" \/ s = "ok")
       /\ node' = [node EXCEPT ![i] = s] /\ UNCHANGED redisUp
     \/ redisUp' = ~redisUp /\ UNCHANGED node
  /\ UNCHANGED <<process, clients, upstream, checking, calls, template, failsCount>>

Check == CheckCall \/ CheckMark \/ CheckAsk

UpstreamNext ==
  \/ CheckTimer \/ Check \/ FetchBlockTemplate \/ FetchReply \/ SubmitBlock
  \/ SubmitReply \/ StateUpdate \/ Restart \/ World

UpstreamSpec == UpstreamInit /\ [][UpstreamNext]_upstreamVars

\* Timers fire, calls return (they have a timeout), and a dead proxy is
\* started again.
UpstreamFairSpec ==
  /\ UpstreamSpec
  /\ WF_upstreamVars(CheckTimer) /\ WF_upstreamVars(Check)
  /\ WF_upstreamVars(FetchBlockTemplate) /\ WF_upstreamVars(FetchReply) /\ WF_upstreamVars(SubmitReply)
  /\ WF_upstreamVars(StateUpdate) /\ WF_upstreamVars(Restart)

-----------------------------------------------------------------------------
(* Properties *)

Checks ==
  {NotChecking} \cup
  [at : {"call", "mark", "ask"}, i : Upstreams, candidate : Upstreams, backup : BOOLEAN]

\* The types; a client is sick exactly when its failures say so, whatever
\* check, fetch and submission make of its counters together.
UpstreamTypeOK ==
  /\ node \in [Upstreams -> NodeStates] /\ redisUp \in BOOLEAN
  /\ process \in {"dead", "starting", "running"}
  /\ sickRate \in [Upstreams -> 0 .. SickAfter]
  /\ successRate \in [Upstreams -> 0 .. AliveAfter - 1]
  /\ sick = [i \in Upstreams |-> sickRate[i] = SickAfter]
  /\ upstream \in Upstreams /\ check \in Checks /\ passed \subseteq Upstreams
  /\ fetching \in Upstreams \cup {NoUpstream} /\ submitting \in Upstreams \cup {NoUpstream}
  /\ process = "starting" => fetching = 1
  /\ template \in Upstreams \cup {NoUpstream} /\ failsCount \in 0 .. MaxFails

\* config.json of README.md:277, "Pool will try to get work from first alive
\* one": a switch goes to the first upstream that the loop has found alive, or
\* to the first of all.
SwitchesToFirstAlive ==
  [][upstream' # upstream /\ process = process' =>
       upstream' = IF passed' = {} THEN 1 ELSE Min(passed')]_upstreamVars

\* "and check in background for failed to back up": once the first node and
\* Redis stay up, the proxy goes back to that node and hands out its work, for
\* good, through crashes, sick clients and a sick proxy.  The other nodes may
\* do as they like, but for the null that kills the proxy in every check.
ComesBack ==
  <>[](node[1] = "ok" /\ redisUp /\ \A i \in Upstreams : node[i] # "null") =>
    <>[](Serving /\ upstream = 1 /\ template = 1)

\* The same for a node that is not the first: with one node up for good, the
\* proxy has work in the end.
FailsOver ==
  \A i \in Upstreams : <>[](node[i] = "ok" /\ redisUp) => <>Serving
=============================================================================

------------------------------- MODULE Shares -------------------------------
(***************************************************************************)
(* A proxy's jobs and shares: the block template it keeps (proxy/blocks.go),*)
(* the sessions that submit solutions concurrently (proxy/miner.go), and   *)
(* the round, the duplicate list and the candidates they write to Redis    *)
(* (storage/redis.go).                                                     *)
(*                                                                         *)
(* The refresh timer and every session that found a block fetch templates, *)
(* so calls overlap and replies are stored late.  Calls to the node and    *)
(* commands may fail, with effect or without, and the proxy may die; these *)
(* are the faults.  The node takes one block per height.                   *)
(*                                                                         *)
(* Whether a solution reaches the block's difficulty is a property of the  *)
(* solution; those below the pool's change nothing and are absent.  A      *)
(* miner may send any solution again later, some of them (Resent) even     *)
(* before the first answer.                                                *)
(***************************************************************************)
EXTENDS Integers, FiniteSets, Functions

CONSTANTS
  Miners,
  Sessions,         \* connections that submit one request at a time
  Refresh,          \* the thread of the refresh timer
  LastWork,         \* bound: work ids the node issues, in this order: 1 .. LastWork
  Height,           \* Height[w], at least the backlog's: no underflow
  Solutions,
  Work, Miner,      \* Work[s], Miner[s]: whose solution of which work s is
  Winning,          \* solutions that reach the block's difficulty
  Resent,           \* solutions a miner may send while one is being processed
  maxBacklog,       \* heights of jobs a template keeps
  PowBacklog,       \* heights of shares the duplicate list keeps
  NoTemplate, NoSolution,
  MaxFaults         \* bound: failed commands, failed calls and crashes

Works == 1 .. LastWork

ASSUME MinersAssumption == IsFiniteSet(Miners)
ASSUME ThreadsAssumption == Refresh \notin Sessions
ASSUME WorksAssumption ==
  /\ LastWork \in Nat \ {0}
  /\ \A w \in Works : Height[w] \in Nat /\ Height[w] >= maxBacklog
  /\ \A v, w \in Works : v < w => Height[v] <= Height[w]
ASSUME SolutionsAssumption ==
  /\ Work \in [Solutions -> Works] /\ Miner \in [Solutions -> Miners]
  /\ Winning \subseteq Solutions /\ Resent \subseteq Solutions
  /\ IsFiniteSet(Solutions) /\ NoSolution \notin Solutions
ASSUME BacklogAssumption == maxBacklog \in Nat /\ PowBacklog \in Nat

Threads == Sessions \cup {Refresh}

\* BlockTemplate; done is BlockIsSubmitted, jobs the keys of headers.
Template == [work : Works, done : BOOLEAN, jobs : SUBSET Works]

ASSUME NoTemplateAssumption == NoTemplate \notin Template
ASSUME BoundsAssumption == MaxFaults \in Nat

VARIABLES
  \* the node
  work,         \* the work it issues
  accepted,     \* solutions it took as blocks
  \* the proxy
  template,
  pc,           \* pc[x]: what thread x does next
  sol,          \* sol[x]: the solution session x works on
  seen,         \* seen[x]: the work of the template the session began with
  total,        \* total[x]: WriteBlock's totalShares
  held,         \* held[x]: fetchBlockTemplate's t, then what it will store
  \* Redis
  pow,          \* duplicate list, entries [sol, on]
  current,      \* shares:roundCurrent, by miner
  rounds,       \* rounds[w]: shares:round<height>:<hash>, Empty when absent
  candidates,   \* rows [sol, hash, total]
  \* history
  counted,      \* counted[s][w]: times s, taken with template w, was counted
  faults

node    == <<work, accepted>>
proxy   == <<template, pc, sol, seen, total, held>>
round   == <<current, rounds, counted>>
store   == <<pow, round, candidates>>
vars    == <<node, proxy, store, faults>>

-----------------------------------------------------------------------------
(* Helpers *)

Empty == [m \in Miners |-> 0]

Total(shares) == SumFunctionOnSet(shares, Miners)

Fault == faults < MaxFaults /\ faults' = faults + 1

\* A solution for the height of work w was taken.
Submitted(w) == \E s \in accepted : Height[Work[s]] = Height[w]

Goto(x, label) == pc' = [pc EXCEPT ![x] = label]

NewTemplate(w, done, jobs) ==
  [work |-> w, done |-> done,
   jobs |-> {w} \cup {k \in jobs : Height[k] > Height[w] - maxBacklog}]

Idle(x) ==
  /\ Goto(x, "idle")
  /\ IF x = Refresh THEN UNCHANGED <<sol, seen, total>>
     ELSE /\ sol' = [sol EXCEPT ![x] = NoSolution] /\ seen' = [seen EXCEPT ![x] = 0]
          /\ total' = [total EXCEPT ![x] = 0]
  /\ held' = [held EXCEPT ![x] = NoTemplate]

\* Mutant of Return: a session's handler ends with the fetch.
ReturnIdle(x) == Idle(x)

\* fetchBlockTemplate returns: to the timer, or to processShare.
Return(x) ==
  IF x = Refresh THEN Idle(x)
  ELSE /\ Goto(x, "blockPow") /\ held' = [held EXCEPT ![x] = NoTemplate]
       /\ UNCHANGED <<sol, seen, total>>

Init ==
  /\ work = 1 /\ accepted = {}
  /\ template = NoTemplate
  /\ pc = [x \in Threads |-> "idle"]
  /\ sol = [x \in Sessions |-> NoSolution] /\ seen = [x \in Sessions |-> 0]
  /\ total = [x \in Sessions |-> 0]
  /\ held = [x \in Threads |-> NoTemplate]
  /\ pow = {} /\ current = Empty /\ rounds = [w \in Works |-> Empty]
  /\ candidates = {}
  /\ counted = [s \in Solutions |-> [w \in Works |-> 0]] /\ faults = 0

-----------------------------------------------------------------------------
(* The template *)

\* The refresh timer fires, or a block was taken: t := s.currentBlockTemplate().
Fetch(x) ==
  /\ pc[x] = (IF x = Refresh THEN "idle" ELSE "fetch") /\ Goto(x, "getWork")
  /\ held' = [held EXCEPT ![x] = template]
  /\ UNCHANGED <<node, template, sol, seen, total, store, faults>>

\* The proxy dies and is started again: NewProxy fetches the first template.
Die ==
  /\ template' = NoTemplate
  /\ pc' = [x \in Threads |-> "idle"]
  /\ sol' = [x \in Sessions |-> NoSolution] /\ seen' = [x \in Sessions |-> 0]
  /\ total' = [x \in Sessions |-> 0]
  /\ held' = [x \in Threads |-> NoTemplate]

Store(x, t) == Goto(x, "store") /\ held' = [held EXCEPT ![x] = t]

\* Mutant of Reply: a template with the node's work is never marked.
ReplyUnmarked(x) ==
  LET t == held[x]
      fresh == t # NoTemplate /\ t.work = work
  IN \/ fresh /\ Return(x)
     \/ /\ ~fresh /\ UNCHANGED <<sol, seen, total>>
        /\ Store(x, NewTemplate(work, Submitted(work),
                                IF t = NoTemplate THEN {} ELSE t.jobs))

\* The node's reply, and the template made of it.
Reply(x) ==
  LET t == held[x]
      done == Submitted(work)
      fresh == t # NoTemplate /\ t.work = work
  IN \/ /\ fresh /\ done /\ ~t.done
        /\ Store(x, [t EXCEPT !.done = TRUE]) /\ UNCHANGED <<sol, seen, total>>
     \/ fresh /\ (t.done \/ ~done) /\ Return(x)
     \/ /\ ~fresh /\ UNCHANGED <<sol, seen, total>>
        /\ Store(x, NewTemplate(work, done,
                                IF t = NoTemplate THEN {} ELSE t.jobs))

\* Mutant of GetWork: an empty header is not looked at.
GetWorkUnchecked(x) ==
  /\ pc[x] = "getWork"
  /\ \/ Reply(x) /\ UNCHANGED faults
     \/ Fault /\ Store(x, NoTemplate) /\ UNCHANGED <<sol, seen, total>>
  /\ UNCHANGED <<node, template, store>>

\* A failed call leaves no reply, and reply[8] panics: the proxy dies, or only
\* the handler of an HTTP request.  A node without work replies an empty
\* header.
GetWork(x) ==
  /\ pc[x] = "getWork"
  /\ \/ Reply(x) /\ UNCHANGED <<template, faults>>
     \/ Fault /\ Return(x) /\ UNCHANGED template
     \/ Fault /\ Die
     \/ x # Refresh /\ Fault /\ Idle(x) /\ UNCHANGED template
  /\ UNCHANGED <<node, store>>

\* s.blockTemplate.Store, whatever another thread stored meanwhile.
StoreTemplate(x) ==
  /\ pc[x] = "store" /\ template' = held[x] /\ Return(x)
  /\ UNCHANGED <<node, store, faults>>

-----------------------------------------------------------------------------
(* processShare *)

\* A solution of a job the template still has; any other is stale.
Receive(x) ==
  \E s \in Solutions :
    /\ pc[x] = "idle" /\ template # NoTemplate /\ Work[s] \in template.jobs
    /\ s \in Resent \/ \A y \in Sessions : sol[y] # s
    /\ sol' = [sol EXCEPT ![x] = s]
    /\ seen' = [seen EXCEPT ![x] = template.work]
    /\ \/ /\ Height[Work[s]] = Height[template.work] /\ ~template.done
          /\ s \in Winning /\ Goto(x, "submit")
       \/ /\ \/ Height[Work[s]] # Height[template.work] \/ template.done
             \/ s \notin Winning
          /\ Goto(x, "sharePow")
    /\ UNCHANGED <<node, template, total, held, store, faults>>

\* Stratum listens before the first template is there: t.headers of nil.
ReceiveEarly(x) ==
  /\ pc[x] = "idle" /\ template = NoTemplate /\ Fault /\ Die
  /\ UNCHANGED <<node, store>>

\* The node takes one block per height, and none of a height it has left.
Accept(s) ==
  /\ Height[Work[s]] = Height[work] /\ ~Submitted(work)
  /\ accepted' = accepted \cup {s}

\* An error (with or without effect) and a rejection both end the session's
\* work: nothing is recorded.
SubmitBlock(x) ==
  /\ pc[x] = "submit"
  /\ \/ /\ Accept(sol[x]) /\ Goto(x, "fetch")
        /\ UNCHANGED <<sol, seen, total, held, faults>>
     \/ UNCHANGED <<accepted, faults>> /\ Idle(x)
     \/ Fault /\ Idle(x) /\ (Accept(sol[x]) \/ UNCHANGED accepted)
  /\ UNCHANGED <<work, template, store>>

-----------------------------------------------------------------------------
(* WriteShare and WriteBlock *)

\* params joined by ":": the solution, and the hash of the template seen.
Entry(x) == [sol |-> sol[x], on |-> seen[x]]

\* checkPoWExist: the sweep, whose error is dropped, and the ZADD.
checkPoWExist(x, next) ==
  LET swept ==
        {e \in pow : Height[Work[e.sol]] >= Height[Work[sol[x]]] - PowBacklog}
  IN \/ \E kept \in {swept, pow} :
          /\ pow' = kept \cup {Entry(x)}
          /\ IF kept = swept THEN UNCHANGED faults ELSE Fault
          /\ \/ /\ Entry(x) \notin kept /\ Goto(x, next)
                /\ UNCHANGED <<sol, seen, total, held>>
             \/ Entry(x) \in kept /\ Idle(x)
     \/ Fault /\ Idle(x) /\ pow' \in {pow, swept, swept \cup {Entry(x)}}

\* Mutant of CheckPoWExist: WriteBlock does not ask.
CheckPoWExistShares(x) ==
  /\ \/ pc[x] = "sharePow" /\ checkPoWExist(x, "writeShare")
     \/ /\ pc[x] = "blockPow" /\ Goto(x, "writeBlock")
        /\ UNCHANGED <<pow, sol, seen, total, held, faults>>
  /\ UNCHANGED <<node, template, round, candidates>>

CheckPoWExist(x) ==
  /\ \/ pc[x] = "sharePow" /\ checkPoWExist(x, "writeShare")
     \/ pc[x] = "blockPow" /\ checkPoWExist(x, "writeBlock")
  /\ UNCHANGED <<node, template, round, candidates>>

\* HINCRBY of shares:roundCurrent; of the difficulty, the same for every share.
writeShare(x) == [current EXCEPT ![Miner[sol[x]]] = @ + 1]

Count(x) == counted' = [counted EXCEPT ![sol[x]][seen[x]] = @ + 1]

ShareTx(x) == current' = writeShare(x) /\ Count(x) /\ UNCHANGED rounds

WriteShare(x) ==
  /\ pc[x] = "writeShare" /\ Idle(x)
  /\ \/ ShareTx(x) /\ UNCHANGED faults
     \/ Fault /\ (ShareTx(x) \/ UNCHANGED round)
  /\ UNCHANGED <<node, template, pow, candidates>>

\* Mutant of BlockTx: the current round stays.
BlockTxCopy(x) ==
  /\ rounds' = [rounds EXCEPT ![seen[x]] = writeShare(x)]
  /\ current' = writeShare(x) /\ Count(x)

\* Mutant of BlockTx: the hash is of the template fetched after the block.
BlockTxFetched(x) ==
  /\ rounds' = [rounds EXCEPT ![template.work] = writeShare(x)]
  /\ current' = Empty /\ Count(x)

\* The MULTI: the finder's share, then RENAME of the current round.
BlockTx(x) ==
  /\ rounds' = [rounds EXCEPT ![seen[x]] = writeShare(x)]
  /\ current' = Empty /\ Count(x)

\* The last command of the MULTI is the HGETALL of the round, whose sum it keeps.
WriteBlock(x) ==
  /\ pc[x] = "writeBlock"
  /\ \/ /\ BlockTx(x) /\ Goto(x, "candidate")
        /\ total' = [total EXCEPT ![x] = Total(rounds'[seen[x]])]
        /\ UNCHANGED <<sol, seen, held, faults>>
     \/ Fault /\ Idle(x) /\ (BlockTx(x) \/ UNCHANGED round)
  /\ UNCHANGED <<node, template, pow, candidates>>

\* The ZADD comes after the MULTI, with the sum of its HGETALL.
AddCandidate(x) ==
  LET row == [sol |-> sol[x], hash |-> seen[x], total |-> total[x]]
      Add == candidates' = candidates \cup {row}
  IN /\ pc[x] = "candidate" /\ Idle(x)
     /\ \/ Add /\ UNCHANGED faults
        \/ Fault /\ (Add \/ UNCHANGED candidates)
     /\ UNCHANGED <<node, template, pow, round>>

-----------------------------------------------------------------------------
(* The node, crashes, and the specification *)

NewWork ==
  /\ work + 1 \in Works /\ work' = work + 1
  /\ UNCHANGED <<accepted, proxy, store, faults>>

Crash == Fault /\ Die /\ UNCHANGED <<node, store>>

FetchBlockTemplate(x) == Fetch(x) \/ GetWork(x) \/ StoreTemplate(x)

ProcessShare(x) ==
  SubmitBlock(x) \/ CheckPoWExist(x) \/ WriteShare(x) \/ WriteBlock(x)
    \/ AddCandidate(x)

Next ==
  \/ NewWork \/ Crash
  \/ \E x \in Threads : FetchBlockTemplate(x)
  \/ \E x \in Sessions : Receive(x) \/ ReceiveEarly(x) \/ ProcessShare(x)

Spec == Init /\ [][Next]_vars

\* The timer fires again, threads run, calls return (they have timeouts).
\* Nothing makes a miner submit or the node issue work.
FairSpec ==
  /\ Spec
  /\ \A x \in Threads : WF_vars(FetchBlockTemplate(x))
  /\ \A x \in Sessions : WF_vars(ProcessShare(x))

-----------------------------------------------------------------------------
(* Properties *)

\* The kinds of values the variables hold; a template about to be stored is one,
\* and a session at work has a solution (blocks.go:78-81).
TypeOK ==
  /\ work \in Works /\ accepted \subseteq Solutions
  /\ template \in Template \cup {NoTemplate}
  /\ pc \in [Threads -> {"idle", "fetch", "getWork", "store", "submit",
       "sharePow", "writeShare", "blockPow", "writeBlock", "candidate"}]
  /\ sol \in [Sessions -> Solutions \cup {NoSolution}]
  /\ seen \in [Sessions -> Works \cup {0}] /\ total \in [Sessions -> Nat]
  /\ held \in [Threads -> Template \cup {NoTemplate}]
  /\ \A x \in Threads : pc[x] = "store" => held[x] \in Template
  /\ \A x \in Sessions :
       pc[x] # "idle" => sol[x] \in Solutions /\ seen[x] \in Works
  /\ pow \subseteq [sol : Solutions, on : Works]
  /\ current \in [Miners -> Nat] /\ rounds \in [Works -> [Miners -> Nat]]
  /\ candidates \subseteq [sol : Solutions, hash : Works, total : Nat]
  /\ counted \in [Solutions -> [Works -> Nat]]
  /\ faults \in 0 .. MaxFaults

TimesCounted == [s \in Solutions |-> SumFunctionOnSet(counted[s], Works)]

\* Every share a MULTI counted is in the current round or in exactly one
\* closed round, whoever finds blocks meanwhile and whatever fails: closing a
\* round moves it, and no round is written over (redis.go:235).
RoundsAddUp ==
  \A m \in Miners :
    SumFunctionOnSet(TimesCounted, {s \in Solutions : Miner[s] = m})
      = current[m] + SumFunctionOnSet([w \in Works |-> rounds[w][m]], Works)

\* A candidate's hash names the round its total is the sum of, and a block of
\* its own height; no two candidates share one (redis.go:235, 242-251).
CandidateHasRound ==
  \A c \in candidates :
    /\ c.total = Total(rounds[c.hash]) /\ c.total > 0
    /\ Height[c.hash] = Height[Work[c.sol]]
    /\ \A d \in candidates : Height[d.hash] = Height[c.hash] => d = c

\* A solution is counted once for each template it was taken with, until the
\* node is PowBacklog heights past it: two sessions that send it at the same
\* time pass the duplicate check once, and the sweep, which goes by the height
\* of whoever submits, drops no entry earlier (redis.go:185-190).
CountedOncePerTemplate ==
  \A s \in Solutions :
    Height[Work[s]] >= Height[work] - PowBacklog
      => \A w \in Works : counted[s][w] <= 1

\* As long as nothing fails, a block the node took is a candidate or a session
\* is still writing it: a refresh, another block or a share in between does not
\* lose it (miner.go:91-101).  Not so for a solution sent again meanwhile: its
\* copy may be counted as a share first, and WriteBlock then finds a duplicate.
BlocksRecorded ==
  faults = 0 =>
    \A s \in accepted \ Resent :
      \/ \E c \in candidates : c.sol = s
      \/ \E x \in Sessions : sol[x] = s /\
           pc[x] \in {"fetch", "getWork", "store", "blockPow", "writeBlock", "candidate"}

\* Once the node stays with a work, the template ends up with that work, and
\* marked when a block of it was taken: late stores are repaired by the timer
\* (blocks.go:84-93, proxy.go:97-105).
TemplateCatchesUp ==
  <>[](template # NoTemplate /\ template.work = work
         /\ template.done = Submitted(work))

\* A solution is counted once, whenever it is sent again.
\* redis.go:197: "Duplicate share, (nonce, powHash, mixDigest) pair exist".
CountedOnce ==
  \A s \in Solutions : TimesCounted[s] <= 1

\* A template never loses a job of the last maxBacklog heights that the one
\* before it had.  miner.go:24: "allow us to collect workids for the last three blocks".
JobsKept ==
  [][ template # NoTemplate /\ template' # NoTemplate =>
        \A w \in template.jobs :
          Height[w] > Height[template'.work] - maxBacklog
            => w \in template'.jobs ]_template
=============================================================================

---------------------------- MODULE SharesProofs ------------------------------
(***************************************************************************)
(* Proofs about the proxy's jobs and shares (module Shares): types, rounds,*)
(* candidates, the duplicate list, and the blocks the node took, for any   *)
(* number of sessions, works, solutions and faults.                        *)
(***************************************************************************)
EXTENDS Shares, Sums

-----------------------------------------------------------------------------
(* Types *)

ProcType ==
  /\ template \in Template \cup {NoTemplate}
  /\ pc \in [Threads -> {"idle", "fetch", "getWork", "store", "submit",
       "sharePow", "writeShare", "blockPow", "writeBlock", "candidate"}]
  /\ sol \in [Sessions -> Solutions \cup {NoSolution}]
  /\ seen \in [Sessions -> Works \cup {0}] /\ total \in [Sessions -> Nat]
  /\ held \in [Threads -> Template \cup {NoTemplate}]
  /\ \A x \in Threads : pc[x] = "store" => held[x] \in Template
  /\ \A x \in Sessions :
       pc[x] # "idle" => sol[x] \in Solutions /\ seen[x] \in Works

StoreType ==
  /\ pow \subseteq [sol : Solutions, on : Works]
  /\ current \in [Miners -> Nat] /\ rounds \in [Works -> [Miners -> Nat]]
  /\ candidates \subseteq [sol : Solutions, hash : Works, total : Nat]
  /\ counted \in [Solutions -> [Works -> Nat]]

\* The works are finitely many and naturals.
LEMMA WorksFinite == IsFiniteSet(Works) /\ Works \subseteq Nat /\ 1 \in Works
BY WorksAssumption, FS_Interval DEF Works

\* A round's total is a natural.
LEMMA TotalType ==
  ASSUME NEW shares \in [Miners -> Nat]
  PROVE  Total(shares) \in Nat
<1>1. \A m \in Miners : shares[m] \in Int /\ shares[m] >= 0
  OBVIOUS
<1>2. /\ SumFunctionOnSet(shares, Miners) \in Int
      /\ SumFunctionOnSet(shares, Miners) >= 0
  BY <1>1, MinersAssumption, SumType
<1>3. QED
  BY <1>2 DEF Total

\* A thread that goes on with its locals unchanged.
LEMMA GotoType ==
  ASSUME ProcType, NEW x \in Threads, NEW label \in {"fetch", "getWork", "store",
           "submit", "sharePow", "writeShare", "blockPow", "writeBlock", "candidate"},
         Goto(x, label), UNCHANGED <<template, sol, seen>>, total' \in [Sessions -> Nat],
         \/ held' = held /\ label # "store"
         \/ \E t \in Template \cup {NoTemplate} :
              held' = [held EXCEPT ![x] = t] /\ (label = "store" => t \in Template),
         x \in Sessions => pc[x] # "idle"
  PROVE  ProcType'
BY ThreadsAssumption DEF ProcType, Goto, Threads

\* A session's work ends, and the timer's round.
LEMMA IdleType ==
  ASSUME ProcType, NEW x \in Threads, Idle(x), UNCHANGED template
  PROVE  ProcType'
<1>1. pc' = [pc EXCEPT ![x] = "idle"] /\ held' = [held EXCEPT ![x] = NoTemplate]
  BY DEF Idle, Goto
<1>2. CASE x = Refresh
  BY <1>1, <1>2, ThreadsAssumption DEF ProcType, Idle, Threads
<1>3. CASE x # Refresh
  <2>1. x \in Sessions /\ sol' = [sol EXCEPT ![x] = NoSolution]
          /\ seen' = [seen EXCEPT ![x] = 0] /\ total' = [total EXCEPT ![x] = 0]
    BY <1>3 DEF Idle, Threads
  <2>2. QED
    BY <1>1, <2>1 DEF ProcType, Threads
<1>4. QED
  BY <1>2, <1>3

\* The return from a fetch keeps the types of the threads.
LEMMA ReturnType ==
  ASSUME ProcType, NEW x \in Threads, pc[x] # "idle", Return(x),
         \/ UNCHANGED template
         \/ template' \in Template
  PROVE  ProcType'
<1>1. CASE x = Refresh
  <2>1. Idle(x)
    BY <1>1 DEF Return
  <2>2. CASE UNCHANGED template
    BY <2>1, <2>2, IdleType
  <2>3. CASE template' \in Template
    BY <1>1, <2>1, <2>3, ThreadsAssumption DEF ProcType, Idle, Goto, Threads
  <2>4. QED
    BY <2>2, <2>3
<1>2. CASE x # Refresh
  BY <1>2, ThreadsAssumption DEF ProcType, Return, Goto, Threads
<1>3. QED
  BY <1>1, <1>2

\* The end of the process keeps the types of the threads.
LEMMA DieType ==
  ASSUME Die
  PROVE  ProcType'
BY ThreadsAssumption DEF Die, ProcType, Threads

\* A template made of the node's work and the jobs of an older one.
LEMMA NewTemplateType ==
  ASSUME NEW w \in Works, NEW done \in BOOLEAN, NEW jobs \in SUBSET Works
  PROVE  NewTemplate(w, done, jobs) \in Template
BY DEF NewTemplate, Template

\* The reply to GetWork keeps the types of the threads.
LEMMA ReplyType ==
  ASSUME ProcType, work \in Works, NEW x \in Threads, pc[x] = "getWork",
         Reply(x), UNCHANGED template
  PROVE  ProcType'
<1> DEFINE t == held[x]
           jobs == IF t = NoTemplate THEN {} ELSE t.jobs
<1>1. t \in Template \cup {NoTemplate} /\ Submitted(work) \in BOOLEAN
  BY DEF ProcType, Submitted
<1>2. CASE Return(x)
  BY <1>2, ReturnType
<1>3. CASE \E u \in Template : Store(x, u) /\ UNCHANGED <<sol, seen, total>>
  BY <1>3, GotoType DEF Store, ProcType
<1>4. t # NoTemplate => [t EXCEPT !.done = TRUE] \in Template
  BY <1>1 DEF Template
<1>5. NewTemplate(work, Submitted(work), jobs) \in Template
  <2>1. jobs \in SUBSET Works
    BY <1>1 DEF Template
  <2>2. QED
    BY <1>1, <2>1, NewTemplateType
<1>6. QED
  BY <1>2, <1>3, <1>4, <1>5 DEF Reply

-----------------------------------------------------------------------------
\* The entry of a session at work, and its share in the current round.
LEMMA ShareType ==
  ASSUME TypeOK, NEW x \in Sessions, pc[x] # "idle"
  PROVE  /\ Entry(x) \in [sol : Solutions, on : Works]
         /\ writeShare(x) \in [Miners -> Nat]
         /\ Miner[sol[x]] \in Miners
         /\ Count(x) => counted' \in [Solutions -> [Works -> Nat]]
<1>1. /\ sol[x] \in Solutions /\ seen[x] \in Works
      /\ current \in [Miners -> Nat] /\ counted \in [Solutions -> [Works -> Nat]]
  BY DEF TypeOK
<1>2. Miner[sol[x]] \in Miners
  BY <1>1, SolutionsAssumption
<1>3. writeShare(x) \in [Miners -> Nat]
  BY <1>1, <1>2 DEF writeShare
<1>4. Entry(x) \in [sol : Solutions, on : Works]
  BY <1>1 DEF Entry
<1>5. ASSUME Count(x)
      PROVE  counted' \in [Solutions -> [Works -> Nat]]
  <2>1. [counted[sol[x]] EXCEPT ![seen[x]] = @ + 1] \in [Works -> Nat]
    BY <1>1
  <2>2. counted' = [counted EXCEPT ![sol[x]] = [counted[sol[x]] EXCEPT ![seen[x]] = @ + 1]]
    BY <1>5 DEF Count
  <2>3. QED
    BY <1>1, <2>1, <2>2
<1>6. QED
  BY <1>2, <1>3, <1>4, <1>5

\* The duplicate list gains the solution's entry at most, and the session ends or goes on to write.
LEMMA CheckType ==
  ASSUME TypeOK, NEW x \in Sessions, pc[x] \in {"sharePow", "blockPow"},
         NEW next \in {"writeShare", "writeBlock"}, checkPoWExist(x, next)
  PROVE  /\ pow' \subseteq pow \cup {Entry(x)} /\ faults' \in 0 .. MaxFaults
         /\ \/ Idle(x)
            \/ Goto(x, next) /\ UNCHANGED <<sol, seen, total, held>>
BY BoundsAssumption DEF checkPoWExist, Fault, TypeOK

\* A fault is counted within its bound.
LEMMA FaultType ==
  ASSUME faults \in 0 .. MaxFaults, Fault \/ UNCHANGED faults
  PROVE  faults' \in 0 .. MaxFaults
BY BoundsAssumption DEF Fault

\* The type invariant, part by part.
LEMMA TypeParts ==
  ASSUME TypeOK
  PROVE  /\ ProcType /\ StoreType
         /\ work \in Works /\ accepted \subseteq Solutions /\ faults \in 0 .. MaxFaults
BY DEF TypeOK, ProcType, StoreType

\* Every step keeps the types.
LEMMA TypeStep ==
  ASSUME TypeOK, [Next]_vars
  PROVE  TypeOK'
<1>1. /\ ProcType /\ StoreType
      /\ work \in Works /\ accepted \subseteq Solutions /\ faults \in 0 .. MaxFaults
  BY TypeParts
<1> DEFINE Rest == /\ work' \in Works /\ accepted' \subseteq Solutions
                   /\ faults' \in 0 .. MaxFaults
<1>2. SUFFICES ProcType' /\ StoreType' /\ Rest
  BY DEF TypeOK, ProcType, StoreType
<1>3. UNCHANGED store => StoreType'
  BY <1>1 DEF store, round, StoreType
<1>4. UNCHANGED proxy => ProcType'
  BY <1>1 DEF proxy, ProcType
<1>5. CASE UNCHANGED vars
  BY <1>1, <1>3, <1>4, <1>5 DEF vars, node
<1>6. CASE NewWork
  BY <1>1, <1>3, <1>4, <1>6 DEF NewWork
<1>7. CASE Crash
  BY <1>1, <1>3, <1>7, DieType, FaultType DEF Crash, node
<1>8. ASSUME NEW x \in Threads, FetchBlockTemplate(x)
      PROVE  ProcType' /\ StoreType' /\ Rest
  <2>1. CASE Fetch(x)
    <3>1. template \in Template \cup {NoTemplate}
      BY <1>1 DEF ProcType
    <3>2. pc[x] = (IF x = Refresh THEN "idle" ELSE "fetch") /\ Goto(x, "getWork")
          /\ held' = [held EXCEPT ![x] = template] /\ UNCHANGED <<template, sol, seen, total>>
      BY <2>1 DEF Fetch
    <3>3. ProcType'
      <4>1. x \in Sessions => pc[x] # "idle"
        BY <3>2, ThreadsAssumption
      <4>2. total' \in [Sessions -> Nat]
        BY <1>1, <3>2 DEF ProcType
      <4> HIDE DEF Threads
      <4>3. QED
        BY <1>1, <3>1, <3>2, <4>1, <4>2, GotoType
    <3>4. QED
      BY <1>1, <1>3, <2>1, <3>3 DEF Fetch, node
  <2>2. CASE GetWork(x)
    <3>1. pc[x] = "getWork" /\ UNCHANGED <<node, store>>
      BY <2>2 DEF GetWork
    <3>2. CASE Reply(x) /\ UNCHANGED <<template, faults>>
      BY <1>1, <1>3, <3>1, <3>2, ReplyType DEF node
    <3>3. CASE Fault /\ Return(x) /\ UNCHANGED template
      BY <1>1, <1>3, <3>1, <3>3, ReturnType, FaultType DEF node
    <3>4. CASE Fault /\ Die
      BY <1>1, <1>3, <3>1, <3>4, DieType, FaultType DEF node
    <3>5. CASE Fault /\ Idle(x) /\ UNCHANGED template
      BY <1>1, <1>3, <3>1, <3>5, IdleType, FaultType DEF node
    <3>6. QED
      BY <2>2, <3>2, <3>3, <3>4, <3>5 DEF GetWork
  <2>3. CASE StoreTemplate(x)
    <3>1. pc[x] = "store" /\ template' \in Template /\ Return(x)
          /\ UNCHANGED <<node, store, faults>>
      BY <1>1, <2>3 DEF StoreTemplate, ProcType
    <3>2. QED
      BY <1>1, <1>3, <3>1, ReturnType DEF node
  <2>4. QED
    BY <1>8, <2>1, <2>2, <2>3 DEF FetchBlockTemplate
<1>9. ASSUME NEW x \in Sessions, Receive(x)
      PROVE  ProcType' /\ StoreType' /\ Rest
  <2>1. PICK s \in Solutions :
          /\ template # NoTemplate
          /\ sol' = [sol EXCEPT ![x] = s]
          /\ seen' = [seen EXCEPT ![x] = template.work]
          /\ Goto(x, "submit") \/ Goto(x, "sharePow")
          /\ UNCHANGED <<node, template, total, held, store, faults>>
    BY <1>9 DEF Receive
  <2>2. template.work \in Works
    BY <1>1, <2>1 DEF ProcType, Template
  <2>3. ProcType'
    BY <1>1, <2>1, <2>2 DEF ProcType, Goto, Threads
  <2>4. QED
    BY <1>1, <1>3, <2>1, <2>3 DEF node
<1>10. ASSUME NEW x \in Sessions, ReceiveEarly(x)
       PROVE  ProcType' /\ StoreType' /\ Rest
  BY <1>1, <1>3, <1>10, DieType, FaultType DEF ReceiveEarly, node
<1>11. ASSUME NEW x \in Sessions, ProcessShare(x)
       PROVE  ProcType' /\ StoreType' /\ Rest
  <2>1. x \in Threads
    BY DEF Threads
  <2>2. ASSUME NEW label \in {"fetch", "writeShare", "writeBlock", "candidate"},
               Goto(x, label), UNCHANGED <<template, sol, seen, held>>, pc[x] # "idle",
               total' \in [Sessions -> Nat]
        PROVE  ProcType'
    BY <1>1, <2>1, <2>2, GotoType
  <2>3. /\ UNCHANGED template /\ Idle(x) => ProcType'
        /\ UNCHANGED total => total' \in [Sessions -> Nat]
    BY <1>1, <2>1, IdleType DEF ProcType
  <2>4. CASE SubmitBlock(x)
    <3>1. /\ pc[x] = "submit" /\ UNCHANGED <<work, template, store>>
          /\ accepted' \subseteq Solutions /\ (Fault \/ UNCHANGED faults)
      BY <1>1, <2>4 DEF SubmitBlock, Accept, ProcType
    <3>2. ProcType'
      BY <2>2, <2>3, <2>4 DEF SubmitBlock
    <3>3. QED
      BY <1>1, <1>3, <3>1, <3>2, FaultType
  <2>5. CASE CheckPoWExist(x)
    <3>1. /\ pc[x] \in {"sharePow", "blockPow"}
          /\ \E next \in {"writeShare", "writeBlock"} : checkPoWExist(x, next)
          /\ UNCHANGED <<node, template, round, candidates>>
      BY <2>5 DEF CheckPoWExist
    <3>2. /\ pow' \subseteq pow \cup {Entry(x)} /\ faults' \in 0 .. MaxFaults
          /\ \/ Idle(x)
             \/ \E next \in {"writeShare", "writeBlock"} :
                  Goto(x, next) /\ UNCHANGED <<sol, seen, total, held>>
      BY <3>1, CheckType
    <3>3. StoreType'
      <4>1. Entry(x) \in [sol : Solutions, on : Works]
        BY <3>1, ShareType
      <4>2. QED
        BY <1>1, <3>1, <3>2, <4>1 DEF StoreType, round
    <3>4. ProcType'
      BY <2>2, <2>3, <3>1, <3>2
    <3>5. QED
      BY <1>1, <3>1, <3>2, <3>3, <3>4 DEF node
  <2>6. CASE WriteShare(x)
    <3>1. /\ pc[x] # "idle" /\ Idle(x) /\ UNCHANGED <<node, template, pow, candidates>>
          /\ ShareTx(x) \/ UNCHANGED round
          /\ Fault \/ UNCHANGED faults
      BY <2>6 DEF WriteShare
    <3>2. StoreType'
      BY <1>1, <3>1, ShareType DEF StoreType, round, ShareTx
    <3>3. QED
      BY <1>1, <2>3, <3>1, <3>2, FaultType DEF node
  <2>7. CASE WriteBlock(x)
    <3>1. /\ pc[x] # "idle" /\ UNCHANGED <<node, template, pow, candidates>>
          /\ BlockTx(x) \/ UNCHANGED round
          /\ Fault \/ UNCHANGED faults
          /\ \/ Idle(x)
             \/ /\ Goto(x, "candidate") /\ UNCHANGED <<sol, seen, held>> /\ BlockTx(x)
                /\ total' = [total EXCEPT ![x] = Total(rounds'[seen[x]])]
      BY <2>7 DEF WriteBlock
    <3>2. StoreType'
      <4>1. CASE UNCHANGED round
        BY <1>1, <3>1, <4>1 DEF StoreType, round
      <4>2. CASE BlockTx(x)
        <5>1. writeShare(x) \in [Miners -> Nat] /\ counted' \in [Solutions -> [Works -> Nat]]
          BY <3>1, <4>2, ShareType DEF BlockTx
        <5>2. seen[x] \in Works /\ Empty \in [Miners -> Nat]
          BY <1>1, <3>1 DEF ProcType, Empty
        <5>3. QED
          BY <1>1, <3>1, <4>2, <5>1, <5>2 DEF StoreType, BlockTx
      <4>3. QED
        BY <3>1, <4>1, <4>2
    <3>3. ProcType'
      <4>1. CASE Idle(x)
        BY <2>3, <3>1, <4>1
      <4>2. CASE total' = [total EXCEPT ![x] = Total(rounds'[seen[x]])]
        <5>1. rounds' \in [Works -> [Miners -> Nat]] /\ seen[x] \in Works
          BY <1>1, <3>1, <3>2 DEF StoreType, ProcType
        <5>2. Total(rounds'[seen[x]]) \in Nat
          BY <5>1, TotalType
        <5>3. total' \in [Sessions -> Nat]
          BY <1>1, <4>2, <5>2 DEF ProcType
        <5>4. QED
          BY <2>2, <2>3, <3>1, <5>3
      <4>3. QED
        BY <3>1, <4>1, <4>2
    <3>4. QED
      BY <1>1, <3>1, <3>2, <3>3, FaultType DEF node
  <2>8. CASE AddCandidate(x)
    <3> DEFINE row == [sol |-> sol[x], hash |-> seen[x], total |-> total[x]]
    <3>1. /\ pc[x] # "idle" /\ Idle(x) /\ UNCHANGED <<node, template, pow, round>>
          /\ candidates' \in {candidates, candidates \cup {row}}
          /\ Fault \/ UNCHANGED faults
      BY <2>8 DEF AddCandidate
    <3>2. row \in [sol : Solutions, hash : Works, total : Nat]
      <4>1. sol[x] \in Solutions /\ seen[x] \in Works
        BY <1>1, <3>1 DEF ProcType
      <4>2. total[x] \in Nat
        BY <1>1 DEF ProcType
      <4>3. QED
        BY <4>1, <4>2
    <3> HIDE DEF row
    <3>3. StoreType'
      BY <1>1, <3>1, <3>2 DEF StoreType, round
    <3>4. QED
      BY <1>1, <2>3, <3>1, <3>3, FaultType DEF node
  <2>9. QED
    BY <1>11, <2>4, <2>5, <2>6, <2>7, <2>8 DEF ProcessShare
<1>12. QED
  BY <1>5, <1>6, <1>7, <1>8, <1>9, <1>10, <1>11 DEF Next

\* Every variable has its type, and a session at work has a solution and the work
\* of the template it was taken with.
THEOREM TypeCorrect == Spec => []TypeOK
<1>1. Init => TypeOK
  BY WorksFinite, WorksAssumption, BoundsAssumption, ThreadsAssumption
     DEF Init, TypeOK, Empty, Threads, Works
<1>2. TypeOK /\ [Next]_vars => TypeOK'
  BY TypeStep
<1>3. QED
  BY <1>1, <1>2, PTL DEF Spec

-----------------------------------------------------------------------------
(* The inductive invariant *)

\* The session has a block the node took, and its round is not a candidate yet.
Writing == {"fetch", "getWork", "store", "blockPow", "writeBlock", "candidate"}

\* The session's solution was new in the duplicate list.
Passed(x) == pc[x] \in {"writeShare", "writeBlock"}

\* The sweeps have not reached the solution.
Recent(s) == Height[Work[s]] >= Height[work] - PowBacklog

\* A template knows no work the node has not issued, and is marked only when a
\* block of its work was taken.
Sound(t) ==
  /\ \A k \in t.jobs : k <= work
  /\ t.done => Submitted(t.work)

TemplatesInv ==
  /\ template # NoTemplate => Sound(template)
  /\ \A x \in Threads : held[x] # NoTemplate => Sound(held[x])

\* What a session knows of its solution at each of its steps.
SessionsInv ==
  \A x \in Sessions :
    /\ pc[x] # "idle" => Work[sol[x]] <= work
    /\ pc[x] \in Writing \cup {"submit"} => Height[Work[sol[x]]] = Height[seen[x]]
    /\ pc[x] = "submit" => sol[x] \in Winning
    /\ pc[x] \in Writing => sol[x] \in accepted

\* One session writes the block of a height, and until it does, the height has
\* neither a round nor a candidate.
WritersInv ==
  /\ \A x, y \in Sessions :
       pc[x] \in Writing /\ pc[y] \in Writing /\ Height[seen[x]] = Height[seen[y]]
         => x = y
  /\ \A x \in Sessions : pc[x] \in Writing =>
       \A c \in candidates : Height[c.hash] # Height[seen[x]]
  /\ \A x \in Sessions : pc[x] \in Writing \ {"candidate"} =>
       \A w \in Works : Height[w] = Height[seen[x]] => rounds[w] = Empty
  /\ \A x \in Sessions : pc[x] = "candidate" =>
       total[x] = Total(rounds[seen[x]]) /\ total[x] > 0
  /\ \A w \in Works : rounds[w] # Empty => Submitted(w)
  /\ \A c \in candidates : Submitted(c.hash)

\* A recent solution that was counted, or is about to be, is in the duplicate
\* list, and only one session is about to count it.
ListInv ==
  /\ \A x, y \in Sessions :
       Passed(x) /\ Passed(y) /\ Recent(sol[x]) /\ Entry(x) = Entry(y) => x = y
  /\ \A x \in Sessions : Passed(x) /\ Recent(sol[x]) =>
       Entry(x) \in pow /\ counted[sol[x]][seen[x]] = 0
  /\ \A s \in Solutions : \A w \in Works : Recent(s) =>
       \/ counted[s][w] = 0
       \/ counted[s][w] = 1 /\ [sol |-> s, on |-> w] \in pow

\* A winning solution is in the duplicate list only when a block of its height was
\* taken: WriteBlock does not find the block it is to write.
WinnersInv ==
  /\ \A x, y \in Sessions :
       x # y /\ sol[x] = sol[y] /\ sol[x] # NoSolution => sol[x] \in Resent
  /\ \A e \in pow :
       e.sol \in Winning /\ Height[Work[e.sol]] = Height[e.on] => Submitted(e.on)
  /\ \A x \in Sessions :
       pc[x] = "sharePow" /\ sol[x] \in Winning /\ Height[Work[sol[x]]] = Height[seen[x]]
         => Submitted(seen[x])
  /\ \A x \in Sessions :
       pc[x] \in {"fetch", "getWork", "store", "blockPow"} /\ sol[x] \notin Resent
         => Entry(x) \notin pow

\* The inductive invariant.
IInv ==
  /\ TemplatesInv /\ SessionsInv /\ WritersInv /\ CandidateHasRound /\ ListInv
  /\ WinnersInv /\ BlocksRecorded

-----------------------------------------------------------------------------
(* The steps, as the sessions and the store see them *)

Stays(y) ==
  pc'[y] = pc[y] /\ sol'[y] = sol[y] /\ seen'[y] = seen[y] /\ total'[y] = total[y]

Ends(y) == pc'[y] = "idle" /\ sol'[y] = NoSolution

Passes(y, label) == pc'[y] = label /\ sol'[y] = sol[y] /\ seen'[y] = seen[y]

Fetching == {"fetch", "getWork", "store", "blockPow"}

\* The template and the node change, sessions fetch or die.
Quiet ==
  /\ UNCHANGED <<accepted, store>>
  /\ \A y \in Sessions :
       \/ Stays(y)
       \/ Ends(y) /\ faults' > 0
       \/ pc[y] \in Fetching /\ \E label \in Fetching : Passes(y, label)

Taken(x) ==
  /\ pc[x] = "idle" /\ UNCHANGED <<work, accepted, store>>
  /\ \E s \in Solutions :
       /\ template # NoTemplate /\ Work[s] \in template.jobs
       /\ s \in Resent \/ \A y \in Sessions : sol[y] # s
       /\ sol'[x] = s /\ seen'[x] = template.work
       /\ \/ /\ Height[Work[s]] = Height[template.work] /\ ~ template.done
             /\ s \in Winning /\ pc'[x] = "submit"
          \/ /\ \/ Height[Work[s]] # Height[template.work] \/ template.done
                \/ s \notin Winning
             /\ pc'[x] = "sharePow"

Submits(x) ==
  /\ pc[x] = "submit" /\ UNCHANGED <<work, store>>
  /\ \/ Accept(sol[x]) /\ Passes(x, "fetch")
     \/ UNCHANGED accepted /\ Ends(x)
     \/ Accept(sol[x]) /\ Ends(x) /\ faults' > 0

Swept(x) == {e \in pow : Height[Work[e.sol]] >= Height[Work[sol[x]]] - PowBacklog}

Checks(x) ==
  /\ pc[x] \in {"sharePow", "blockPow"} /\ UNCHANGED <<work, accepted, round, candidates>>
  /\ \E kept \in {pow, Swept(x)} :
       \/ /\ pow' = kept \cup {Entry(x)} /\ Entry(x) \notin kept
          /\ Passes(x, IF pc[x] = "sharePow" THEN "writeShare" ELSE "writeBlock")
       \/ /\ pow' \in {kept, kept \cup {Entry(x)}} /\ Ends(x)
          /\ faults' > 0 \/ Entry(x) \in pow

Shared(x) ==
  /\ pc[x] = "writeShare" /\ Ends(x) /\ UNCHANGED <<work, accepted, pow, candidates>>
  /\ ShareTx(x) \/ UNCHANGED round

Closes(x) ==
  /\ pc[x] = "writeBlock" /\ UNCHANGED <<work, accepted, pow, candidates>>
  /\ \/ /\ BlockTx(x) /\ Passes(x, "candidate")
        /\ total'[x] = Total(rounds'[seen[x]])
     \/ Ends(x) /\ faults' > 0 /\ (BlockTx(x) \/ UNCHANGED round)

Row(x) == [sol |-> sol[x], hash |-> seen[x], total |-> total[x]]

Registers(x) ==
  /\ pc[x] = "candidate" /\ Ends(x) /\ UNCHANGED <<work, accepted, pow, round>>
  /\ \/ candidates' = candidates \cup {Row(x)}
     \/ faults' > 0 /\ UNCHANGED candidates

\* Only session x does something.
Alone(x) == \A y \in Sessions \ {x} : Stays(y)

Does(x) ==
  Taken(x) \/ Submits(x) \/ Checks(x) \/ Shared(x) \/ Closes(x) \/ Registers(x)

\* A fault stays on record.
LEMMA FaultsGrow ==
  ASSUME TypeOK, Fault
  PROVE  faults' > 0
BY DEF TypeOK, Fault

\* A session that ends its work, one that goes on, and the timer.
LEMMA IdleEnds ==
  ASSUME TypeOK, NEW x \in Threads, Idle(x)
  PROVE  /\ \A y \in Sessions \ {x} : Stays(y)
         /\ x \in Sessions => Ends(x)
BY ThreadsAssumption DEF TypeOK, Idle, Goto, Stays, Ends, Threads

\* A thread that moves on with its solution leaves the other sessions as they are.
LEMMA GotoPasses ==
  ASSUME TypeOK, NEW x \in Threads, NEW label, Goto(x, label), UNCHANGED <<sol, seen>>,
         \A y \in Sessions \ {x} : total'[y] = total[y]
  PROVE  /\ \A y \in Sessions \ {x} : Stays(y)
         /\ x \in Sessions => Passes(x, label)
BY ThreadsAssumption DEF TypeOK, Goto, Stays, Passes, Threads

\* The return from a fetch leaves a session with its solution, and the others as they are.
LEMMA ReturnPasses ==
  ASSUME TypeOK, NEW x \in Threads, Return(x)
  PROVE  /\ \A y \in Sessions \ {x} : Stays(y)
         /\ x \in Sessions => Passes(x, "blockPow")
<1>1. CASE x = Refresh
  BY <1>1, IdleEnds, ThreadsAssumption DEF Return
<1>2. CASE x # Refresh
  BY <1>2, GotoPasses DEF Return
<1>3. QED
  BY <1>1, <1>2

\* The end of the process ends every session.
LEMMA DieEnds ==
  ASSUME Die
  PROVE  \A y \in Sessions : Ends(y)
BY DEF Die, Ends, Threads

\* No step of a fetch touches what the sessions wrote.
LEMMA FetchIsQuiet ==
  ASSUME TypeOK, NEW x \in Threads, FetchBlockTemplate(x)
  PROVE  Quiet
<1>1. Sessions \subseteq Threads /\ Refresh \notin Sessions
  BY ThreadsAssumption DEF Threads
<1>2. ASSUME \A y \in Sessions \ {x} : Stays(y), UNCHANGED <<accepted, store>>,
             x \in Sessions =>
               pc[x] \in Fetching /\ \E label \in Fetching : Passes(x, label)
      PROVE  Quiet
  BY <1>2 DEF Quiet
<1>3. CASE Fetch(x)
  <2>1. /\ pc[x] = (IF x = Refresh THEN "idle" ELSE "fetch") /\ Goto(x, "getWork")
        /\ UNCHANGED <<sol, seen, total>> /\ UNCHANGED <<accepted, store>>
    BY <1>3 DEF Fetch, node
  <2>2. (\A y \in Sessions \ {x} : Stays(y)) /\ (x \in Sessions => Passes(x, "getWork"))
    BY <2>1, GotoPasses
  <2>3. QED
    BY <1>1, <1>2, <2>1, <2>2 DEF Fetching
<1>4. CASE GetWork(x)
  <2>1. pc[x] = "getWork" /\ UNCHANGED <<accepted, store>>
    BY <1>4 DEF GetWork, node
  <2>2. CASE Return(x)
    <3>1. (\A y \in Sessions \ {x} : Stays(y)) /\ (x \in Sessions => Passes(x, "blockPow"))
      BY <2>2, ReturnPasses
    <3>2. QED
      BY <1>2, <2>1, <3>1 DEF Fetching
  <2>3. CASE Goto(x, "store") /\ UNCHANGED <<sol, seen, total>>
    <3>1. (\A y \in Sessions \ {x} : Stays(y)) /\ (x \in Sessions => Passes(x, "store"))
      BY <2>3, GotoPasses
    <3>2. QED
      BY <1>2, <2>1, <3>1 DEF Fetching
  <2>4. CASE Fault /\ Die
    BY <2>1, <2>4, DieEnds, FaultsGrow DEF Quiet
  <2>5. CASE Fault /\ Idle(x)
    BY <2>1, <2>5, IdleEnds, FaultsGrow DEF Quiet
  <2>6. QED
    BY <1>4, <2>2, <2>3, <2>4, <2>5 DEF GetWork, Reply, Store
<1>5. CASE StoreTemplate(x)
  <2>1. pc[x] = "store" /\ UNCHANGED <<accepted, store>> /\ Return(x)
    BY <1>5 DEF StoreTemplate, node
  <2>2. (\A y \in Sessions \ {x} : Stays(y)) /\ (x \in Sessions => Passes(x, "blockPow"))
    BY <2>1, ReturnPasses
  <2>3. QED
    BY <1>2, <2>1, <2>2 DEF Fetching
<1>6. QED
  BY <1>3, <1>4, <1>5 DEF FetchBlockTemplate

\* A step of processShare is one of those that the proofs tell apart.
LEMMA ShareSteps ==
  ASSUME TypeOK, NEW x \in Sessions, ProcessShare(x)
  PROVE  Alone(x) /\ Does(x)
<1>1. x \in Threads
  BY DEF Threads
<1>2. Idle(x) => Alone(x) /\ Ends(x)
  BY <1>1, IdleEnds DEF Alone
<1>3. \A label : Goto(x, label) /\ UNCHANGED <<sol, seen, total>>
        => Alone(x) /\ Passes(x, label)
  BY <1>1, GotoPasses DEF Alone
<1>4. CASE SubmitBlock(x)
  <2>1. Alone(x)
    BY <1>2, <1>3, <1>4 DEF SubmitBlock
  <2>2. Submits(x)
    BY <1>2, <1>3, <1>4, FaultsGrow DEF SubmitBlock, Submits
  <2>3. QED
    BY <2>1, <2>2 DEF Does
<1>5. CASE CheckPoWExist(x)
  <2>1. PICK next \in {"writeShare", "writeBlock"} :
          /\ checkPoWExist(x, next) /\ pc[x] \in {"sharePow", "blockPow"}
          /\ next = IF pc[x] = "sharePow" THEN "writeShare" ELSE "writeBlock"
          /\ UNCHANGED <<work, accepted, round, candidates>>
    BY <1>5 DEF CheckPoWExist, node
  <2>2. \/ \E kept \in {pow, Swept(x)} :
             /\ pow' = kept \cup {Entry(x)}
             /\ \/ /\ Entry(x) \notin kept /\ Goto(x, next)
                   /\ UNCHANGED <<sol, seen, total, held>>
                \/ Entry(x) \in kept /\ Idle(x)
        \/ Fault /\ Idle(x) /\ pow' \in {pow, Swept(x), Swept(x) \cup {Entry(x)}}
    BY <2>1 DEF checkPoWExist, Swept
  <2>3. Swept(x) \subseteq pow
    BY DEF Swept
  <2>4. Alone(x)
    BY <1>2, <1>3, <2>2
  <2>5. Checks(x)
    <3>1. CASE Fault /\ Idle(x) /\ pow' \in {pow, Swept(x), Swept(x) \cup {Entry(x)}}
      BY <1>2, <2>1, <3>1, FaultsGrow DEF Checks
    <3>2. ASSUME NEW kept \in {pow, Swept(x)}, pow' = kept \cup {Entry(x)},
                 Entry(x) \notin kept, Goto(x, next), UNCHANGED <<sol, seen, total, held>>
          PROVE  Checks(x)
      <4>1. Passes(x, next)
        BY <1>3, <3>2
      <4>2. QED
        BY <2>1, <3>2, <4>1 DEF Checks
    <3>3. ASSUME NEW kept \in {pow, Swept(x)}, pow' = kept \cup {Entry(x)},
                 Entry(x) \in kept, Idle(x)
          PROVE  Checks(x)
      BY <1>2, <2>1, <2>3, <3>3 DEF Checks
    <3>4. QED
      BY <2>2, <3>1, <3>2, <3>3
  <2>6. QED
    BY <2>4, <2>5 DEF Does
<1>6. CASE WriteShare(x)
  BY <1>2, <1>6 DEF WriteShare, Does, Shared, node
<1>7. CASE WriteBlock(x)
  <2>1. CASE /\ BlockTx(x) /\ Goto(x, "candidate") /\ UNCHANGED <<sol, seen>>
             /\ total' = [total EXCEPT ![x] = Total(rounds'[seen[x]])]
    <3> DEFINE sum == Total(rounds'[seen[x]])
    <3>1. total' = [total EXCEPT ![x] = sum] /\ total \in [Sessions -> Nat]
      BY <2>1 DEF TypeOK
    <3> HIDE DEF sum
    <3>2. total'[x] = sum /\ \A y \in Sessions \ {x} : total'[y] = total[y]
      BY <3>1
    <3>3. Alone(x) /\ Passes(x, "candidate")
      BY <1>1, <2>1, <3>2, GotoPasses DEF Alone
    <3>4. Closes(x)
      BY <1>7, <2>1, <3>2, <3>3 DEF WriteBlock, Closes, node, sum
    <3>5. QED
      BY <3>3, <3>4 DEF Does
  <2>2. CASE Fault /\ Idle(x) /\ (BlockTx(x) \/ UNCHANGED round)
    BY <1>2, <1>7, <2>2, FaultsGrow DEF WriteBlock, Closes, Does, node
  <2>3. QED
    BY <1>7, <2>1, <2>2 DEF WriteBlock
<1>8. CASE AddCandidate(x)
  BY <1>2, <1>8, FaultsGrow DEF AddCandidate, Does, Registers, Row, node
<1>9. QED
  BY <1>4, <1>5, <1>6, <1>7, <1>8 DEF ProcessShare

\* Every step leaves the store alone, or is the step of one session.
LEMMA Steps ==
  ASSUME TypeOK, [Next]_vars
  PROVE  Quiet \/ \E x \in Sessions : Alone(x) /\ Does(x)
<1>1. CASE UNCHANGED vars
  BY <1>1 DEF vars, node, proxy, Quiet, Stays
<1>2. CASE NewWork
  BY <1>2 DEF NewWork, proxy, Quiet, Stays
<1>3. CASE Crash
  BY <1>3, DieEnds, FaultsGrow DEF Crash, Quiet, node
<1>4. CASE \E x \in Threads : FetchBlockTemplate(x)
  BY <1>4, FetchIsQuiet
<1>5. ASSUME NEW x \in Sessions, Receive(x)
      PROVE  Alone(x) /\ Does(x)
  <2>1. PICK s \in Solutions :
          /\ pc[x] = "idle" /\ template # NoTemplate /\ Work[s] \in template.jobs
          /\ s \in Resent \/ \A y \in Sessions : sol[y] # s
          /\ sol' = [sol EXCEPT ![x] = s]
          /\ seen' = [seen EXCEPT ![x] = template.work]
          /\ \/ /\ Height[Work[s]] = Height[template.work] /\ ~ template.done
                /\ s \in Winning /\ Goto(x, "submit")
             \/ /\ \/ Height[Work[s]] # Height[template.work] \/ template.done
                   \/ s \notin Winning
                /\ Goto(x, "sharePow")
          /\ UNCHANGED <<work, accepted, total, store>>
    BY <1>5 DEF Receive, node
  <2>2. /\ x \in Threads /\ Sessions \subseteq Threads
        /\ DOMAIN sol = Sessions /\ DOMAIN seen = Sessions /\ DOMAIN pc = Threads
        /\ sol = [y \in Sessions |-> sol[y]] /\ seen = [y \in Sessions |-> seen[y]]
        /\ pc = [y \in Threads |-> pc[y]]
    BY DEF TypeOK, Threads
  <2>3. Alone(x)
    BY <2>1, <2>2 DEF Alone, Stays, Goto
  <2>4. Taken(x)
    BY <2>1, <2>2 DEF Taken, Goto
  <2>5. QED
    BY <2>3, <2>4 DEF Does
<1>6. ASSUME NEW x \in Sessions, ReceiveEarly(x)
      PROVE  Quiet
  BY <1>6, DieEnds, FaultsGrow DEF ReceiveEarly, Quiet, node
<1>7. QED
  BY <1>1, <1>2, <1>3, <1>4, <1>5, <1>6, ShareSteps DEF Next

-----------------------------------------------------------------------------
(* Templates and what the sessions know *)

\* The node's work and the blocks it took only grow.
LEMMA NodeGrows ==
  ASSUME TypeOK, [Next]_vars
  PROVE  /\ work \in Nat /\ work' \in Nat /\ work <= work' /\ accepted \subseteq accepted'
         /\ \A w : Submitted(w) => Submitted(w)'
<1>1. work \in Nat
  BY WorksFinite DEF TypeOK
<1>2. work' = work \/ (work' = work + 1)
  BY DEF Next, vars, node, NewWork, Crash, FetchBlockTemplate, Fetch, GetWork,
    StoreTemplate, Receive, ReceiveEarly, ProcessShare, SubmitBlock, CheckPoWExist,
    WriteShare, WriteBlock, AddCandidate
<1>3. accepted \subseteq accepted'
  BY Steps DEF Quiet, Does, Taken, Submits, Checks, Shared, Closes, Registers, Accept
<1>4. QED
  BY <1>1, <1>2, <1>3 DEF Submitted

\* A template stays sound, and the one made of a reply is.
LEMMA SoundStays ==
  ASSUME TypeOK, [Next]_vars, NEW t \in Template, Sound(t)
  PROVE  Sound(t)'
<1>1. \A k \in t.jobs : k \in Nat
  BY WorksFinite DEF Template
<1>2. QED
  BY <1>1, NodeGrows DEF Sound

\* A template made of the node's reply has no job newer than its work.
LEMMA ReplyIsSound ==
  ASSUME TypeOK, NEW jobs \in SUBSET Works, \A k \in jobs : k <= work
  PROVE  Sound(NewTemplate(work, Submitted(work), jobs))
<1>1. work <= work
  BY WorksFinite DEF TypeOK
<1>2. QED
  BY <1>1 DEF Sound, NewTemplate

\* A template is stored or held only if it was before, or comes from the node.
LEMMA HeldMoves ==
  ASSUME TypeOK, TemplatesInv, [Next]_vars
  PROVE  /\ template' \in {template, NoTemplate} \cup {held[x] : x \in Threads}
         /\ \A y \in Threads :
              \/ held'[y] \in {held[y], NoTemplate, template}
              \/ Sound(held'[y]) /\ held'[y] \in Template
<1> DEFINE Good == /\ template' \in {template, NoTemplate} \cup {held[x] : x \in Threads}
                   /\ \A y \in Threads :
                        \/ held'[y] \in {held[y], NoTemplate, template}
                        \/ Sound(held'[y]) /\ held'[y] \in Template
<1>1. DOMAIN held = Threads /\ held = [y \in Threads |-> held[y]]
  BY DEF TypeOK
<1>2. ASSUME NEW x \in Threads, Idle(x) \/ Return(x)
      PROVE  held' = [held EXCEPT ![x] = NoTemplate]
  BY <1>2 DEF Idle, Return
<1>3. Die => Good
  BY DEF Die
<1>4. ASSUME NEW x \in Threads, Fetch(x)
      PROVE  Good
  BY <1>1, <1>4 DEF Fetch
<1>5. ASSUME NEW x \in Threads, GetWork(x)
      PROVE  Good
  <2> DEFINE t == held[x]
             jobs == IF t = NoTemplate THEN {} ELSE t.jobs
             new == NewTemplate(work, Submitted(work), jobs)
             marked == [t EXCEPT !.done = TRUE]
  <2>1. t \in Template \cup {NoTemplate} /\ work \in Works /\ Submitted(work) \in BOOLEAN
    BY DEF TypeOK, Submitted
  <2>2. jobs \in SUBSET Works /\ \A k \in jobs : k <= work
    BY <2>1 DEF Template, TemplatesInv, Sound
  <2>3. Sound(new) /\ new \in Template
    BY <2>1, <2>2, ReplyIsSound, NewTemplateType
  <2>4. ASSUME t # NoTemplate, t.work = work, Submitted(work)
        PROVE  Sound(marked) /\ marked \in Template
    BY <2>1, <2>4 DEF TemplatesInv, Sound, Template
  <2>5. CASE Die
    BY <1>3, <2>5
  <2>6. CASE UNCHANGED template /\ (Idle(x) \/ Return(x))
    BY <1>1, <1>2, <2>6
  <2>7. CASE UNCHANGED template /\ Reply(x) /\ ~ Return(x)
    <3>1. \/ held' = [held EXCEPT ![x] = new]
          \/ /\ held' = [held EXCEPT ![x] = marked]
             /\ t # NoTemplate /\ t.work = work /\ Submitted(work)
      BY <2>7 DEF Reply, Store
    <3> HIDE DEF new, marked
    <3>2. QED
      BY <1>1, <2>3, <2>4, <2>7, <3>1
  <2>8. QED
    BY <1>5, <2>5, <2>6, <2>7 DEF GetWork
<1>6. ASSUME NEW x \in Threads, StoreTemplate(x)
      PROVE  Good
  BY <1>1, <1>2, <1>6 DEF StoreTemplate
<1>7. ASSUME NEW x \in Sessions, ProcessShare(x)
      PROVE  Good
  <2>1. x \in Threads
    BY DEF Threads
  <2>2. UNCHANGED template
    BY <1>7 DEF ProcessShare, SubmitBlock, CheckPoWExist, WriteShare, WriteBlock, AddCandidate
  <2>3. Idle(x) \/ UNCHANGED held
    BY <1>7 DEF ProcessShare, SubmitBlock, CheckPoWExist, checkPoWExist, WriteShare,
      WriteBlock, AddCandidate
  <2>4. QED
    BY <1>1, <1>2, <2>1, <2>2, <2>3
<1>8. (NewWork \/ (\E x \in Sessions : Receive(x)) \/ UNCHANGED vars) => Good
  BY DEF NewWork, Receive, vars, proxy
<1>9. (Crash \/ \E x \in Sessions : ReceiveEarly(x)) => Good
  BY <1>3 DEF Crash, ReceiveEarly
<1> HIDE DEF Good
<1>10. Good
  BY <1>4, <1>5, <1>6, <1>7, <1>8, <1>9 DEF Next, FetchBlockTemplate
<1>11. QED
  BY <1>10 DEF Good

\* Every step keeps the templates sound.
LEMMA TemplatesStep ==
  ASSUME TypeOK, TypeOK', TemplatesInv, [Next]_vars
  PROVE  TemplatesInv'
<1>1. \A t \in Template : Sound(t) => Sound(t)'
  BY SoundStays
<1>2. /\ template' \in Template \cup {NoTemplate}
      /\ \A x \in Threads : held'[x] \in Template \cup {NoTemplate}
  BY DEF TypeOK
<1>3. template' # NoTemplate => Sound(template')
  BY HeldMoves DEF TemplatesInv
<1>4. \A x \in Threads : held'[x] # NoTemplate => Sound(held'[x])
  BY HeldMoves DEF TemplatesInv
<1>5. template' # NoTemplate => Sound(template)'
  BY <1>1, <1>2, <1>3 DEF Sound
<1>6. \A x \in Threads : held'[x] # NoTemplate => Sound(held[x])'
  BY <1>1, <1>2, <1>4 DEF Sound
<1>7. QED
  BY <1>5, <1>6 DEF TemplatesInv

\* Every step keeps what a session's label says of its solution and its template.
LEMMA SessionsStep ==
  ASSUME TypeOK, TypeOK', TemplatesInv, SessionsInv, [Next]_vars
  PROVE  SessionsInv'
<1> DEFINE Knows(y) ==
      /\ pc[y] # "idle" => Work[sol[y]] <= work
      /\ pc[y] \in Writing \cup {"submit"} => Height[Work[sol[y]]] = Height[seen[y]]
      /\ pc[y] = "submit" => sol[y] \in Winning
      /\ pc[y] \in Writing => sol[y] \in accepted
<1>1. work \in Nat /\ work' \in Nat /\ work <= work' /\ accepted \subseteq accepted'
  BY NodeGrows
<1>2. \A y \in Sessions : pc[y] # "idle" => Work[sol[y]] \in Nat
  BY WorksFinite, SolutionsAssumption DEF TypeOK
<1>3. \A y \in Sessions : Knows(y)
  BY DEF SessionsInv
<1>4. ASSUME NEW y \in Sessions, Stays(y)
      PROVE  Knows(y)'
  BY <1>1, <1>2, <1>3, <1>4 DEF Stays
<1>5. ASSUME NEW y \in Sessions, Ends(y)
      PROVE  Knows(y)'
  BY <1>5 DEF Ends, Writing
<1>6. ASSUME NEW y \in Sessions, NEW label, Passes(y, label), pc[y] \in Writing
      PROVE  label \in Writing => Knows(y)'
  BY <1>1, <1>2, <1>3, <1>6 DEF Passes, Writing
<1>7. CASE Quiet
  <2>1. Fetching \subseteq Writing
    BY DEF Fetching, Writing
  <2>2. \A y \in Sessions : Knows(y)'
    <3> HIDE DEF Knows
    <3>1. QED
      BY <1>4, <1>5, <1>6, <1>7, <2>1 DEF Quiet
  <2>3. QED
    BY <2>2 DEF SessionsInv
<1>8. ASSUME NEW x \in Sessions, Alone(x), Does(x)
      PROVE  SessionsInv'
  <2>1. Knows(x)'
    <3>1. CASE Taken(x)
      <4>1. PICK s \in Solutions :
              /\ template # NoTemplate /\ Work[s] \in template.jobs
              /\ sol'[x] = s /\ seen'[x] = template.work /\ work' = work
              /\ \/ /\ Height[Work[s]] = Height[template.work]
                    /\ s \in Winning /\ pc'[x] = "submit"
                 \/ pc'[x] = "sharePow"
        BY <3>1 DEF Taken
      <4>2. Work[s] <= work
        BY <4>1 DEF TemplatesInv, Sound
      <4>3. QED
        BY <4>1, <4>2 DEF Writing
    <3>2. CASE Submits(x)
      <4>1. CASE Accept(sol[x]) /\ Passes(x, "fetch")
        <5>1. sol[x] \in accepted'
          BY <4>1 DEF Accept
        <5>2. QED
          BY <1>1, <1>2, <1>3, <3>2, <4>1, <5>1 DEF Submits, Passes, Writing
      <4>2. QED
        BY <1>5, <3>2, <4>1 DEF Submits
    <3>3. CASE Checks(x)
      <4>1. CASE pc[x] = "sharePow" /\ Passes(x, "writeShare")
        BY <1>1, <1>2, <1>3, <4>1 DEF Passes, Writing
      <4>2. CASE pc[x] = "blockPow" /\ Passes(x, "writeBlock")
        BY <1>6, <4>2 DEF Writing
      <4>3. QED
        BY <1>5, <3>3, <4>1, <4>2 DEF Checks
    <3>4. CASE Closes(x)
      <4>1. CASE Passes(x, "candidate")
        BY <1>6, <3>4, <4>1 DEF Closes, Writing
      <4>2. QED
        BY <1>5, <3>4, <4>1 DEF Closes
    <3>5. QED
      BY <1>5, <1>8, <3>1, <3>2, <3>3, <3>4 DEF Does, Shared, Registers
  <2>2. \A y \in Sessions : Knows(y)'
    <3> HIDE DEF Knows
    <3>1. QED
      BY <1>4, <1>8, <2>1 DEF Alone
  <2>3. QED
    BY <2>2 DEF SessionsInv
<1>9. QED
  BY <1>7, <1>8, Steps

-----------------------------------------------------------------------------
(* Rounds and candidates *)

\* Who is writing a block was, or had it accepted in this step.
LEMMA WritersMove ==
  ASSUME TypeOK, [Next]_vars, NEW y \in Sessions, pc'[y] \in Writing
  PROVE  /\ seen'[y] = seen[y] /\ sol'[y] = sol[y]
         /\ \/ pc[y] \in Writing /\ (pc'[y] # "candidate" => pc[y] # "candidate")
            \/ /\ pc[y] = "submit" /\ pc'[y] = "fetch" /\ Alone(y) /\ Accept(sol[y])
               /\ UNCHANGED <<work, store>>
         /\ pc'[y] = "candidate" =>
              \/ pc[y] = "candidate" /\ total'[y] = total[y]
              \/ pc[y] = "writeBlock" /\ BlockTx(y) /\ total'[y] = Total(rounds'[seen[y]])
<1>1. CASE Quiet
  BY <1>1 DEF Quiet, Stays, Ends, Passes, Fetching, Writing
<1>2. ASSUME NEW x \in Sessions, Alone(x), Does(x), x # y
      PROVE  Stays(y)
  BY <1>2 DEF Alone
<1>3. CASE Alone(y) /\ Does(y)
  BY <1>3 DEF Does, Taken, Submits, Checks, Shared, Closes, Registers, Ends, Passes, Writing
<1>4. QED
  BY <1>1, <1>2, <1>3, Steps DEF Stays

\* Rounds change by a share or by a block, candidates by one.
LEMMA RoundsMove ==
  ASSUME TypeOK, [Next]_vars
  PROVE  \/ UNCHANGED <<round, candidates>>
         \/ \E x \in Sessions :
              pc[x] = "writeShare" /\ ShareTx(x) /\ UNCHANGED candidates
         \/ \E x \in Sessions :
              /\ pc[x] = "writeBlock" /\ pc'[x] \in {"candidate", "idle"} /\ Alone(x)
              /\ BlockTx(x) /\ UNCHANGED candidates
         \/ \E x \in Sessions :
              /\ pc[x] = "candidate" /\ pc'[x] = "idle" /\ Alone(x)
              /\ candidates' = candidates \cup {Row(x)} /\ UNCHANGED round
<1>1. CASE Quiet
  BY <1>1 DEF Quiet, store
<1>2. ASSUME NEW x \in Sessions, Alone(x), Does(x)
      PROVE  \/ UNCHANGED <<round, candidates>>
             \/ pc[x] = "writeShare" /\ ShareTx(x) /\ UNCHANGED candidates
             \/ /\ pc[x] = "writeBlock" /\ pc'[x] \in {"candidate", "idle"} /\ Alone(x)
                /\ BlockTx(x) /\ UNCHANGED candidates
             \/ /\ pc[x] = "candidate" /\ pc'[x] = "idle" /\ Alone(x)
                /\ candidates' = candidates \cup {Row(x)} /\ UNCHANGED round
  BY <1>2 DEF Does, Taken, Submits, Checks, Shared, Closes, Registers, Ends, Passes, store
<1>3. QED
  BY <1>1, <1>2, Steps

\* A share adds one to the current round's total.
LEMMA ShareTotal ==
  ASSUME TypeOK, NEW x \in Sessions, pc[x] # "idle"
  PROVE  Total(writeShare(x)) > 0
<1> DEFINE m == Miner[sol[x]]
<1>1. current \in [Miners -> Nat] /\ m \in Miners
  BY ShareType DEF TypeOK
<1>2. /\ writeShare(x) \in [Miners -> Nat]
      /\ writeShare(x)[m] = current[m] + 1
      /\ \A n \in Miners \ {m} : writeShare(x)[n] = current[n]
  BY <1>1 DEF writeShare
<1>3. Total(writeShare(x)) = Total(current) + writeShare(x)[m] - current[m]
  <2>1. \A n \in Miners : current[n] \in Int /\ writeShare(x)[n] \in Int
    BY <1>1, <1>2
  <2> HIDE DEF m
  <2>2. QED
    BY <1>1, <1>2, <2>1, MinersAssumption, SumChange DEF Total
<1>4. Total(current) \in Nat
  BY <1>1, TotalType
<1>5. QED
  BY <1>1, <1>2, <1>3, <1>4

\* What an accepted solution finds: no other writer, round or candidate of its
\* height.
LEMMA Fresh ==
  ASSUME TypeOK, SessionsInv, WritersInv, NEW y \in Sessions, pc[y] = "submit",
         Accept(sol[y])
  PROVE  /\ \A w \in Works : Height[w] = Height[seen[y]] => rounds[w] = Empty
         /\ \A c \in candidates : Height[c.hash] # Height[seen[y]]
         /\ \A x \in Sessions : pc[x] \in Writing => Height[seen[x]] # Height[seen[y]]
<1>1. Height[seen[y]] = Height[work] /\ ~ Submitted(work)
  BY DEF SessionsInv, Accept
<1>2. \A w : Height[w] = Height[seen[y]] => ~ Submitted(w)
  BY <1>1 DEF Submitted
<1>3. \A x \in Sessions : pc[x] \in Writing => Submitted(seen[x])
  BY DEF SessionsInv, Submitted
<1>4. QED
  BY <1>2, <1>3 DEF WritersInv

\* Every step keeps the rounds that a session is about to name as it needs them.
LEMMA WritersStep ==
  ASSUME TypeOK, TypeOK', SessionsInv, WritersInv, [Next]_vars
  PROVE  WritersInv'
<1> DEFINE Enters(y) == /\ pc[y] = "submit" /\ pc'[y] = "fetch" /\ Alone(y)
                        /\ Accept(sol[y]) /\ UNCHANGED <<work, store>>
<1>1. \A y \in Sessions : pc'[y] \in Writing =>
        /\ seen'[y] = seen[y]
        /\ \/ pc[y] \in Writing /\ (pc'[y] # "candidate" => pc[y] # "candidate")
           \/ Enters(y)
  BY WritersMove
<1>2. \A y \in Sessions : Enters(y) =>
        /\ \A w \in Works : Height[w] = Height[seen[y]] => rounds[w] = Empty
        /\ \A c \in candidates : Height[c.hash] # Height[seen[y]]
        /\ \A x \in Sessions : pc[x] \in Writing => Height[seen[x]] # Height[seen[y]]
  BY Fresh
<1>3. \A x, y \in Sessions : pc[x] \in Writing /\ pc[y] \in Writing
        /\ Height[seen[x]] = Height[seen[y]] => x = y
  BY DEF WritersInv
<1>4. ASSUME NEW x \in Sessions, NEW y \in Sessions, pc'[x] \in Writing, pc'[y] \in Writing,
             Height[seen'[x]] = Height[seen'[y]]
      PROVE  x = y
  <2>1. SUFFICES ASSUME x # y PROVE FALSE
    OBVIOUS
  <2>2. ~ (Enters(x) /\ Enters(y))
    <3>1. "submit" # "fetch"
      OBVIOUS
    <3>2. QED
      BY <2>1, <3>1 DEF Alone, Stays
  <2>3. QED
    BY <1>1, <1>2, <1>3, <1>4, <2>1, <2>2
<1>5. ASSUME NEW x \in Sessions, pc'[x] \in Writing, NEW c \in candidates'
      PROVE  Height[c.hash] # Height[seen'[x]]
  <2>1. CASE c \in candidates
    BY <1>1, <1>2, <1>5, <2>1 DEF WritersInv
  <2>2. CASE c \notin candidates
    <3>1. PICK y \in Sessions : pc[y] = "candidate" /\ pc'[y] = "idle" /\ Alone(y) /\ c = Row(y)
      BY <1>5, <2>2, RoundsMove
    <3>2. x # y /\ Stays(x) /\ c.hash = seen[y]
      BY <1>5, <3>1 DEF Writing, Alone, Row
    <3>3. pc[x] \in Writing /\ pc[y] \in Writing /\ seen'[x] = seen[x]
      BY <1>5, <3>1, <3>2 DEF Stays, Writing
    <3>4. QED
      BY <1>3, <3>2, <3>3
  <2>3. QED
    BY <2>1, <2>2
<1>6. ASSUME NEW x \in Sessions, pc'[x] \in Writing, NEW w \in Works,
             Height[w] = Height[seen'[x]], rounds'[w] # rounds[w]
      PROVE  /\ pc'[x] = "candidate" /\ pc[x] = "writeBlock" /\ BlockTx(x) /\ w = seen[x]
  <2>1. PICK y \in Sessions : /\ pc[y] = "writeBlock" /\ pc'[y] \in {"candidate", "idle"}
                              /\ Alone(y) /\ BlockTx(y)
    BY <1>6, RoundsMove DEF round, ShareTx
  <2>2. w = seen[y]
    BY <1>6, <2>1 DEF BlockTx, TypeOK
  <2>3. x = y
    <3>1. SUFFICES ASSUME x # y PROVE FALSE
      OBVIOUS
    <3>2. Stays(x)
      BY <2>1, <3>1 DEF Alone
    <3>3. QED
      BY <1>3, <1>6, <2>1, <2>2, <3>1, <3>2 DEF Stays, Writing
  <2>4. QED
    BY <1>6, <2>1, <2>2, <2>3 DEF Writing
<1>7. ASSUME NEW x \in Sessions, pc'[x] \in Writing \ {"candidate"}, NEW w \in Works,
             Height[w] = Height[seen'[x]]
      PROVE  rounds'[w] = Empty
  <2>1. rounds'[w] = rounds[w]
    BY <1>6, <1>7
  <2>2. rounds[w] = Empty
    BY <1>1, <1>2, <1>7 DEF WritersInv
  <2>3. QED
    BY <2>1, <2>2
<1>8. ASSUME NEW x \in Sessions, pc'[x] = "candidate"
      PROVE  total'[x] = Total(rounds'[seen'[x]]) /\ total'[x] > 0
  <2>1. /\ seen'[x] = seen[x]
        /\ \/ pc[x] = "candidate" /\ total'[x] = total[x]
           \/ pc[x] = "writeBlock" /\ BlockTx(x) /\ total'[x] = Total(rounds'[seen[x]])
    BY <1>8, WritersMove DEF Writing
  <2>2. seen[x] \in Works /\ rounds \in [Works -> [Miners -> Nat]]
    BY <2>1 DEF TypeOK
  <2>3. CASE pc[x] = "candidate" /\ total'[x] = total[x]
    <3>1. rounds'[seen[x]] = rounds[seen[x]]
      BY <1>6, <1>8, <2>1, <2>2, <2>3 DEF Writing
    <3>2. QED
      BY <2>1, <2>3, <3>1 DEF WritersInv
  <2>4. CASE pc[x] = "writeBlock" /\ BlockTx(x) /\ total'[x] = Total(rounds'[seen[x]])
    <3>1. rounds'[seen[x]] = writeShare(x)
      BY <2>2, <2>4 DEF BlockTx
    <3>2. QED
      BY <2>1, <2>4, <3>1, ShareTotal
  <2>5. QED
    BY <2>1, <2>3, <2>4
<1>9. \A x \in Sessions : pc[x] \in Writing => Submitted(seen[x])
  BY DEF SessionsInv, Submitted
<1>10. ASSUME NEW w \in Works, rounds'[w] # Empty
       PROVE  Submitted(w)'
  <2>1. CASE rounds'[w] = rounds[w]
    BY <1>10, <2>1, NodeGrows DEF WritersInv
  <2>2. CASE rounds'[w] # rounds[w]
    <3>1. PICK y \in Sessions : pc[y] = "writeBlock" /\ BlockTx(y)
      BY <2>2, RoundsMove DEF round, ShareTx
    <3>2. w = seen[y]
      BY <2>2, <3>1 DEF BlockTx, TypeOK
    <3>3. QED
      BY <1>9, <3>1, <3>2, NodeGrows DEF Writing
  <2>3. QED
    BY <2>1, <2>2
<1>11. ASSUME NEW c \in candidates'
       PROVE  Submitted(c.hash)'
  <2>1. CASE c \in candidates
    BY <2>1, NodeGrows DEF WritersInv
  <2>2. CASE c \notin candidates
    <3>1. PICK y \in Sessions : pc[y] = "candidate" /\ c = Row(y)
      BY <1>11, <2>2, RoundsMove
    <3>2. QED
      BY <1>9, <3>1, NodeGrows DEF Writing, Row
  <2>3. QED
    BY <2>1, <2>2
<1>12. QED
  BY <1>4, <1>5, <1>7, <1>8, <1>10, <1>11 DEF WritersInv

\* Every step keeps a round of the right size for each candidate.
LEMMA CandidatesStep ==
  ASSUME TypeOK, TypeOK', SessionsInv, WritersInv, CandidateHasRound, [Next]_vars
  PROVE  CandidateHasRound'
<1> DEFINE Good(c) == /\ c.total = Total(rounds'[c.hash]) /\ c.total > 0
                      /\ Height[c.hash] = Height[Work[c.sol]]
<1>1. ASSUME NEW c \in candidates
      PROVE  Good(c)
  <2>1. /\ c.total = Total(rounds[c.hash]) /\ c.total > 0
        /\ Height[c.hash] = Height[Work[c.sol]] /\ c.hash \in Works
    BY <1>1 DEF CandidateHasRound, TypeOK
  <2>2. rounds'[c.hash] = rounds[c.hash]
    <3>1. CASE UNCHANGED rounds
      BY <3>1
    <3>2. ASSUME NEW y \in Sessions, pc[y] = "writeBlock", BlockTx(y)
          PROVE  rounds'[c.hash] = rounds[c.hash]
      <4>1. c.hash # seen[y]
        BY <1>1, <3>2 DEF WritersInv, Writing
      <4>2. QED
        BY <2>1, <3>2, <4>1 DEF BlockTx, TypeOK
    <3>3. QED
      BY <3>1, <3>2, RoundsMove DEF round, ShareTx
  <2>3. QED
    BY <2>1, <2>2
<1>2. CASE candidates' = candidates
  BY <1>1, <1>2 DEF CandidateHasRound
<1>3. ASSUME NEW x \in Sessions, pc[x] = "candidate", candidates' = candidates \cup {Row(x)},
             UNCHANGED round
      PROVE  CandidateHasRound'
  <2>1. Good(Row(x))
    BY <1>3 DEF Row, round, WritersInv, SessionsInv, Writing
  <2>2. \A c \in candidates : Height[c.hash] # Height[Row(x).hash]
    BY <1>3 DEF WritersInv, Writing, Row
  <2> HIDE DEF Good
  <2>3. \A c \in candidates' : Good(c)
    BY <1>1, <1>3, <2>1
  <2>4. \A c, d \in candidates' : Height[d.hash] = Height[c.hash] => d = c
    BY <1>3, <2>2 DEF CandidateHasRound
  <2>5. QED
    BY <2>3, <2>4 DEF CandidateHasRound, Good
<1>4. QED
  BY <1>2, <1>3, RoundsMove

-----------------------------------------------------------------------------
(* Every counted share is in one round *)

\* Counting adds one to the times the session's solution was counted.
LEMMA CountAdds ==
  ASSUME TypeOK, TypeOK', NEW x \in Sessions, pc[x] # "idle", Count(x), NEW m \in Miners
  PROVE  LET mine == {s \in Solutions : Miner[s] = m}
         IN SumFunctionOnSet(TimesCounted', mine) =
              SumFunctionOnSet(TimesCounted, mine)
                + IF m = Miner[sol[x]] THEN 1 ELSE 0
<1> DEFINE mine == {s \in Solutions : Miner[s] = m}
           t == sol[x]
<1>1. /\ t \in Solutions /\ seen[x] \in Works
      /\ counted \in [Solutions -> [Works -> Nat]] /\ counted' \in [Solutions -> [Works -> Nat]]
  BY DEF TypeOK
<1>2. /\ counted'[t][seen[x]] = counted[t][seen[x]] + 1
      /\ \A w \in Works \ {seen[x]} : counted'[t][w] = counted[t][w]
      /\ \A s \in Solutions \ {t} : counted'[s] = counted[s]
  BY <1>1 DEF Count
<1>3. \A s \in Solutions : TimesCounted[s] \in Int /\ TimesCounted'[s] \in Int
  <2>1. ASSUME NEW f \in [Works -> Nat]
        PROVE  SumFunctionOnSet(f, Works) \in Int
    <3>1. \A w \in Works : f[w] \in Int
      OBVIOUS
    <3>2. QED
      BY <3>1, WorksFinite, SumType
  <2>2. QED
    BY <1>1, <2>1 DEF TimesCounted
<1>4. TimesCounted'[t] = TimesCounted[t] + 1
  <2>1. \A w \in Works : counted[t][w] \in Int /\ counted'[t][w] \in Int
    BY <1>1
  <2>2. SumFunctionOnSet(counted'[t], Works) =
          SumFunctionOnSet(counted[t], Works) + counted'[t][seen[x]] - counted[t][seen[x]]
    <3> DEFINE f == counted[t]
               g == counted'[t]
               v == seen[x]
    <3>1. /\ v \in Works /\ \A w \in Works : f[w] \in Int /\ g[w] \in Int
          /\ \A w \in Works \ {v} : g[w] = f[w]
      BY <1>1, <1>2, <2>1
    <3> HIDE DEF f, g, v
    <3>2. SumFunctionOnSet(g, Works) = SumFunctionOnSet(f, Works) + g[v] - f[v]
      BY <3>1, WorksFinite, SumChange
    <3>3. QED
      BY <3>2 DEF f, g, v
  <2>3. SumFunctionOnSet(counted[t], Works) \in Int
    BY <2>1, WorksFinite, SumType
  <2>4. QED
    BY <1>1, <1>2, <2>1, <2>2, <2>3 DEF TimesCounted
<1>5. \A s \in Solutions \ {t} : TimesCounted'[s] = TimesCounted[s]
  BY <1>2 DEF TimesCounted
<1>6. IsFiniteSet(mine) /\ mine \subseteq Solutions
  BY SolutionsAssumption, FS_Subset
<1>7. SumFunctionOnSet(TimesCounted, mine) \in Int
  BY <1>3, <1>6, SumType
<1>8. CASE m = Miner[t]
  <2>1. t \in mine /\ \A s \in mine \ {t} : TimesCounted'[s] = TimesCounted[s]
    BY <1>1, <1>5, <1>8
  <2>2. \A s \in mine : TimesCounted[s] \in Int /\ TimesCounted'[s] \in Int
    BY <1>3, <1>6
  <2> HIDE DEF mine, t
  <2>3. SumFunctionOnSet(TimesCounted', mine) =
          SumFunctionOnSet(TimesCounted, mine) + TimesCounted'[t] - TimesCounted[t]
    BY <1>6, <2>1, <2>2, SumChange
  <2>4. SumFunctionOnSet(TimesCounted', mine) = SumFunctionOnSet(TimesCounted, mine) + 1
    BY <1>4, <1>7, <2>1, <2>2, <2>3
  <2>5. QED
    BY <1>8, <2>4 DEF mine, t
<1>9. CASE m # Miner[t]
  <2>1. \A s \in mine : TimesCounted'[s] = TimesCounted[s]
    BY <1>1, <1>5, <1>9
  <2>2. SumFunctionOnSet(TimesCounted', mine) = SumFunctionOnSet(TimesCounted, mine)
    BY <1>6, <2>1, SumAgree
  <2>3. QED
    BY <1>7, <1>9, <2>2
<1>10. QED
  BY <1>8, <1>9

\* Every step keeps the sum of the shares over the rounds.
LEMMA RoundsStep ==
  ASSUME TypeOK, TypeOK', SessionsInv, WritersInv, RoundsAddUp, [Next]_vars
  PROVE  RoundsAddUp'
<1> DEFINE Closed(m) == [w \in Works |-> rounds[w][m]]
<1>1. SUFFICES ASSUME NEW m \in Miners
               PROVE  SumFunctionOnSet(TimesCounted', {s \in Solutions : Miner[s] = m})
                        = current'[m] + SumFunctionOnSet(Closed(m)', Works)
  BY DEF RoundsAddUp
<1> DEFINE mine == {s \in Solutions : Miner[s] = m}
           share(x) == IF m = Miner[sol[x]] THEN 1 ELSE 0
<1>2. SumFunctionOnSet(TimesCounted, mine) = current[m] + SumFunctionOnSet(Closed(m), Works)
  BY DEF RoundsAddUp
<1>3. /\ current \in [Miners -> Nat] /\ rounds \in [Works -> [Miners -> Nat]]
      /\ rounds' \in [Works -> [Miners -> Nat]]
  BY DEF TypeOK
<1>4. \A w \in Works : Closed(m)[w] \in Int /\ Closed(m)'[w] \in Int
  BY <1>3
<1>5. SumFunctionOnSet(Closed(m), Works) \in Int
  BY <1>4, WorksFinite, SumType
<1>6. ASSUME NEW x \in Sessions, pc[x] # "idle", Count(x)
      PROVE  SumFunctionOnSet(TimesCounted', mine) =
               SumFunctionOnSet(TimesCounted, mine) + share(x)
  BY <1>6, CountAdds
<1>7. CASE UNCHANGED round
  BY <1>2, <1>7 DEF round, TimesCounted
<1>8. ASSUME NEW x \in Sessions, pc[x] # "idle"
      PROVE  writeShare(x)[m] = current[m] + share(x)
  BY <1>3, <1>8 DEF writeShare
<1>9. ASSUME NEW x \in Sessions, pc[x] = "writeShare", ShareTx(x)
      PROVE  SumFunctionOnSet(TimesCounted', mine)
               = current'[m] + SumFunctionOnSet(Closed(m)', Works)
  <2>1. /\ SumFunctionOnSet(TimesCounted', mine) =
             SumFunctionOnSet(TimesCounted, mine) + share(x)
        /\ current'[m] = current[m] + share(x)
        /\ Closed(m)' = Closed(m)
    BY <1>6, <1>8, <1>9 DEF ShareTx
  <2>2. current[m] \in Nat /\ share(x) \in Nat
    BY <1>3
  <2> HIDE DEF mine, share, Closed
  <2>3. QED
    BY <1>2, <1>5, <2>1, <2>2
<1>10. ASSUME NEW x \in Sessions, pc[x] = "writeBlock", BlockTx(x)
       PROVE  SumFunctionOnSet(TimesCounted', mine)
                = current'[m] + SumFunctionOnSet(Closed(m)', Works)
  <2> DEFINE v == seen[x]
  <2>1. v \in Works /\ rounds[v] = Empty
    BY <1>10 DEF TypeOK, WritersInv, Writing
  <2>2. /\ SumFunctionOnSet(TimesCounted', mine) =
             SumFunctionOnSet(TimesCounted, mine) + share(x)
        /\ writeShare(x)[m] = current[m] + share(x)
    BY <1>6, <1>8, <1>10 DEF BlockTx
  <2>3. current'[m] = 0 /\ Closed(m)[v] = 0
    BY <1>10, <2>1 DEF BlockTx, Empty
  <2>4. /\ Closed(m)'[v] = writeShare(x)[m]
        /\ \A w \in Works \ {v} : Closed(m)'[w] = Closed(m)[w]
    BY <1>3, <1>10, <2>1 DEF BlockTx
  <2>5. current[m] \in Nat /\ share(x) \in Nat
    BY <1>3
  <2> HIDE DEF mine, share, Closed, v
  <2>6. SumFunctionOnSet(Closed(m)', Works) =
          SumFunctionOnSet(Closed(m), Works) + Closed(m)'[v] - Closed(m)[v]
    BY <1>4, <2>1, <2>4, WorksFinite, SumChange
  <2>7. QED
    BY <1>2, <1>5, <2>2, <2>3, <2>4, <2>5, <2>6
<1>11. QED
  BY <1>7, <1>9, <1>10, RoundsMove

-----------------------------------------------------------------------------
(* The duplicate list *)

\* What was counted, and what the list holds, after a step.
LEMMA ListMoves ==
  ASSUME TypeOK, [Next]_vars
  PROVE  /\ \/ UNCHANGED counted
            \/ \E x \in Sessions :
                 Passed(x) /\ Alone(x) /\ ~ Passed(x)' /\ Count(x) /\ UNCHANGED pow
         /\ \/ UNCHANGED pow
            \/ \E x \in Sessions : Checks(x) /\ Alone(x)
         /\ \A y \in Sessions : Passed(y)' =>
              /\ sol'[y] = sol[y] /\ seen'[y] = seen[y]
              /\ Passed(y) \/ (Checks(y) /\ Alone(y) /\ ~ Ends(y))
<1>1. CASE Quiet
  BY <1>1 DEF Quiet, store, round, Stays, Ends, Passes, Passed, Fetching
<1>2. ASSUME NEW x \in Sessions, Alone(x), Does(x)
      PROVE  /\ \/ UNCHANGED counted
                \/ Passed(x) /\ ~ Passed(x)' /\ Count(x) /\ UNCHANGED pow
             /\ UNCHANGED pow \/ Checks(x)
             /\ Passed(x)' => /\ sol'[x] = sol[x] /\ seen'[x] = seen[x]
                              /\ Checks(x) /\ ~ Ends(x)
  BY <1>2 DEF Does, Taken, Submits, Checks, Shared, Closes, Registers, store, round,
    ShareTx, BlockTx, Ends, Passes, Passed
<1>3. ASSUME NEW x \in Sessions, Alone(x), NEW y \in Sessions, x # y
      PROVE  Passed(y)' => sol'[y] = sol[y] /\ seen'[y] = seen[y] /\ Passed(y)
  BY <1>3 DEF Alone, Stays, Passed
<1>4. QED
  BY <1>1, <1>2, <1>3, Steps

\* The sweep spares what is recent: nobody submits a work the node has not issued.
LEMMA SweepSpares ==
  ASSUME TypeOK, SessionsInv, NEW x \in Sessions, pc[x] # "idle", NEW e \in pow,
         Recent(e.sol)
  PROVE  e \in Swept(x)
<1> DEFINE v == Work[sol[x]]
<1>1. v \in Works /\ v <= work /\ work \in Works /\ e.sol \in Solutions
  BY SolutionsAssumption DEF TypeOK, SessionsInv
<1>2. Work[e.sol] \in Works
  BY <1>1, SolutionsAssumption
<1>3. Height[v] \in Nat /\ Height[work] \in Nat /\ Height[Work[e.sol]] \in Nat
  BY <1>1, <1>2, WorksAssumption
<1>4. Height[v] <= Height[work]
  <2>1. v \in Nat /\ work \in Nat
    BY <1>1, WorksFinite
  <2>2. v = work \/ v < work
    BY <1>1, <2>1
  <2>3. QED
    BY <1>1, <1>3, <2>2, WorksAssumption
<1>5. Height[Work[e.sol]] >= Height[v] - PowBacklog
  BY <1>3, <1>4, BacklogAssumption DEF Recent
<1>6. QED
  BY <1>5 DEF Swept

\* What is recent after a step was so before it, and what is in the list then stays.
LEMMA RecentStays ==
  ASSUME TypeOK, TypeOK', SessionsInv, [Next]_vars, NEW s \in Solutions, Recent(s)'
  PROVE  /\ Recent(s)
         /\ \A w : [sol |-> s, on |-> w] \in pow => [sol |-> s, on |-> w] \in pow'
<1>1. Recent(s)
  <2>1. work \in Works /\ work' \in Works /\ Work[s] \in Works
    BY SolutionsAssumption DEF TypeOK
  <2>2. Height[work] \in Nat /\ Height[work'] \in Nat /\ Height[Work[s]] \in Nat
    BY <2>1, WorksAssumption
  <2>3. Height[work] <= Height[work']
    <3>1. work = work' \/ work < work'
      BY NodeGrows
    <3>2. QED
      BY <2>1, <2>2, <3>1, WorksAssumption
  <2>4. QED
    BY <2>2, <2>3, BacklogAssumption DEF Recent
<1>2. ASSUME NEW w, [sol |-> s, on |-> w] \in pow
      PROVE  [sol |-> s, on |-> w] \in pow'
  <2> DEFINE e == [sol |-> s, on |-> w]
  <2>1. CASE UNCHANGED pow
    BY <1>2, <2>1
  <2>2. ASSUME NEW x \in Sessions, Checks(x)
        PROVE  e \in pow'
    <3>1. e \in pow /\ e.sol = s
      BY <1>2
    <3> HIDE DEF e
    <3>2. e \in Swept(x)
      BY <1>1, <2>2, <3>1, SweepSpares DEF Checks
    <3>3. QED
      BY <2>2, <3>1, <3>2 DEF Checks
  <2>3. QED
    BY <2>1, <2>2, ListMoves
<1>3. QED
  BY <1>1, <1>2

\* Every step keeps the duplicate list as long as it is needed.
LEMMA ListStep ==
  ASSUME TypeOK, TypeOK', SessionsInv, ListInv, [Next]_vars
  PROVE  ListInv'
<1> DEFINE New(y) == Checks(y) /\ Alone(y) /\ ~ Ends(y)
<1>1. \A y \in Sessions : Passed(y)' =>
        /\ sol'[y] = sol[y] /\ seen'[y] = seen[y] /\ Entry(y)' = Entry(y)
        /\ sol[y] \in Solutions /\ seen[y] \in Works
        /\ Passed(y) \/ New(y)
  BY ListMoves DEF Entry, TypeOK, Passed, Checks
<1>2. \A s \in Solutions : Recent(s)' =>
        Recent(s) /\ \A w : [sol |-> s, on |-> w] \in pow => [sol |-> s, on |-> w] \in pow'
  BY RecentStays
<1> DEFINE After(y) == Passed(y)' /\ Recent(sol[y])'
<1>2a. \A y \in Sessions : After(y) =>
         /\ Recent(sol[y]) /\ Entry(y)' = Entry(y)
         /\ sol'[y] = sol[y] /\ seen'[y] = seen[y]
         /\ Entry(y) \in pow => Entry(y) \in pow'
  BY <1>1, <1>2 DEF Recent, Entry
<1>3. \A y \in Sessions : Entry(y) = [sol |-> sol[y], on |-> seen[y]]
  BY DEF Entry
<1>4. ASSUME NEW y \in Sessions, New(y), Recent(sol[y])
      PROVE  Entry(y) \notin pow /\ Entry(y) \in pow'
  <2>1. PICK kept \in {pow, Swept(y)} : pow' = kept \cup {Entry(y)} /\ Entry(y) \notin kept
    BY <1>4 DEF Checks
  <2>2. pc[y] # "idle" /\ Entry(y).sol = sol[y]
    BY <1>3, <1>4 DEF Checks
  <2>3. Entry(y) \in pow => Entry(y) \in Swept(y)
    BY <1>4, <2>2, SweepSpares
  <2>4. QED
    BY <2>1, <2>3
<1>5. \A x, y \in Sessions : x # y /\ New(x) => ~ New(y) /\ Stays(y)
  <2>1. \A x \in Sessions : New(x) => pc'[x] # pc[x]
    BY DEF Checks, Passes
  <2>2. QED
    BY <2>1 DEF Alone, Stays
<1>6. \A s \in Solutions : \A w \in Works : Recent(s) /\ [sol |-> s, on |-> w] \notin pow
        => counted[s][w] = 0
  BY DEF ListInv
<1>7. ASSUME NEW x \in Sessions, Passed(x)', Recent(sol[x])'
      PROVE  Entry(x)' \in pow' /\ counted'[sol'[x]][seen'[x]] = 0
  <2>1. Recent(sol[x]) /\ sol[x] \in Solutions /\ seen[x] \in Works
    BY <1>1, <1>2a, <1>7
  <2>2. CASE New(x)
    <3>1. UNCHANGED counted
      BY <2>2 DEF Checks, round
    <3>2. QED
      BY <1>1, <1>3, <1>4, <1>6, <1>7, <2>1, <2>2, <3>1
  <2>3. CASE Passed(x)
    <3>1. Entry(x) \in pow /\ counted[sol[x]][seen[x]] = 0
      BY <2>1, <2>3 DEF ListInv
    <3>2. Entry(x) \in pow'
      BY <1>2a, <1>7, <3>1
    <3>3. counted'[sol[x]][seen[x]] = 0
      <4>1. CASE UNCHANGED counted
        BY <3>1, <4>1
      <4>2. ASSUME NEW y \in Sessions, Passed(y), ~ Passed(y)', Count(y)
            PROVE  counted'[sol[x]][seen[x]] = 0
        <5>1. Entry(y) # Entry(x)
          BY <1>7, <2>1, <2>3, <4>2 DEF ListInv
        <5>2. sol[y] # sol[x] \/ seen[y] # seen[x]
          BY <1>3, <5>1
        <5>3. counted \in [Solutions -> [Works -> Nat]]
          BY DEF TypeOK
        <5>4. QED
          BY <2>1, <3>1, <4>2, <5>2, <5>3 DEF Count
      <4>3. QED
        BY <4>1, <4>2, ListMoves
    <3>4. QED
      BY <1>1, <1>7, <3>2, <3>3
  <2>4. QED
    BY <1>1, <1>7, <2>2, <2>3
<1>8. ASSUME NEW x \in Sessions, NEW y \in Sessions, Passed(x)', Passed(y)',
             Recent(sol[x])', Entry(x)' = Entry(y)'
      PROVE  x = y
  <2>1. SUFFICES ASSUME x # y PROVE FALSE
    OBVIOUS
  <2>2. Entry(x) = Entry(y) /\ Recent(sol[x]) /\ sol[y] = sol[x]
    BY <1>1, <1>3, <1>8, <1>2a
  <2>3. CASE Passed(x) /\ Passed(y)
    BY <2>1, <2>2, <2>3 DEF ListInv
  <2>4. CASE New(x) /\ Passed(y)
    BY <1>4, <2>2, <2>4 DEF ListInv
  <2>5. CASE Passed(x) /\ New(y)
    BY <1>4, <2>2, <2>5 DEF ListInv
  <2>6. QED
    BY <1>1, <1>5, <1>8, <2>1, <2>3, <2>4, <2>5
<1>9. ASSUME NEW s \in Solutions, NEW w \in Works, Recent(s)'
      PROVE  \/ counted'[s][w] = 0
             \/ counted'[s][w] = 1 /\ [sol |-> s, on |-> w] \in pow'
  <2>1. \/ counted[s][w] = 0
        \/ counted[s][w] = 1 /\ [sol |-> s, on |-> w] \in pow'
    BY <1>2, <1>9 DEF ListInv
  <2>2. CASE UNCHANGED counted
    BY <2>1, <2>2
  <2>3. ASSUME NEW x \in Sessions, Passed(x), Count(x), UNCHANGED pow
        PROVE  \/ counted'[s][w] = 0
               \/ counted'[s][w] = 1 /\ [sol |-> s, on |-> w] \in pow'
    <3>1. /\ counted \in [Solutions -> [Works -> Nat]]
          /\ sol[x] \in Solutions /\ seen[x] \in Works
      BY <2>3 DEF TypeOK, Passed
    <3>2. CASE s = sol[x] /\ w = seen[x]
      <4>1. Entry(x) \in pow /\ counted[s][w] = 0
        BY <1>2, <1>9, <2>3, <3>2 DEF ListInv
      <4>2. counted'[s][w] = counted[s][w] + 1
        BY <2>3, <3>1, <3>2 DEF Count
      <4>3. QED
        BY <1>3, <2>3, <3>2, <4>1, <4>2
    <3>3. CASE ~ (s = sol[x] /\ w = seen[x])
      <4>1. counted'[s][w] = counted[s][w]
        BY <2>3, <3>1, <3>3 DEF Count
      <4>2. QED
        BY <2>1, <4>1
    <3>4. QED
      BY <3>2, <3>3
  <2>4. QED
    BY <2>2, <2>3, ListMoves
<1>10. QED
  BY <1>7, <1>8, <1>9 DEF ListInv

-----------------------------------------------------------------------------
(* The blocks the node took *)

\* A fault is never forgotten.
LEMMA FaultsStay ==
  ASSUME TypeOK, [Next]_vars, faults' = 0
  PROVE  faults = 0
<1>1. faults \in Nat /\ (Fault => faults' > 0)
  BY FaultsGrow, BoundsAssumption DEF TypeOK
<1>2. Fault \/ UNCHANGED faults
  BY DEF Next, vars, NewWork, Crash, FetchBlockTemplate, Fetch, GetWork, StoreTemplate,
    Receive, ReceiveEarly, ProcessShare, SubmitBlock, CheckPoWExist, checkPoWExist,
    WriteShare, WriteBlock, AddCandidate
<1>3. QED
  BY <1>1, <1>2

\* A session goes on with its solution, drops it, or takes one it may take.
LEMMA SolutionsMove ==
  ASSUME TypeOK, [Next]_vars
  PROVE  \E x \in Sessions \cup {Refresh} :
           /\ \A y \in Sessions \ {x} : sol'[y] \in {sol[y], NoSolution}
           /\ x \in Sessions =>
                \/ sol'[x] \in {sol[x], NoSolution}
                \/ sol'[x] \in Resent
                \/ \A y \in Sessions : sol[y] # sol'[x]
<1>1. CASE Quiet
  BY <1>1, ThreadsAssumption DEF Quiet, Stays, Ends, Passes
<1>2. ASSUME NEW x \in Sessions, Alone(x), Does(x)
      PROVE  /\ \A y \in Sessions \ {x} : sol'[y] \in {sol[y], NoSolution}
             /\ \/ sol'[x] \in {sol[x], NoSolution}
                \/ sol'[x] \in Resent
                \/ \A y \in Sessions : sol[y] # sol'[x]
  BY <1>2 DEF Alone, Does, Taken, Submits, Checks, Shared, Closes, Registers, Stays,
    Ends, Passes
<1>3. QED
  BY <1>1, <1>2, Steps

\* Every step keeps a session on its way to the candidate of an accepted block.
LEMMA WinnersStep ==
  ASSUME TypeOK, TypeOK', TemplatesInv, SessionsInv, WinnersInv, [Next]_vars
  PROVE  WinnersInv'
<1>1. ASSUME NEW x \in Sessions, NEW y \in Sessions, x # y, sol'[x] = sol'[y],
             sol'[x] # NoSolution
      PROVE  sol'[x] \in Resent
  BY <1>1, SolutionsMove DEF WinnersInv
<1>2. \A x \in Sessions : pc[x] \in Writing => Submitted(seen[x])
  BY DEF SessionsInv, Submitted
<1>3. ASSUME NEW e \in pow', e.sol \in Winning, Height[Work[e.sol]] = Height[e.on]
      PROVE  Submitted(e.on)'
  <2>1. CASE e \in pow
    BY <1>3, <2>1, NodeGrows DEF WinnersInv
  <2>2. CASE e \notin pow
    <3>1. PICK x \in Sessions : Checks(x)
      BY <1>3, <2>2, ListMoves
    <3>2. e = Entry(x) /\ pc[x] \in {"sharePow", "blockPow"}
      BY <1>3, <2>2, <3>1 DEF Checks, Swept
    <3>3. e.sol = sol[x] /\ e.on = seen[x]
      BY <3>2 DEF Entry
    <3>4. Submitted(seen[x])
      BY <1>2, <1>3, <3>2, <3>3 DEF WinnersInv, Writing
    <3>5. QED
      BY <3>3, <3>4, NodeGrows
  <2>3. QED
    BY <2>1, <2>2
<1>4. ASSUME NEW y \in Sessions, pc'[y] = "sharePow", sol'[y] \in Winning,
             Height[Work[sol'[y]]] = Height[seen'[y]]
      PROVE  Submitted(seen[y])'
  <2>1. CASE Stays(y)
    <3>1. Submitted(seen[y])
      BY <1>4, <2>1 DEF Stays, WinnersInv
    <3>2. QED
      BY <2>1, <3>1, NodeGrows DEF Stays, Submitted
  <2>2. CASE Taken(y)
    <3>1. template.done /\ template # NoTemplate /\ seen'[y] = template.work
      BY <1>4, <2>2 DEF Taken
    <3>2. Submitted(template.work)
      BY <3>1 DEF TemplatesInv, Sound
    <3>3. QED
      BY <3>1, <3>2, NodeGrows DEF Submitted
  <2>3. Stays(y) \/ Taken(y)
    <3>1. CASE Quiet
      BY <1>4, <3>1 DEF Quiet, Ends, Passes, Fetching
    <3>2. ASSUME NEW x \in Sessions, Alone(x), Does(x)
          PROVE  Stays(y) \/ Taken(y)
      <4>1. CASE x = y
        BY <1>4, <3>2, <4>1 DEF Does, Submits, Checks, Shared, Closes, Registers, Ends, Passes
      <4>2. QED
        BY <3>2, <4>1 DEF Alone
    <3>3. QED
      BY <3>1, <3>2, Steps
  <2>4. QED
    BY <2>1, <2>2, <2>3
<1>5. ASSUME NEW y \in Sessions, pc'[y] \in Fetching, sol'[y] \notin Resent
      PROVE  Entry(y)' \notin pow'
  <2>1. /\ seen'[y] = seen[y] /\ sol'[y] = sol[y] /\ Entry(y)' = Entry(y)
        /\ Entry(y).sol = sol[y] /\ Entry(y).on = seen[y]
        /\ pc[y] \in Writing \cup {"submit"} /\ sol[y] \in Solutions
    BY <1>5, WritersMove DEF Entry, Fetching, Writing, TypeOK
  <2>2. CASE pc[y] = "submit"
    <3>1. /\ sol[y] \in Winning /\ Height[Work[sol[y]]] = Height[seen[y]]
          /\ Accept(sol[y]) /\ UNCHANGED store
      BY <1>5, <2>2, WritersMove DEF SessionsInv, Fetching, Writing
    <3>2. ~ Submitted(seen[y])
      BY <3>1 DEF Accept, Submitted
    <3>3. Entry(y) \notin pow
      BY <2>1, <3>1, <3>2 DEF WinnersInv
    <3>4. QED
      BY <2>1, <3>1, <3>3 DEF store
  <2>3. CASE pc[y] \in Writing
    <3>1. pc[y] \in Fetching
      <4>1. CASE Quiet
        BY <1>5, <4>1 DEF Quiet, Stays, Ends, Passes, Fetching
      <4>2. ASSUME NEW x \in Sessions, Alone(x), Does(x)
            PROVE  pc[y] \in Fetching
        <5>1. CASE x = y
          BY <1>5, <2>3, <4>2, <5>1 DEF Does, Taken, Submits, Checks, Shared, Closes,
            Registers, Ends, Passes, Fetching, Writing
        <5>2. QED
          BY <1>5, <4>2, <5>1 DEF Alone, Stays
      <4>3. QED
        BY <4>1, <4>2, Steps
    <3>2. Entry(y) \notin pow
      BY <1>5, <2>1, <3>1 DEF WinnersInv, Fetching
    <3>3. ASSUME NEW x \in Sessions, Checks(x), Entry(y) = Entry(x)
          PROVE  FALSE
      <4>1. x # y
        BY <1>5, <3>3 DEF Checks, Ends, Passes, Fetching
      <4>2. sol[x] = sol[y] /\ sol[y] # NoSolution
        BY <2>1, <3>3, SolutionsAssumption DEF Entry
      <4>3. QED
        BY <1>5, <2>1, <4>1, <4>2 DEF WinnersInv
    <3>4. QED
      BY <2>1, <3>2, <3>3, ListMoves DEF Checks, Swept
  <2>4. QED
    BY <2>1, <2>2, <2>3
<1>6. QED
  BY <1>1, <1>3, <1>4, <1>5 DEF WinnersInv, Fetching

\* Every step keeps accepted blocks recorded.
LEMMA BlocksStep ==
  ASSUME TypeOK, TypeOK', SessionsInv, WinnersInv, BlocksRecorded, [Next]_vars
  PROVE  BlocksRecorded'
<1> DEFINE Recorded(s) == \E c \in candidates : c.sol = s
           Written(s) == \E x \in Sessions : sol[x] = s /\ pc[x] \in Writing
<1>1. SUFFICES ASSUME faults' = 0, NEW s \in accepted', s \notin Resent
               PROVE  Recorded(s)' \/ Written(s)'
  BY DEF BlocksRecorded, Writing
<1>2. s \in accepted => Recorded(s) \/ Written(s)
  BY <1>1, FaultsStay DEF BlocksRecorded, Writing
<1>3. candidates \subseteq candidates'
  BY RoundsMove
<1>4. CASE s \in accepted /\ Recorded(s)
  BY <1>3, <1>4
<1>5. ASSUME NEW x \in Sessions, sol[x] = s, pc[x] \in Writing
      PROVE  Recorded(s)' \/ Written(s)'
  <2>1. CASE Quiet
    <3>1. sol'[x] = s /\ pc'[x] \in Writing
      BY <1>1, <1>5, <2>1 DEF Quiet, Stays, Passes, Fetching, Writing
    <3>2. QED
      BY <3>1
  <2>2. ASSUME NEW y \in Sessions, Alone(y), Does(y), y # x
        PROVE  Written(s)'
    BY <1>5, <2>2 DEF Alone, Stays
  <2>3. CASE Does(x) /\ Alone(x)
    <3>1. ~ Taken(x)
      BY <1>5 DEF Taken, Writing
    <3>2. CASE Checks(x)
      <4>1. pc[x] = "blockPow"
        BY <1>5, <3>2 DEF Checks, Writing
      <4>2. Entry(x) \notin pow
        BY <1>1, <1>5, <4>1 DEF WinnersInv
      <4>3. Passes(x, "writeBlock")
        BY <1>1, <3>2, <4>1, <4>2 DEF Checks
      <4>4. QED
        BY <1>5, <4>3 DEF Passes, Writing
    <3>3. CASE Closes(x)
      BY <1>1, <1>5, <3>3 DEF Closes, Passes, Writing
    <3>4. CASE Registers(x)
      <4>1. Row(x) \in candidates' /\ Row(x).sol = s
        BY <1>1, <1>5, <3>4 DEF Registers, Row
      <4>2. QED
        BY <4>1
    <3>5. QED
      BY <1>5, <2>3, <3>1, <3>2, <3>3, <3>4 DEF Does, Submits, Shared, Writing
  <2>4. QED
    BY <2>1, <2>2, <2>3, Steps
<1>6. CASE s \notin accepted
  <2>1. PICK x \in Sessions : Submits(x) /\ Accept(sol[x])
    BY <1>1, <1>6, Steps DEF Quiet, Does, Taken, Submits, Checks, Shared, Closes, Registers
  <2>2. s = sol[x] /\ Passes(x, "fetch")
    BY <1>1, <1>6, <2>1 DEF Submits, Accept
  <2>3. QED
    BY <2>2 DEF Passes, Writing
<1>7. QED
  BY <1>2, <1>4, <1>5, <1>6

-----------------------------------------------------------------------------
(* The theorems *)

\* At the start nothing was taken, listed, or counted.
LEMMA InitInv ==
  ASSUME Init
  PROVE  TypeOK /\ IInv /\ RoundsAddUp
<1>1. /\ accepted = {} /\ template = NoTemplate /\ work = 1
      /\ \A x \in Threads : pc[x] = "idle" /\ held[x] = NoTemplate
      /\ \A x \in Sessions : pc[x] = "idle" /\ sol[x] = NoSolution
      /\ pow = {} /\ candidates = {}
      /\ \A w \in Works : rounds[w] = Empty
      /\ \A s \in Solutions : \A w \in Works : counted[s][w] = 0
  BY DEF Init, Threads
<1>2. TypeOK
  BY WorksFinite, WorksAssumption, BoundsAssumption, ThreadsAssumption
     DEF Init, TypeOK, Empty, Threads, Works
<1>3. TemplatesInv /\ SessionsInv /\ WritersInv /\ CandidateHasRound
  BY <1>1 DEF TemplatesInv, SessionsInv, WritersInv, CandidateHasRound, Writing
<1>4. ListInv /\ WinnersInv /\ BlocksRecorded
  BY <1>1 DEF ListInv, Passed, WinnersInv, BlocksRecorded
<1>5. RoundsAddUp
  <2>1. \A s \in Solutions : TimesCounted[s] = 0
    BY <1>1, WorksFinite, SumZero DEF TimesCounted
  <2>2. ASSUME NEW m \in Miners
        PROVE  /\ SumFunctionOnSet(TimesCounted, {s \in Solutions : Miner[s] = m}) = 0
               /\ SumFunctionOnSet([w \in Works |-> rounds[w][m]], Works) = 0
               /\ current[m] = 0
    <3>1. IsFiniteSet({s \in Solutions : Miner[s] = m})
      BY SolutionsAssumption, FS_Subset
    <3>2. SumFunctionOnSet(TimesCounted, {s \in Solutions : Miner[s] = m}) = 0
      BY <2>1, <3>1, SumZero
    <3>3. \A w \in Works : [v \in Works |-> rounds[v][m]][w] = 0
      BY <1>1, <2>2 DEF Empty
    <3>4. SumFunctionOnSet([w \in Works |-> rounds[w][m]], Works) = 0
      BY <3>3, WorksFinite, SumZero
    <3>5. current[m] = 0
      BY <2>2 DEF Init, Empty
    <3>6. QED
      BY <3>2, <3>4, <3>5
  <2>3. QED
    BY <2>2 DEF RoundsAddUp
<1>6. QED
  BY <1>2, <1>3, <1>4, <1>5 DEF IInv

\* Every step keeps the invariant.
LEMMA StepInv ==
  ASSUME TypeOK, IInv, [Next]_vars
  PROVE  IInv'
<1>1. TypeOK'
  BY TypeStep
<1>2. QED
  BY <1>1, TemplatesStep, SessionsStep, WritersStep, CandidatesStep, ListStep,
    WinnersStep, BlocksStep DEF IInv

\* What each template, session and entry of the duplicate list stands for, in
\* every reachable state.
THEOREM Invariance == Spec => []IInv
<1>1. TypeOK /\ IInv /\ [Next]_vars => IInv'
  BY StepInv
<1>2. QED
  BY InitInv, TypeCorrect, <1>1, PTL DEF Spec

\* Every share that was counted is in the current round or in one closed round:
\* the blocks of concurrent sessions close disjoint rounds, and no round is
\* written over.
THEOREM SharesAreInOneRound == Spec => []RoundsAddUp
<1>1. TypeOK /\ TypeOK' /\ IInv /\ RoundsAddUp /\ [Next]_vars => RoundsAddUp'
  BY RoundsStep DEF IInv
<1>2. QED
  BY InitInv, TypeCorrect, Invariance, <1>1, PTL DEF Spec

\* A candidate names its round, has its total, and is the only one of its height.
THEOREM CandidatesHaveRounds == Spec => []CandidateHasRound
<1>1. IInv => CandidateHasRound
  BY DEF IInv
<1>2. QED
  BY <1>1, Invariance, PTL

\* No interleaving of sessions counts a solution twice for one template while the
\* node is within PowBacklog heights of it.
THEOREM SharesCountOnce == Spec => []CountedOncePerTemplate
<1>1. TypeOK /\ IInv => CountedOncePerTemplate
  <2> SUFFICES ASSUME TypeOK, IInv, NEW s \in Solutions,
                      Height[Work[s]] >= Height[work] - PowBacklog, NEW w \in Works
               PROVE  counted[s][w] <= 1
    BY DEF CountedOncePerTemplate
  <2>1. counted[s][w] = 0 \/ counted[s][w] = 1
    BY DEF IInv, ListInv, Recent
  <2>2. QED
    BY <2>1
<1>2. QED
  BY <1>1, Invariance, TypeCorrect, PTL

\* As long as nothing fails, a block the node took is a candidate or about to be.
THEOREM BlocksAreRecorded == Spec => []BlocksRecorded
<1>1. IInv => BlocksRecorded
  BY DEF IInv
<1>2. QED
  BY <1>1, Invariance, PTL
=============================================================================

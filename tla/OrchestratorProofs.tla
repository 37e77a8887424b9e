-------------------------- MODULE OrchestratorProofs --------------------------
(***************************************************************************)
(* The orchestrator, for any configuration, mailbox and number of          *)
(* attempts: its type invariant; that a connect it accepted is never       *)
(* ignored by the engine; that the tunnel and the races on the machine are *)
(* the ones the engine means, however late the reports come; that a        *)
(* blocked profile is not tried again within an attempt; that it           *)
(* implements PromisedConnection; and what it takes for a disconnect to be *)
(* answered wrongly.                                                       *)
(***************************************************************************)
EXTENDS Orchestrator, EngineProofs, FiniteSetTheorems

-----------------------------------------------------------------------------
(* Lemmas about the work and the inputs.                                   *)

\* The first of a queue, and the rest.
LEMMA HeadTailType ==
    ASSUME NEW S, NEW q \in Seq(S), q # <<>>
    PROVE  Head(q) \in S /\ Tail(q) \in Seq(S)
OBVIOUS

\* Folding a stop and a start into a move leaves work for the executor
\* (fold_moves).
LEMMA FoldMovesType ==
    ASSUME NEW w, ShortWork(w)
    PROVE  FoldMoves(w) \in Seq(WorkItems)
<1>1. WorkAsked \subseteq WorkItems
  BY DEF WorkAsked, WorkItems
<1>2. CASE Len(w) = 2 /\ w[1].kind = "StopTunnel" /\ w[2].kind = "StartTunnel"
  <2>1. w[2] \in WorkAsked
    <3>1. w \in Seq(WorkAsked) /\ 2 \in 1..Len(w)
      BY <1>2 DEF ShortWork
    <3> QED BY <3>1
  <2>2. w[2].profile \in Profiles /\ w[2].endpoint \in Endpoints
    BY <1>2, <2>1 DEF WorkAsked
  <2>3. Move(w[2].profile, w[2].endpoint) \in WorkItems
    BY <2>2 DEF Move, WorkItems
  <2> QED BY <1>2, <2>3 DEF FoldMoves
<1>3. CASE ~(Len(w) = 2 /\ w[1].kind = "StopTunnel" /\ w[2].kind = "StartTunnel")
  <2>1. FoldMoves(w) = w
    BY <1>3 DEF FoldMoves
  <2> QED BY <1>1, <2>1 DEF ShortWork
<1> QED BY <1>2, <1>3

\* Work keeps its order and its length when it is tagged with an attempt.
LEMMA TaggedType ==
    ASSUME NEW n \in Nat, NEW w \in Seq(WorkItems)
    PROVE  Tagged(n, w) \in Seq([attempt: Nat, do: WorkItems])
<1>1. \A i \in 1..Len(w) : [attempt |-> n, do |-> w[i]] \in [attempt: Nat, do: WorkItems]
  OBVIOUS
<1>2. Len(w) \in Nat
  OBVIOUS
<1> QED BY <1>1, <1>2 DEF Tagged

\* What is reported is an input the engine takes (Report).
LEMMA ReportType ==
    ASSUME NEW n \in Nat, NEW in \in News
    PROVE  Report(n, in) \in Reports
BY DEF Report, Reports

\* The executor's and the monitors' reports are news.
LEMMA NewsType ==
    /\ UpReport \in News
    /\ \A c \in StartCauses : FailedReport(c) \in News
    /\ \A env \in Environments : EnvReport(env) \in News
    /\ \A reach \in Reaches : [kind |-> "Reach", reach |-> reach] \in News
    /\ \A passed \in BOOLEAN : [kind |-> "LiveCheck", passed |-> passed] \in News
    /\ \A e \in Endpoints, o \in ProbeOutcomes :
          [kind |-> "EndpointProbe", endpoint |-> e, outcome |-> o] \in News
    /\ \A ps \in SUBSET Profiles : Outcomes(ps) \subseteq News
<1>1. UpReport \in News
  BY DEF UpReport, News, Inputs
<1>2. \A c \in StartCauses : FailedReport(c) \in News
  BY DEF FailedReport, News, Inputs
<1>3. \A env \in Environments : EnvReport(env) \in News
  BY DEF EnvReport, News, Inputs
<1>4. \A reach \in Reaches : [kind |-> "Reach", reach |-> reach] \in News
  BY DEF News, Inputs
<1>5. \A passed \in BOOLEAN : [kind |-> "LiveCheck", passed |-> passed] \in News
  BY DEF News, Inputs
<1>6. \A e \in Endpoints, o \in ProbeOutcomes :
          [kind |-> "EndpointProbe", endpoint |-> e, outcome |-> o] \in News
  BY DEF News, Inputs
<1>7. \A ps \in SUBSET Profiles : Outcomes(ps) \subseteq News
  BY DEF Outcomes, News, Inputs
<1> QED BY <1>1, <1>2, <1>3, <1>4, <1>5, <1>6, <1>7

\* An engine at rest stays where it rests whatever is reported to it: only a
\* connect moves it (the phase guards of Engine::step's handlers).
LEMMA RestKept ==
    ASSUME NEW e \in Engines, e.phase \in AtRest, NEW in \in News, NEW r \in Step(e, in)
    PROVE  r.eng.phase = e.phase
<1>0. in \in Inputs /\ in.kind \notin {"Connect", "Disconnect"}
  BY DEF News
<1>1. CASE in.kind = "RaceFinished"
  <2>1. r = RaceFinished(e, in.winner, in.results)
    BY <1>1 DEF Step
  <2>2. e.phase \notin Racing
    BY DEF AtRest, Racing
  <2> QED BY <2>1, <2>2 DEF RaceFinished, Ignored, Asked
<1>2. CASE in.kind = "TunnelUp"
  BY <1>2 DEF Step, TunnelUp, Ignored, Asked, AtRest
<1>3. CASE in.kind = "StartFailed"
  <2>1. r = StartFailed(e, in.cause)
    BY <1>3 DEF Step
  <2> QED BY <2>1 DEF StartFailed, Ignored, Asked, AtRest
<1>4. CASE in.kind = "LiveCheck"
  <2>1. PICK b : r = LiveCheck(e, in.passed, b)
    BY <1>4 DEF Step
  <2> QED BY <2>1 DEF LiveCheck, Ignored, Asked, AtRest
<1>5. CASE in.kind = "EndpointProbe"
  <2>1. PICK b : r = EndpointProbe(e, in.endpoint, in.outcome, b)
    BY <1>5 DEF Step
  <2>2. in.endpoint \in Endpoints /\ in.outcome \in ProbeOutcomes
    BY <1>0, <1>5 DEF Inputs
  <2>3. Probed(e, in.endpoint, in.outcome).phase = e.phase
    BY <2>2, ProbedType DEF SameUse
  <2> QED BY <2>1, <2>3 DEF EndpointProbe, Ignored, Asked
<1>6. CASE in.kind = "Environment"
  BY <1>6 DEF Step, Ignored, Asked, Engines
<1>7. CASE in.kind = "Reach"
  BY <1>7 DEF Step, Ignored, Asked, Engines
<1>8. CASE in.kind \in {"PathChanged", "Connectivity"}
  BY <1>8 DEF Step, PathNews, Ignored, Asked, AtRest
<1> QED BY <1>0, <1>1, <1>2, <1>3, <1>4, <1>5, <1>6, <1>7, <1>8 DEF Inputs

-----------------------------------------------------------------------------
(* The type invariant.  It needs InUse of the engine, and that a monitor   *)
(* about to send has something to send.                                    *)

HasReport == \A m \in monitors : m.cleared => m.queue # <<>>

TInv == TypeOK /\ InUse(eng) /\ HasReport

\* The initial state: nothing asked, nothing running (spawn).
LEMMA InitTInv == Init => TInv
<1> SUFFICES ASSUME Init PROVE TInv
  OBVIOUS
<1>1. NewEngine \in Engines /\ InUse(NewEngine)
  BY NewEngineInUse
<1>2. SnapshotOf(NewEngine).status \in Statuses
  BY DEF SnapshotOf, Status, Statuses
<1>3. Unserved \in Clients
  BY DEF Unserved, Clients
<1>4. [item |-> NoWork, for |-> 0, out |-> <<>>] \in [item: WorkItems, for: Nat, out: Seq(Reports)]
  BY DEF NoWork, WorkItems
<1>5. mailbox \in Seq(Messages) /\ Len(mailbox) =< MailboxCap
  BY OrchestratorAssumption DEF Init
<1>6. tunnel \in [profile: Profiles \cup {NoProfile}, endpoint: Endpoints \cup {NoEndpoint}]
  BY DEF Init, NoTunnel
<1>7. work \in Seq([attempt: Nat, do: WorkItems])
  BY DEF Init
<1>8. eng = NewEngine /\ attempt = 0 /\ actor = "recv" /\ connecting = FALSE /\ token = 0
      /\ races = {} /\ monitors = {} /\ stopping = "no"
      /\ shown = SnapshotOf(NewEngine) /\ client = Unserved
      /\ exec = [item |-> NoWork, for |-> 0, out |-> <<>>]
  BY DEF Init
<1>9. TypeOK
  BY <1>1, <1>2, <1>3, <1>4, <1>5, <1>6, <1>7, <1>8 DEF TypeOK
<1> QED BY <1>1, <1>8, <1>9 DEF TInv, HasReport

\* What is shown of an engine has a status (snapshot_of).
LEMMA StatusType ==
    ASSUME NEW e
    PROVE  SnapshotOf(e).status \in Statuses
BY DEF SnapshotOf, Status, Statuses

\* Feeding the engine an input and queueing what it asks (Actor::step).
LEMMA ActorStepType ==
    ASSUME TInv, NEW e \in Engines, InUse(e), NEW in \in Inputs,
           NEW ahead \in Seq(WorkItems), NEW behind \in Seq(WorkItems),
           ActorStep(e, in, ahead, behind)
    PROVE  /\ eng' \in Engines /\ InUse(eng') /\ attempt' \in Nat
           /\ work' \in Seq([attempt: Nat, do: WorkItems])
           /\ monitors' \subseteq MonitorTasks /\ HasReport'
<1> DEFINE next(r) == IF FoldMoves(r.work) = <<>> THEN attempt ELSE attempt + 1
           items(r) == IF FoldMoves(r.work) = <<>> THEN behind
                       ELSE ahead \o FoldMoves(r.work) \o behind
<1>1. PICK r \in Step(e, in) :
          /\ eng' = r.eng
          /\ attempt' = next(r)
          /\ work' = work \o Tagged(next(r), items(r))
          /\ monitors' = IF e.phase # "Connected" /\ r.eng.phase = "Connected"
                         THEN Watching(next(r)) \cup {NewMonitor(next(r), r.eng)}
                         ELSE Watching(next(r))
  BY DEF ActorStep
<1>2. Leads(Carried(e), r)
  BY StepLeads
<1>3. r.eng \in Engines /\ InUse(r.eng) /\ FoldMoves(r.work) \in Seq(WorkItems)
  BY <1>2, FoldMovesType DEF Leads
<1>4. next(r) \in Nat /\ items(r) \in Seq(WorkItems)
  <2>1. attempt \in Nat
    BY DEF TInv, TypeOK
  <2> QED BY <1>3, <2>1
<1> HIDE DEF next, items
<1>5. work' \in Seq([attempt: Nat, do: WorkItems])
  <2>1. Tagged(next(r), items(r)) \in Seq([attempt: Nat, do: WorkItems])
    BY <1>4, TaggedType
  <2>2. work \in Seq([attempt: Nat, do: WorkItems])
    BY DEF TInv, TypeOK
  <2> QED BY <1>1, <2>1, <2>2
<1>6. Watching(next(r)) \subseteq MonitorTasks
  BY DEF Watching, TInv, TypeOK
<1>7. r.eng.phase = "Connected" => NewMonitor(next(r), r.eng) \in MonitorTasks
  BY <1>3, <1>4 DEF NewMonitor, MonitorTasks, InUse, Using
<1>8. monitors' \subseteq MonitorTasks
  BY <1>1, <1>6, <1>7
<1>9. HasReport'
  <2>1. \A m \in Watching(next(r)) : m.cleared => m.queue # <<>>
    BY DEF Watching, TInv, HasReport
  <2>2. ~NewMonitor(next(r), r.eng).cleared
    BY DEF NewMonitor
  <2> QED BY <1>1, <2>1, <2>2 DEF HasReport
<1> QED BY <1>1, <1>3, <1>4, <1>5, <1>8, <1>9

\* A message is put in the mailbox only while there is room.
LEMMA MailboxType ==
    ASSUME TInv, NEW m \in Messages,
           mailbox' = mailbox \/ (Room /\ mailbox' = Append(mailbox, m))
    PROVE  mailbox' \in Seq(Messages) /\ Len(mailbox') =< MailboxCap
<1>1. mailbox \in Seq(Messages) /\ Len(mailbox) =< MailboxCap /\ MailboxCap \in Nat
  BY OrchestratorAssumption DEF TInv, TypeOK
<1>2. CASE mailbox' = mailbox
  BY <1>1, <1>2
<1>3. CASE Room /\ mailbox' = Append(mailbox, m)
  BY <1>1, <1>3 DEF Room
<1> QED BY <1>2, <1>3

\* The handle's steps: AskConnect, AskDisconnect, AskShutdown.
LEMMA RequestTInv ==
    ASSUME TInv, Request
    PROVE  TInv'
<1> USE DEF TInv, HasReport, handleVars, actorVars, execVars
<1>1. ASSUME NEW p \in Names \cup {NoProfile}, AskConnect(p) PROVE TInv'
  <2>1. client' \in Clients
    BY <1>1 DEF AskConnect, TypeOK, Clients
  <2> QED BY <1>1, <2>1 DEF AskConnect, TypeOK
<1>2. CASE AskDisconnect
  <2>1. client' \in Clients
    BY <1>2 DEF AskDisconnect, TypeOK, Clients
  <2> QED BY <1>2, <2>1 DEF AskDisconnect, TypeOK
<1>3. CASE AskShutdown
  <2>1. ShutdownMsg \in Messages
    BY DEF ShutdownMsg, Messages
  <2>2. mailbox' \in Seq(Messages) /\ Len(mailbox') =< MailboxCap
    BY <1>3, <2>1, OrchestratorAssumption DEF AskShutdown, TypeOK, Room
  <2> QED BY <1>3, <2>2 DEF AskShutdown, TypeOK
<1> QED BY <1>1, <1>2, <1>3 DEF Request

\* The rest of a request: JudgeConnect, SendConnect, AnswerDisconnect.
LEMMA ServeTInv ==
    ASSUME TInv, Serve
    PROVE  TInv'
<1> USE DEF TInv, HasReport, handleVars, actorVars, execVars
<1>0. Unserved \in Clients
  BY DEF Unserved, Clients
<1>1. CASE JudgeConnect
  <2>1. client' \in Clients
    BY <1>0, <1>1 DEF JudgeConnect, TypeOK, Clients
  <2>2. connecting' \in BOOLEAN
    BY <1>1 DEF JudgeConnect, TypeOK
  <2> QED BY <1>1, <2>1, <2>2 DEF JudgeConnect, TypeOK
<1>2. CASE SendConnect
  <2>1. ConnectMsg(client.profile) \in Messages
    BY DEF ConnectMsg, Messages, TypeOK, Clients
  <2>2. mailbox' \in Seq(Messages) /\ Len(mailbox') =< MailboxCap
    <3>1. mailbox' = mailbox \/ (Room /\ mailbox' = Append(mailbox, ConnectMsg(client.profile)))
      BY <1>2 DEF SendConnect
    <3> QED BY <2>1, <3>1, MailboxType
  <2>3. connecting' \in BOOLEAN
    BY <1>2 DEF SendConnect, TypeOK
  <2> QED BY <1>0, <1>2, <2>2, <2>3 DEF SendConnect, TypeOK
<1>3. CASE AnswerDisconnect
  <2>1. DisconnectMsg \in Messages
    BY DEF DisconnectMsg, Messages
  <2>2. mailbox' \in Seq(Messages) /\ Len(mailbox') =< MailboxCap
    <3>1. mailbox' = mailbox \/ (Room /\ mailbox' = Append(mailbox, DisconnectMsg))
      BY <1>3 DEF AnswerDisconnect
    <3> QED BY <2>1, <3>1, MailboxType
  <2> QED BY <1>0, <1>3, <2>2 DEF AnswerDisconnect, TypeOK
<1> QED BY <1>1, <1>2, <1>3 DEF Serve

\* The message at the head of the mailbox, whichever it is (Actor::run).
LEMMA TakeMessageTInv ==
    ASSUME TInv, TakeMessage
    PROVE  TInv'
<1> DEFINE m == Head(mailbox)
<1>1. mailbox \in Seq(Messages) /\ mailbox # <<>> /\ Len(mailbox) =< MailboxCap
  BY DEF TInv, TypeOK, TakeMessage
<1>2. m \in Messages
  BY <1>1
<1>3. mailbox' \in Seq(Messages) /\ Len(mailbox') =< MailboxCap
  BY <1>1, OrchestratorAssumption DEF TakeMessage
<1>4. eng \in Engines /\ InUse(eng)
  BY DEF TInv, TypeOK
<1> DEFINE Stepped == /\ eng' \in Engines /\ InUse(eng') /\ attempt' \in Nat
                      /\ work' \in Seq([attempt: Nat, do: WorkItems])
                      /\ monitors' \subseteq MonitorTasks /\ HasReport'
           States == {"recv", "publish", "publishConnect", "publishLast", "clear", "ended"}
<1>5. <<>> \in Seq(WorkItems) /\ <<CheckReach>> \in Seq(WorkItems)
      /\ <<Barrier>> \in Seq(WorkItems)
  <2>1. CheckReach \in WorkItems /\ Barrier \in WorkItems
    BY DEF CheckReach, Barrier, WorkItems
  <2> QED BY <2>1
<1> HIDE DEF m
<1>6. ASSUME TakeConnect(m) PROVE Stepped /\ actor' \in States
  <2>1. PICK env \in Environments :
            ActorStep([eng EXCEPT !.env = env], m, <<CheckReach>>, <<>>)
    BY <1>6 DEF TakeConnect
  <2>2. [eng EXCEPT !.env = env] \in Engines
    BY <1>4, ReadingsAssumption DEF Engines
  <2>3. InUse([eng EXCEPT !.env = env])
    BY <1>4 DEF InUse, Engines
  <2>4. m \in Inputs
    BY <1>2, <1>6 DEF TakeConnect, Messages, Inputs, Reports
  <2>5. Stepped
    BY <1>5, <2>1, <2>2, <2>3, <2>4, ActorStepType
  <2> QED BY <1>6, <2>5 DEF TakeConnect
<1>7. DisconnectMsg \in Inputs
  BY DEF DisconnectMsg, Inputs
<1>8. ASSUME TakeDisconnect(m) PROVE Stepped /\ actor' \in States
  <2>1. m \in Inputs
    BY <1>2, <1>8 DEF TakeDisconnect, Messages, Inputs, Reports
  <2>2. Stepped
    BY <1>4, <1>5, <1>8, <2>1, ActorStepType DEF TakeDisconnect
  <2> QED BY <1>8, <2>2 DEF TakeDisconnect
<1>9. ASSUME TakeShutdown(m) PROVE Stepped /\ actor' \in States
  <2>1. Stepped
    BY <1>4, <1>5, <1>7, <1>9, ActorStepType DEF TakeShutdown
  <2> QED BY <1>9, <2>1 DEF TakeShutdown
<1>10. ASSUME TakeReport(m) PROVE Stepped /\ actor' \in States
  <2>1. m.input \in Inputs
    BY <1>2, <1>10 DEF TakeReport, Messages, Reports, News
  <2>2. ASSUME Fresh(m) PROVE Stepped
    BY <1>4, <1>5, <1>10, <2>1, <2>2, ActorStepType DEF TakeReport
  <2>3. ASSUME ~Fresh(m) PROVE Stepped
    BY <1>10, <2>3 DEF TakeReport, TInv, TypeOK, HasReport
  <2>4. actor' \in States
    BY <1>10 DEF TakeReport
  <2> QED BY <2>2, <2>3, <2>4
<1>11. Stepped /\ actor' \in States
  <2>1. TakeConnect(m) \/ TakeDisconnect(m) \/ TakeShutdown(m) \/ TakeReport(m)
    BY DEF TakeMessage, m
  <2> QED BY <1>6, <1>8, <1>9, <1>10, <2>1
<1> QED BY <1>3, <1>11 DEF TakeMessage, TInv, TypeOK

\* The actor's other steps: publishing the state, clearing the flag.
LEMMA ActTInv ==
    ASSUME TInv, Act
    PROVE  TInv'
<1>1. CASE TakeMessage
  BY <1>1, TakeMessageTInv
<1>2. CASE Publish
  <2>1. shown'.status \in Statuses
    BY <1>2, StatusType DEF Publish
  <2>2. actor' \in {"recv", "clear", "ended"}
    BY <1>2 DEF Publish, AfterPublish
  <2>3. mailbox' \in Seq(Messages) /\ Len(mailbox') =< MailboxCap
    <3>1. mailbox \in Seq(Messages) /\ Len(mailbox) =< MailboxCap
      BY DEF TInv, TypeOK
    <3>2. mailbox' = mailbox \/ mailbox' = <<>>
      BY <1>2 DEF Publish
    <3>3. <<>> \in Seq(Messages) /\ Len(<<>>) = 0 /\ 0 =< MailboxCap
      BY OrchestratorAssumption
    <3> QED BY <3>1, <3>2, <3>3
  <2> QED BY <1>2, <2>1, <2>2, <2>3 DEF Publish, TInv, TypeOK, HasReport, execVars
<1>3. CASE ClearConnecting
  BY <1>3 DEF ClearConnecting, TInv, TypeOK, HasReport, execVars
<1> QED BY <1>1, <1>2, <1>3 DEF Act

\* What the executor reports of an item is a sequence of reports (execute).
LEMMA DoneType ==
    ASSUME TInv, NEW inputs \in Seq(News), Done(inputs)
    PROVE  exec' \in [item: WorkItems, for: Nat, out: Seq(Reports)]
<1>1. exec \in [item: WorkItems, for: Nat, out: Seq(Reports)]
  BY DEF TInv, TypeOK
<1>2. NoWork \in WorkItems
  BY DEF NoWork, WorkItems
<1>3. [i \in 1..Len(inputs) |-> Report(exec.for, inputs[i])] \in Seq(Reports)
  <2>1. Len(inputs) \in Nat
    OBVIOUS
  <2>2. \A i \in 1..Len(inputs) : Report(exec.for, inputs[i]) \in Reports
    BY <1>1, ReportType
  <2> QED BY <2>1, <2>2
<1> QED BY <1>1, <1>2, <1>3 DEF Done

\* The executor's steps (execute): one item at a time, then its reports.
LEMMA ExecuteTInv ==
    ASSUME TInv, Execute
    PROVE  TInv'
<1> DEFINE Execs == [item: WorkItems, for: Nat, out: Seq(Reports)]
           Tuns == [profile: Profiles \cup {NoProfile}, endpoint: Endpoints \cup {NoEndpoint}]
<1>0. exec \in Execs /\ tunnel \in Tuns /\ NoTunnel \in Tuns
  BY DEF TInv, TypeOK, NoTunnel
<1>1. CASE TakeWork
  <2>1. work # <<>> /\ work \in Seq([attempt: Nat, do: WorkItems])
    BY <1>1 DEF TakeWork, TInv, TypeOK
  <2>2. Head(work) \in [attempt: Nat, do: WorkItems]
        /\ work' \in Seq([attempt: Nat, do: WorkItems])
    <3>1. work' = Tail(work)
      BY <1>1 DEF TakeWork
    <3> QED BY <2>1, <3>1, HeadTailType
  <2> DEFINE w == Head(work).do
             n == Head(work).attempt
  <2>3. w \in WorkItems /\ n \in Nat
    BY <2>2
  <2>4. /\ exec' = exec \/ exec' = [item |-> w, for |-> n, out |-> <<>>]
        /\ \/ races' = races \/ races' = CancelHeld
           \/ w.kind = "StartRace" /\ races' = CancelHeld \cup {NewRace(n, w.profiles)}
        /\ token' \in {token, n, 0}
        /\ stopping' \in {stopping, "done"}
    BY <1>1 DEF TakeWork
  <2> HIDE DEF w, n
  <2>5. exec' \in Execs
    <3>1. <<>> \in Seq(Reports)
      OBVIOUS
    <3>2. [item |-> w, for |-> n, out |-> <<>>] \in Execs
      BY <2>3, <3>1
    <3> QED BY <1>0, <2>4, <3>2
  <2>6. races' \subseteq RaceTasks
    <3>1. races \subseteq RaceTasks /\ CancelHeld \subseteq RaceTasks
      BY DEF TInv, TypeOK, CancelHeld
    <3>2. w.kind = "StartRace" => NewRace(n, w.profiles) \in RaceTasks
      BY <2>3 DEF NewRace, RaceTasks, WorkItems
    <3> QED BY <2>4, <3>1, <3>2
  <2>7. token' \in Nat /\ stopping' \in {"no", "asked", "done"}
    BY <2>3, <2>4 DEF TInv, TypeOK
  <2> QED BY <1>1, <2>2, <2>5, <2>6, <2>7
      DEF TakeWork, TInv, TypeOK, HasReport, handleVars, actorVars
<1>2. ASSUME exec' \in Execs, tunnel' \in Tuns,
             UNCHANGED <<handleVars, actorVars, work, token, stopping, races, monitors>>
      PROVE  TInv'
  BY <1>2 DEF TInv, TypeOK, HasReport, handleVars, actorVars
<1>3. CASE ReachDone
  <2>1. PICK env \in Environments, reach \in Reaches :
            Done(<<EnvReport(env), [kind |-> "Reach", reach |-> reach]>>)
    BY <1>3 DEF ReachDone
  <2>2. <<EnvReport(env), [kind |-> "Reach", reach |-> reach]>> \in Seq(News)
    BY NewsType
  <2>3. exec' \in Execs
    BY <2>1, <2>2, DoneType
  <2> QED BY <1>0, <1>2, <1>3, <2>3 DEF ReachDone
<1>4. CASE StartSucceeds
  <2>1. <<UpReport>> \in Seq(News)
    BY NewsType
  <2>2. exec' \in Execs
    BY <1>4, <2>1, DoneType DEF StartSucceeds
  <2>3. tunnel' \in Tuns
    BY <1>0, <1>4 DEF StartSucceeds, Tunnel, WorkItems
  <2> QED BY <1>2, <1>4, <2>2, <2>3 DEF StartSucceeds
<1>5. CASE StartFails
  <2>1. PICK c \in StartCauses : Done(<<FailedReport(c)>>)
    BY <1>5 DEF StartFails
  <2>2. <<FailedReport(c)>> \in Seq(News)
    BY NewsType
  <2>3. exec' \in Execs
    BY <2>1, <2>2, DoneType
  <2> QED BY <1>0, <1>2, <1>5, <2>3 DEF StartFails
<1>6. CASE MoveTried
  <2>1. exec.item.profile \in Profiles /\ exec.item.endpoint \in Endpoints
    BY <1>0, <1>6 DEF MoveTried, WorkItems
  <2>2. CASE tunnel' = Tunnel(exec.item.profile, exec.item.endpoint) /\ Done(<<UpReport>>)
    <3>1. <<UpReport>> \in Seq(News)
      BY NewsType
    <3>2. exec' \in Execs
      BY <2>2, <3>1, DoneType
    <3>3. tunnel' \in Tuns
      BY <2>1, <2>2 DEF Tunnel
    <3> QED BY <1>2, <1>6, <3>2, <3>3 DEF MoveTried
  <2>3. CASE /\ tunnel' = NoTunnel
             /\ exec' = [exec EXCEPT !.item = Start(exec.item.profile, exec.item.endpoint)]
    <3>1. Start(exec.item.profile, exec.item.endpoint) \in WorkItems
      BY <2>1 DEF Start, WorkItems
    <3>2. exec' \in Execs
      BY <1>0, <2>3, <3>1
    <3> QED BY <1>0, <1>2, <1>6, <2>3, <3>2 DEF MoveTried
  <2> QED BY <1>6, <2>2, <2>3 DEF MoveTried
<1>7. CASE StopDone
  <2>1. <<>> \in Seq(News)
    OBVIOUS
  <2>2. exec' \in Execs
    BY <1>7, <2>1, DoneType DEF StopDone
  <2> QED BY <1>0, <1>2, <1>7, <2>2 DEF StopDone
<1>8. CASE SendReport
  <2>1. exec.out \in Seq(Reports) /\ exec.out # <<>>
    BY <1>0, <1>8 DEF SendReport
  <2>2. Head(exec.out) \in Messages /\ exec' \in Execs
    <3>1. exec' = [exec EXCEPT !.out = Tail(exec.out)]
      BY <1>8 DEF SendReport
    <3>2. Head(exec.out) \in Reports /\ Tail(exec.out) \in Seq(Reports)
      BY <2>1, HeadTailType
    <3> QED BY <1>0, <3>1, <3>2 DEF Messages
  <2>3. mailbox' = mailbox \/ (Room /\ mailbox' = Append(mailbox, Head(exec.out)))
    BY <1>8 DEF SendReport, Deliver
  <2>4. mailbox' \in Seq(Messages) /\ Len(mailbox') =< MailboxCap
    BY <2>2, <2>3, MailboxType
  <2> QED BY <1>8, <2>2, <2>4 DEF SendReport, TInv, TypeOK, HasReport, actorVars
<1> QED BY <1>1, <1>3, <1>4, <1>5, <1>6, <1>7, <1>8 DEF Execute

\* The race task: it settles on an outcome, then reports it.
LEMMA RunRaceTInv ==
    ASSUME TInv, RunRace
    PROVE  TInv'
<1>0. races \subseteq RaceTasks
  BY DEF TInv, TypeOK
<1>1. PICK r \in races : RaceDone(r) \/ RaceReports(r)
  BY DEF RunRace
<1>2. r \in RaceTasks
  BY <1>0, <1>1
<1>3. CASE RaceDone(r)
  <2>1. PICK in \in Outcomes(r.profiles) :
            races' = (races \ {r}) \cup {[r EXCEPT !.report = Report(r.attempt, in)]}
    BY <1>3 DEF RaceDone
  <2>2. Report(r.attempt, in) \in Reports
    BY <1>2, <2>1, NewsType, ReportType DEF RaceTasks
  <2>3. [r EXCEPT !.report = Report(r.attempt, in)] \in RaceTasks
    BY <1>2, <2>2 DEF RaceTasks
  <2>4. races' \subseteq RaceTasks
    BY <1>0, <2>1, <2>3
  <2> QED BY <1>3, <2>4
      DEF RaceDone, TInv, TypeOK, HasReport, handleVars, actorVars, execVars
<1>4. CASE RaceReports(r)
  <2>1. r.report \in Messages
    BY <1>2, <1>4 DEF RaceReports, Running, RaceTasks, Messages
  <2>2. mailbox' = mailbox \/ (Room /\ mailbox' = Append(mailbox, r.report))
    BY <1>4 DEF RaceReports, Deliver
  <2>3. mailbox' \in Seq(Messages) /\ Len(mailbox') =< MailboxCap
    BY <2>1, <2>2, MailboxType
  <2>4. races' \subseteq RaceTasks
    BY <1>0, <1>4 DEF RaceReports
  <2> QED BY <1>4, <2>3, <2>4
      DEF RaceReports, TInv, TypeOK, HasReport, actorVars, execVars
<1> QED BY <1>1, <1>3, <1>4

\* The monitor task: it checks, looks whether it is still wanted, and sends.
LEMMA WatchTInv ==
    ASSUME TInv, Watch
    PROVE  TInv'
<1>0. monitors \subseteq MonitorTasks
  BY DEF TInv, TypeOK
<1>1. PICK m \in monitors : MonitorChecks(m) \/ MonitorLooks(m) \/ MonitorSends(m)
  BY DEF Watch
<1>2. m \in MonitorTasks /\ (m.cleared => m.queue # <<>>)
  BY <1>0, <1>1 DEF TInv, HasReport
<1>3. ASSUME NEW k \in MonitorTasks, k.cleared => k.queue # <<>>,
             monitors' = (monitors \ {m}) \cup {k} \/ monitors' = (monitors \ {m}) \cup {}
      PROVE  monitors' \subseteq MonitorTasks /\ HasReport'
  BY <1>0, <1>3 DEF TInv, HasReport
<1>4. CASE MonitorChecks(m)
  <2> DEFINE tick == (m.tick + 1) % ProbeEvery
             checks(env, passed) ==
                 <<EnvReport(env), [kind |-> "LiveCheck", passed |-> passed]>>
             probe(outcome) == <<[kind |-> "EndpointProbe", endpoint |-> m.endpoint,
                                  outcome |-> outcome]>>
             queue(env, passed, outcome) ==
                 IF tick = 0 THEN checks(env, passed) \o probe(outcome)
                 ELSE checks(env, passed)
  <2>1. PICK passed \in BOOLEAN, outcome \in ProbeOutcomes, env \in Environments :
            monitors' = (monitors \ {m}) \cup
                {[m EXCEPT !.tick = tick, !.queue = queue(env, passed, outcome)]}
    BY <1>4, ThresholdsAssumption DEF MonitorChecks
  <2> DEFINE k == [m EXCEPT !.tick = tick, !.queue = queue(env, passed, outcome)]
  <2>2. tick \in Nat
    BY <1>2, OrchestratorAssumption DEF MonitorTasks
  <2>3. queue(env, passed, outcome) \in Seq(News)
    <3>1. m.endpoint \in Endpoints
      BY <1>2 DEF MonitorTasks
    <3>2. checks(env, passed) \in Seq(News) /\ probe(outcome) \in Seq(News)
      BY <3>1, NewsType
    <3> HIDE DEF checks, probe, tick
    <3> QED BY <3>2
  <2> HIDE DEF tick, queue
  <2>4. k \in MonitorTasks /\ k.cleared = m.cleared
    BY <1>2, <2>2, <2>3 DEF MonitorTasks
  <2>5. ~m.cleared
    BY <1>2, <1>4 DEF MonitorChecks
  <2>6. monitors' \subseteq MonitorTasks /\ HasReport'
    BY <1>3, <2>1, <2>4, <2>5
  <2> QED BY <1>4, <2>6 DEF MonitorChecks, TInv, TypeOK, handleVars, actorVars, execVars
<1>5. CASE MonitorLooks(m)
  <2>1. [m EXCEPT !.cleared = TRUE] \in MonitorTasks
        /\ [m EXCEPT !.cleared = TRUE].queue = m.queue
    BY <1>2 DEF MonitorTasks
  <2>2. monitors' \subseteq MonitorTasks /\ HasReport'
    BY <1>3, <1>5, <2>1 DEF MonitorLooks
  <2> QED BY <1>5, <2>2 DEF MonitorLooks, TInv, TypeOK, handleVars, actorVars, execVars
<1>6. CASE MonitorSends(m)
  <2> DEFINE k == [m EXCEPT !.queue = Tail(m.queue), !.cleared = FALSE]
  <2>1. m.queue \in Seq(News) /\ m.queue # <<>> /\ m.attempt \in Nat
    BY <1>2, <1>6 DEF MonitorSends, MonitorTasks
  <2>2. Head(m.queue) \in News /\ Tail(m.queue) \in Seq(News)
    BY <2>1, HeadTailType
  <2>3. Report(m.attempt, Head(m.queue)) \in Messages
    BY <2>1, <2>2, ReportType DEF Messages
  <2>4. mailbox' = mailbox \/ (Room /\ mailbox' = Append(mailbox, Report(m.attempt, Head(m.queue))))
    BY <1>6 DEF MonitorSends, Deliver
  <2>5. mailbox' \in Seq(Messages) /\ Len(mailbox') =< MailboxCap
    BY <2>3, <2>4, MailboxType
  <2>6. k \in MonitorTasks /\ ~k.cleared
    BY <1>2, <2>2 DEF MonitorTasks
  <2>7. monitors' = (monitors \ {m}) \cup {k} \/ monitors' = (monitors \ {m}) \cup {}
    BY <1>6 DEF MonitorSends
  <2>8. monitors' \subseteq MonitorTasks /\ HasReport'
    BY <1>3, <2>6, <2>7
  <2> QED BY <1>6, <2>5, <2>8 DEF MonitorSends, TInv, TypeOK, actorVars, execVars
<1> QED BY <1>1, <1>4, <1>5, <1>6

\* Every step keeps the type invariant.
LEMMA NextTInv == TInv /\ [Next]_vars => TInv'
<1> SUFFICES ASSUME TInv, [Next]_vars PROVE TInv'
  OBVIOUS
<1>1. CASE UNCHANGED vars
  BY <1>1 DEF vars, handleVars, actorVars, execVars, TInv, TypeOK, HasReport
<1> QED BY <1>1, RequestTInv, ServeTInv, ActTInv, ExecuteTInv, RunRaceTInv, WatchTInv DEF Next

\* Whatever the tasks do and in whatever order they report, the state of the
\* orchestrator stays in its type: the mailbox within its capacity, the engine
\* an engine, every report one that the engine takes.
THEOREM OrchestratorTypeOK == Spec => []TypeOK
<1>1. TInv => TypeOK
  BY DEF TInv
<1> QED BY <1>1, InitTInv, NextTInv, PTL DEF Spec

-----------------------------------------------------------------------------
(* A connect that was accepted is taken up.                                *)
(*                                                                         *)
(* `connecting' has one owner at a time: the request that claimed it, the  *)
(* message in the mailbox, or the actor until it clears the flag.  A state *)
(* shown at rest is the engine's, except between taking a connect and      *)
(* publishing what came of it, when the flag is owned by the actor; so who *)
(* owns the flag and saw a state at rest knows that the engine is at rest, *)
(* and only the connect itself can change that.                            *)

ConnectAt(q) == {i \in 1..Len(q) : q[i].kind = "Connect"}

Claiming == client.pc \in {"claimed", "judged"}
Sent     == ConnectAt(mailbox) # {}
Taking   == actor \in {"publishConnect", "clear"}

OneOwner ==
    /\ Claiming \/ Sent \/ Taking => connecting
    /\ ~(Claiming /\ Sent) /\ ~(Claiming /\ Taking) /\ ~(Sent /\ Taking)
    /\ \A i, j \in ConnectAt(mailbox) : i = j

ShownAtRest ==
    shown.status \in {"Disconnected", "Failed"} /\ actor # "publishConnect" =>
        eng.phase \in AtRest

RestWhenJudged == client.pc = "judged" \/ Sent => eng.phase \in AtRest

CInv == OneOwner /\ ShownAtRest /\ RestWhenJudged

\* Another message at the end of the mailbox leaves its connects alone.
LEMMA AppendOther ==
    ASSUME NEW q \in Seq(Messages), NEW m \in Messages, m.kind # "Connect"
    PROVE  ConnectAt(Append(q, m)) = ConnectAt(q)
BY DEF ConnectAt

\* A connect at the end of the mailbox is one more.
LEMMA AppendConnect ==
    ASSUME NEW q \in Seq(Messages), NEW m \in Messages, m.kind = "Connect"
    PROVE  ConnectAt(Append(q, m)) = ConnectAt(q) \cup {Len(q) + 1}
BY DEF ConnectAt

\* Taking the head moves the others one place up.
LEMMA TailPlaces ==
    ASSUME NEW q \in Seq(Messages), q # <<>>
    PROVE  /\ \A i \in ConnectAt(Tail(q)) : i \in Nat /\ i >= 1 /\ i + 1 \in ConnectAt(q)
           /\ Head(q).kind = "Connect" => 1 \in ConnectAt(q)
BY DEF ConnectAt

\* A connect is asked, judged and sent by one request at a time.
LEMMA HandleCInv ==
    ASSUME TInv, CInv, Request \/ Serve
    PROVE  CInv'
<1>0. mailbox \in Seq(Messages) /\ client \in Clients
  BY DEF TInv, TypeOK
<1> USE DEF CInv, OneOwner, ShownAtRest, RestWhenJudged, Claiming, Sent, Taking,
            handleVars, actorVars, execVars
<1>1. ASSUME NEW p, AskConnect(p) PROVE CInv'
  <2>1. ~Claiming /\ ~Sent /\ ~Taking
    BY <1>1 DEF AskConnect
  <2>2. client'.pc = "claimed"
    BY <1>0, <1>1 DEF AskConnect, Clients
  <2> QED BY <1>1, <2>1, <2>2 DEF AskConnect
<1>2. CASE AskDisconnect
  <2>1. client'.pc = "looked"
    BY <1>0, <1>2 DEF AskDisconnect, Clients
  <2> QED BY <1>2, <2>1 DEF AskDisconnect
<1>3. CASE AskShutdown
  <2>1. ConnectAt(mailbox') = ConnectAt(mailbox)
    <3>1. ShutdownMsg \in Messages /\ ShutdownMsg.kind # "Connect"
      BY DEF ShutdownMsg, Messages
    <3> QED BY <1>0, <1>3, <3>1, AppendOther DEF AskShutdown
  <2> QED BY <1>3, <2>1 DEF AskShutdown
<1>4. CASE JudgeConnect
  <2>1. Claiming /\ ~Sent /\ ~Taking
    BY <1>4 DEF JudgeConnect
  <2>2. CASE shown.status \in {"Probing", "Connected"}
    <3>1. client'.pc = "free"
      BY <1>4, <2>2 DEF JudgeConnect, Unserved
    <3> QED BY <1>4, <2>1, <2>2, <3>1 DEF JudgeConnect
  <2>3. CASE shown.status \notin {"Probing", "Connected"}
    <3>1. shown.status \in {"Disconnected", "Failed"}
      BY <2>3 DEF TInv, TypeOK, Statuses
    <3>2. client'.pc = "judged" /\ eng.phase \in AtRest
      BY <1>0, <1>4, <2>1, <2>3, <3>1 DEF JudgeConnect, Clients
    <3> QED BY <1>4, <2>1, <2>3, <3>2 DEF JudgeConnect
  <2> QED BY <2>2, <2>3
<1>5. CASE SendConnect
  <2>1. Claiming /\ ~Sent /\ ~Taking /\ connecting /\ eng.phase \in AtRest
    BY <1>5 DEF SendConnect
  <2>2. client'.pc = "free"
    BY <1>5 DEF SendConnect, Unserved
  <2>3. CASE Room /\ ~Closed
    <3>1. ConnectMsg(client.profile) \in Messages /\ ConnectMsg(client.profile).kind = "Connect"
      BY <1>0 DEF ConnectMsg, Messages, Clients
    <3>2. ConnectAt(mailbox') = ConnectAt(mailbox) \cup {Len(mailbox) + 1}
      BY <1>0, <1>5, <2>3, <3>1, AppendConnect DEF SendConnect
    <3>3. ConnectAt(mailbox') = {Len(mailbox) + 1}
      BY <2>1, <3>2
    <3> QED BY <1>5, <2>1, <2>2, <2>3, <3>3 DEF SendConnect
  <2>4. CASE ~(Room /\ ~Closed)
    BY <1>5, <2>1, <2>2, <2>4 DEF SendConnect
  <2> QED BY <2>3, <2>4
<1>6. CASE AnswerDisconnect
  <2>1. ConnectAt(mailbox') = ConnectAt(mailbox)
    <3>1. DisconnectMsg \in Messages /\ DisconnectMsg.kind # "Connect"
      BY DEF DisconnectMsg, Messages
    <3>2. mailbox' = mailbox \/ mailbox' = Append(mailbox, DisconnectMsg)
      BY <1>6 DEF AnswerDisconnect
    <3> QED BY <1>0, <3>1, <3>2, AppendOther
  <2>2. client'.pc = "free"
    BY <1>6 DEF AnswerDisconnect, Unserved
  <2> QED BY <1>6, <2>1, <2>2 DEF AnswerDisconnect
<1> QED BY <1>1, <1>2, <1>3, <1>4, <1>5, <1>6 DEF Request, Serve

\* A report delivered by a background task is no connect.
LEMMA DeliverCInv ==
    ASSUME TInv, CInv, NEW m \in Reports, Deliver(m),
           UNCHANGED <<shown, connecting, client, actorVars>>
    PROVE  CInv'
<1>1. m \in Messages /\ m.kind # "Connect"
  BY DEF Reports, Messages
<1>2. mailbox' = mailbox \/ mailbox' = Append(mailbox, m)
  BY DEF Deliver
<1>3. mailbox \in Seq(Messages)
  BY DEF TInv, TypeOK
<1>4. ConnectAt(mailbox') = ConnectAt(mailbox)
  BY <1>1, <1>2, <1>3, AppendOther
<1> QED BY <1>4 DEF CInv, OneOwner, ShownAtRest, RestWhenJudged, Claiming, Sent, Taking, actorVars

\* What a step of the actor makes of the engine's phase: a disconnect rests,
\* and news keeps an engine at rest where it is.
LEMMA ActorStepRests ==
    ASSUME TInv, NEW in, NEW behind, ActorStep(eng, in, <<>>, behind),
           \/ in = DisconnectMsg
           \/ in \in News /\ eng.phase \in AtRest
    PROVE  eng'.phase \in AtRest
<1>1. PICK r \in Step(eng, in) : eng' = r.eng
  BY DEF ActorStep
<1>2. eng \in Engines
  BY DEF TInv, TypeOK
<1>3. CASE in = DisconnectMsg
  <2>1. r = Disconnect(eng)
    BY <1>1, <1>3 DEF Step, DisconnectMsg
  <2>2. SetPhase(eng, "Idle", NoProfile, NoEndpoint, NoCause) \in Engines
        /\ SetPhase(eng, "Idle", NoProfile, NoEndpoint, NoCause).phase = "Idle"
    BY <1>2, SetPhaseType DEF Phases
  <2>3. r.eng.phase = "Idle"
    BY <2>1, <2>2 DEF Disconnect, Asked, Engines
  <2> QED BY <1>1, <2>3 DEF AtRest
<1>4. CASE in \in News /\ eng.phase \in AtRest
  BY <1>1, <1>2, <1>4, RestKept
<1> QED BY <1>3, <1>4

\* The actor takes a message: the connect becomes its own, anything else keeps
\* an engine at rest where a connect is owed one (Actor::run).
LEMMA TakeMessageCInv ==
    ASSUME TInv, CInv, TakeMessage
    PROVE  CInv'
<1> DEFINE m == Head(mailbox)
<1>1. mailbox \in Seq(Messages) /\ mailbox # <<>> /\ mailbox' = Tail(mailbox)
  BY DEF TInv, TypeOK, TakeMessage
<1>2. m \in Messages
  BY <1>1, HeadTailType
<1>3. /\ \A i \in ConnectAt(mailbox') : i \in Nat /\ i >= 1 /\ i + 1 \in ConnectAt(mailbox)
      /\ m.kind = "Connect" => 1 \in ConnectAt(mailbox)
  BY <1>1, TailPlaces
<1>4. actor = "recv" /\ UNCHANGED <<shown, connecting, client>>
  BY DEF TakeMessage
<1>5. Sent' => Sent
  BY <1>3 DEF Sent
<1>6. \A i, j \in ConnectAt(mailbox') : i = j
  <2>1. \A i, j \in ConnectAt(mailbox) : i = j
    BY DEF CInv, OneOwner
  <2> QED BY <1>3, <2>1
<1> HIDE DEF m
<1>7. CASE TakeConnect(m)
  <2>1. m.kind = "Connect" /\ actor' = "publishConnect"
    BY <1>7 DEF TakeConnect
  <2>2. Sent /\ ~Claiming /\ connecting
    BY <1>3, <2>1 DEF CInv, OneOwner, Sent
  <2>3. ~Sent'
    <3> SUFFICES ASSUME NEW i \in ConnectAt(mailbox') PROVE FALSE
      BY DEF Sent
    <3>1. i \in Nat /\ i >= 1 /\ i + 1 = 1
      BY <1>3, <2>1 DEF CInv, OneOwner
    <3> QED BY <3>1
  <2>4. ~Claiming' /\ connecting' /\ client'.pc # "judged"
    BY <1>4, <2>2 DEF Claiming
  <2> QED BY <1>6, <2>1, <2>3, <2>4 DEF CInv, OneOwner, ShownAtRest, RestWhenJudged
<1>8. ASSUME actor' \in {"publish", "publishLast"},
             eng.phase \in AtRest => eng'.phase \in AtRest
      PROVE  CInv'
  BY <1>4, <1>5, <1>6, <1>8
     DEF CInv, OneOwner, ShownAtRest, RestWhenJudged, Claiming, Taking
<1>9. CASE TakeDisconnect(m)
  <2>1. m = DisconnectMsg
    BY <1>2, <1>9 DEF TakeDisconnect, DisconnectMsg, Messages, Reports
  <2>2. eng'.phase \in AtRest
    BY <1>9, <2>1, ActorStepRests DEF TakeDisconnect
  <2> QED BY <1>8, <1>9, <2>2 DEF TakeDisconnect
<1>10. CASE TakeShutdown(m)
  <2>1. eng'.phase \in AtRest
    BY <1>10, ActorStepRests DEF TakeShutdown
  <2> QED BY <1>8, <1>10, <2>1 DEF TakeShutdown
<1>11. CASE TakeReport(m)
  <2>1. m.input \in News
    BY <1>2, <1>11 DEF TakeReport, Messages, Reports
  <2>2. eng.phase \in AtRest => eng'.phase \in AtRest
    BY <1>11, <2>1, ActorStepRests DEF TakeReport
  <2> QED BY <1>8, <1>11, <2>2 DEF TakeReport
<1> QED BY <1>7, <1>9, <1>10, <1>11 DEF TakeMessage, m

\* Every step keeps it.
LEMMA NextCInv == TInv /\ CInv /\ [Next]_vars => CInv'
<1> SUFFICES ASSUME TInv, CInv, [Next]_vars PROVE CInv'
  OBVIOUS
<1>1. ASSUME UNCHANGED <<mailbox, shown, connecting, client, actorVars>> PROVE CInv'
  BY <1>1 DEF CInv, OneOwner, ShownAtRest, RestWhenJudged, Claiming, Sent, Taking, actorVars
<1>2. CASE UNCHANGED vars
  BY <1>1, <1>2 DEF vars, handleVars, actorVars
<1>3. CASE Publish
  <2>1. shown'.status \in {"Disconnected", "Failed"} => eng'.phase \in AtRest
    BY <1>3 DEF Publish, SnapshotOf, Status, AtRest
  <2>2. Taking' <=> actor = "publishConnect"
    BY <1>3 DEF Publish, AfterPublish, Taking
  <2>3. ConnectAt(mailbox') \subseteq ConnectAt(mailbox)
    <3>1. mailbox' = mailbox \/ mailbox' = <<>>
      BY <1>3 DEF Publish
    <3> QED BY <3>1 DEF ConnectAt
  <2>4. UNCHANGED <<connecting, client, eng>>
    BY <1>3 DEF Publish
  <2> QED BY <2>1, <2>2, <2>3, <2>4
      DEF CInv, OneOwner, ShownAtRest, RestWhenJudged, Claiming, Sent, Taking
<1>4. CASE ClearConnecting
  <2>1. Taking /\ ~Claiming /\ ~Sent
    BY <1>4 DEF ClearConnecting, CInv, OneOwner, Taking
  <2> QED BY <1>4, <2>1
      DEF ClearConnecting, CInv, OneOwner, ShownAtRest, RestWhenJudged, Claiming, Sent, Taking
<1>5. CASE SendReport
  <2>1. Head(exec.out) \in Reports
    BY <1>5, HeadTailType DEF SendReport, TInv, TypeOK
  <2> QED BY <1>5, <2>1, DeliverCInv DEF SendReport
<1>6. ASSUME NEW r \in races, RaceReports(r) PROVE CInv'
  <2>1. r.report \in Reports
    BY <1>6 DEF RaceReports, Running, TInv, TypeOK, RaceTasks
  <2> QED BY <1>6, <2>1, DeliverCInv DEF RaceReports
<1>7. ASSUME NEW m \in monitors, MonitorSends(m) PROVE CInv'
  <2>1. m.queue \in Seq(News) /\ m.queue # <<>> /\ m.attempt \in Nat
    BY <1>7 DEF MonitorSends, TInv, TypeOK, HasReport, MonitorTasks
  <2>2. Report(m.attempt, Head(m.queue)) \in Reports
    BY <2>1, HeadTailType, ReportType
  <2> QED BY <1>7, <2>2, DeliverCInv DEF MonitorSends
<1>8. CASE TakeWork \/ ReachDone \/ StartSucceeds \/ StartFails \/ MoveTried \/ StopDone
  BY <1>1, <1>8
     DEF TakeWork, ReachDone, StartSucceeds, StartFails, MoveTried, StopDone, handleVars
<1>9. ASSUME NEW r \in races, RaceDone(r) PROVE CInv'
  BY <1>1, <1>9 DEF RaceDone, handleVars
<1>10. ASSUME NEW m \in monitors, MonitorChecks(m) \/ MonitorLooks(m) PROVE CInv'
  BY <1>1, <1>10 DEF MonitorChecks, MonitorLooks, handleVars
<1> QED BY <1>2, <1>3, <1>4, <1>5, <1>6, <1>7, <1>8, <1>9, <1>10, HandleCInv, TakeMessageCInv
    DEF Next, Act, Execute, RunRace, Watch

\* With no connect on its way an engine at rest stays there, and none of the
\* tasks sends one (Actor::run; only Handle::connect does).
LEMMA RestsWithoutConnect ==
    ASSUME TInv, eng.phase \in AtRest, ConnectAt(mailbox) = {},
           Act \/ Execute \/ RunRace \/ Watch
    PROVE  eng'.phase \in AtRest /\ ConnectAt(mailbox') = {}
<1>0. mailbox \in Seq(Messages)
  BY DEF TInv, TypeOK
<1>1. ASSUME NEW m \in Reports, Deliver(m), eng' = eng
      PROVE  eng'.phase \in AtRest /\ ConnectAt(mailbox') = {}
  <2>1. m \in Messages /\ m.kind # "Connect"
    BY DEF Reports, Messages
  <2>2. mailbox' = mailbox \/ mailbox' = Append(mailbox, m)
    BY <1>1 DEF Deliver
  <2> QED BY <1>0, <1>1, <2>1, <2>2, AppendOther
<1>2. CASE TakeMessage
  <2> DEFINE m == Head(mailbox)
  <2>1. mailbox # <<>> /\ mailbox' = Tail(mailbox)
    BY <1>2 DEF TakeMessage
  <2>2. m \in Messages
    BY <1>0, <2>1, HeadTailType
  <2>3. ConnectAt(mailbox') = {} /\ m.kind # "Connect"
    BY <1>0, <2>1, TailPlaces
  <2> HIDE DEF m
  <2>4. CASE TakeDisconnect(m)
    <3>1. m = DisconnectMsg
      BY <2>2, <2>4 DEF TakeDisconnect, DisconnectMsg, Messages, Reports
    <3> QED BY <2>3, <2>4, <3>1, ActorStepRests DEF TakeDisconnect
  <2>5. CASE TakeShutdown(m)
    BY <2>3, <2>5, ActorStepRests DEF TakeShutdown
  <2>6. CASE TakeReport(m)
    <3>1. m.input \in News
      BY <2>2, <2>6 DEF TakeReport, Messages, Reports
    <3> QED BY <2>3, <2>6, <3>1, ActorStepRests DEF TakeReport
  <2> QED BY <1>2, <2>3, <2>4, <2>5, <2>6 DEF TakeMessage, TakeConnect, m
<1>3. CASE Publish
  <2>1. eng' = eng /\ (mailbox' = mailbox \/ mailbox' = <<>>)
    BY <1>3 DEF Publish
  <2> QED BY <2>1 DEF ConnectAt
<1>4. CASE ClearConnecting
  BY <1>4 DEF ClearConnecting
<1>5. CASE SendReport
  <2>1. Head(exec.out) \in Reports
    BY <1>5, HeadTailType DEF SendReport, TInv, TypeOK
  <2> QED BY <1>1, <1>5, <2>1 DEF SendReport, actorVars
<1>6. ASSUME NEW r \in races, RaceReports(r)
      PROVE  eng'.phase \in AtRest /\ ConnectAt(mailbox') = {}
  <2>1. r.report \in Reports
    BY <1>6 DEF RaceReports, Running, TInv, TypeOK, RaceTasks
  <2> QED BY <1>1, <1>6, <2>1 DEF RaceReports, actorVars
<1>7. ASSUME NEW m \in monitors, MonitorSends(m)
      PROVE  eng'.phase \in AtRest /\ ConnectAt(mailbox') = {}
  <2>1. m.queue \in Seq(News) /\ m.queue # <<>> /\ m.attempt \in Nat
    BY <1>7 DEF MonitorSends, TInv, TypeOK, HasReport, MonitorTasks
  <2>2. Report(m.attempt, Head(m.queue)) \in Reports
    BY <2>1, HeadTailType, ReportType
  <2> QED BY <1>1, <1>7, <2>2 DEF MonitorSends, actorVars
<1>8. CASE TakeWork \/ ReachDone \/ StartSucceeds \/ StartFails \/ MoveTried \/ StopDone
  <2>1. UNCHANGED <<mailbox, eng>>
    BY <1>8 DEF TakeWork, ReachDone, StartSucceeds, StartFails, MoveTried, StopDone,
               handleVars, actorVars
  <2> QED BY <2>1
<1>9. ASSUME NEW r \in races, RaceDone(r)
      PROVE  eng'.phase \in AtRest /\ ConnectAt(mailbox') = {}
  BY <1>9 DEF RaceDone, handleVars, actorVars
<1>10. ASSUME NEW m \in monitors, MonitorChecks(m) \/ MonitorLooks(m)
       PROVE  eng'.phase \in AtRest /\ ConnectAt(mailbox') = {}
  <2>1. UNCHANGED <<handleVars, actorVars>>
    BY <1>10 DEF MonitorChecks, MonitorLooks
  <2> QED BY <2>1 DEF handleVars, actorVars
<1> QED BY <1>2, <1>3, <1>4, <1>5, <1>6, <1>7, <1>8, <1>9, <1>10
    DEF Act, Execute, RunRace, Watch

\* Nobody has asked for anything yet.
LEMMA InitCInv == Init => CInv
BY DEF Init, NewEngine, Unserved, CInv, OneOwner, ShownAtRest, RestWhenJudged, Claiming,
       Sent, Taking, ConnectAt, AtRest

\* A connect in the mailbox owns the flag, and finds the engine at rest.
LEMMA CInvTakenUp == CInv => ConnectTakenUp
BY DEF CInv, OneOwner, RestWhenJudged, Sent, ConnectAt, ConnectTakenUp

\* A connect that was accepted is taken up, whatever else is on its way: there
\* is at most one in the mailbox, and the engine is at rest until the actor
\* gets to it (Handle::connect, Actor::run).
THEOREM ConnectIsTakenUp == Spec => []ConnectTakenUp
BY InitTInv, NextTInv, InitCInv, NextCInv, CInvTakenUp, PTL DEF Spec

-----------------------------------------------------------------------------
(* The tunnel, the race and the work under way.                            *)
(*                                                                         *)
(* What the engine's phase names and what is on the machine meet through   *)
(* three queues: work for the executor, its reports, and the mailbox.  An  *)
(* attempt number is used for one thing asked of the executor, so whatever *)
(* carries the current number is about the tunnel or the race of the       *)
(* current phase; and whatever carries an earlier one is followed in the   *)
(* work by what ends it.                                                   *)

Bringing   == {"StartTunnel", "MoveTunnel"}
Cancelling == {"StartRace", "CancelRace", "StartTunnel", "MoveTunnel"}

Target(w) == Tunnel(w.profile, w.endpoint)

\* Nothing is left to do, and the tunnel of the phase is up.
UpAndDone == /\ eng.phase \in Using /\ work = <<>> /\ exec.item = NoWork
             /\ tunnel = Carried(eng)

\* Nothing is left to do, and the race of the phase runs with no tunnel.
RacingAndDone == /\ eng.phase \in Racing /\ work = <<>> /\ exec.item = NoWork
                 /\ tunnel = NoTunnel

Ending == eng.phase = "Idle" /\ actor \in {"publishLast", "ended"}

\* The items of work: what carries the current attempt is the last item and
\* what the phase names; a race that is asked for no longer is followed by
\* what cancels it; nothing follows the barrier.
WorkInv ==
    \A i \in 1..Len(work) :
        LET w == work[i].do
            current == work[i].attempt = attempt
        IN  /\ work[i].attempt =< attempt
            /\ w.kind \in Bringing /\ current =>
                  i = Len(work) /\ eng.phase \in Using /\ Target(w) = Carried(eng)
            /\ w.kind = "StartRace" /\ current =>
                  i = Len(work) /\ eng.phase \in Racing /\ w.profiles = eng.raced
            /\ w.kind = "StartRace" /\ ~current =>
                  \E j \in 1..Len(work) : j > i /\ work[j].do.kind \in Cancelling
            /\ w.kind = "Barrier" => i = Len(work) /\ Ending

\* The item the executor is at.
ItemInv ==
    /\ exec.for =< attempt
    /\ exec.item.kind \in Bringing /\ exec.for = attempt =>
          work = <<>> /\ eng.phase \in Using /\ Target(exec.item) = Carried(eng)

\* The executor's reports, before they are in the mailbox.
OutInv ==
    \A i \in 1..Len(exec.out) :
        LET m == exec.out[i]
        IN  /\ m.attempt =< attempt
            /\ m.input.kind # "RaceFinished"
            /\ m.input.kind = "TunnelUp" /\ m.attempt = attempt => UpAndDone

\* The reports in the mailbox.
MailInv ==
    \A i \in 1..Len(mailbox) :
        LET m == mailbox[i]
        IN  m.kind = "Report" =>
            /\ m.attempt =< attempt
            /\ m.input.kind = "TunnelUp" /\ m.attempt = attempt => UpAndDone
            /\ m.input.kind = "RaceFinished" /\ m.attempt = attempt =>
                  /\ RacingAndDone /\ m.input \in Outcomes(eng.raced)
                  /\ \A r \in races : r.attempt # attempt
                  /\ \A j \in 1..Len(mailbox) :
                        /\ mailbox[j].kind = "Report" /\ mailbox[j].attempt = attempt
                        /\ mailbox[j].input.kind = "RaceFinished"
                        => j = i

\* The race tasks: the one of the current attempt is the race of the phase,
\* one of an earlier attempt that still runs is about to be cancelled, and
\* the one that runs is the one whose token is held.
RaceInv ==
    /\ \A r \in races :
          /\ r.attempt =< attempt
          /\ r.attempt = attempt => RacingAndDone /\ r.profiles = eng.raced
          /\ Running(r) => r.attempt = token
          /\ Running(r) /\ r.attempt # attempt =>
                \E j \in 1..Len(work) : work[j].do.kind \in Cancelling
          /\ ~Running(r) => /\ r.report.attempt = r.attempt
                            /\ r.report.input \in Outcomes(r.profiles)
    /\ \A r, s \in races :
          (r.attempt = attempt /\ s.attempt = attempt) \/ (Running(r) /\ Running(s)) => r = s

\* The monitors report neither tunnels nor races.
MonitorInv ==
    \A m \in monitors :
        /\ m.attempt =< attempt
        /\ \A i \in 1..Len(m.queue) : m.queue[i].kind \notin {"TunnelUp", "RaceFinished"}

\* The tunnel is down, or a stop with no start behind it is on its way.
ComesDown ==
    \/ \E i \in 1..Len(work) :
          /\ work[i].do.kind = "StopTunnel"
          /\ \A j \in 1..Len(work) : j > i => work[j].do.kind \notin Bringing
    \/ /\ \A j \in 1..Len(work) : work[j].do.kind \notin Bringing
       /\ \/ exec.item.kind = "StopTunnel"
          \/ exec.item.kind \notin Bringing /\ tunnel = NoTunnel

PhaseInv ==
    /\ eng.phase \notin Using => ComesDown
    /\ eng.phase = "Connected" => UpAndDone
    /\ stopping = "done" => Ending /\ work = <<>> /\ Idle

\* A profile in use or raced is not blocked.
ViaInv ==
    /\ eng.phase \in Using => eng.via[eng.profile] # "blocked"
    /\ \A p \in eng.raced : eng.via[p] # "blocked"

AInv == /\ WorkInv /\ ItemInv /\ OutInv /\ MailInv /\ RaceInv /\ MonitorInv
        /\ PhaseInv /\ ViaInv

-----------------------------------------------------------------------------
(* What a step of the engine asks for, by the phase it leaves and the one  *)
(* it comes to.                                                            *)

\* A step that asks for nothing.
Rests(e, in, f) ==
    \/ /\ f.phase = e.phase /\ f.profile = e.profile /\ f.active = e.active
       /\ f.raced = e.raced
    \/ /\ in.kind = "TunnelUp" /\ e.phase = "Starting" /\ f.phase = "Connected"
       /\ f.profile = e.profile /\ f.active = e.active /\ f.raced = e.raced
    \/ /\ e.phase \in AtRest \/ (e.phase \in Racing /\ in.kind = "RaceFinished")
       /\ f.phase \in AtRest

\* A step that asks for work.
Asks(e, f, w) ==
    \/ w = <<Stop>> /\ e.phase \in Using /\ f.phase \in AtRest
    \/ w = <<CancelRace>> /\ e.phase \in Racing /\ f.phase \in AtRest
    \/ /\ e.phase \in AtRest /\ f.phase \in Racing
       /\ \E ep \in Endpoints : w = <<Race(f.raced, ep)>>
    \/ /\ e.phase \in Racing /\ f.phase \in Racing
       /\ \E ep \in Endpoints : w = <<CancelRace, Race(f.raced, ep)>>
    \/ /\ e.phase \in Using /\ f.phase \in Racing
       /\ \E ep \in Endpoints : w = <<Stop, Race(f.raced, ep)>>
    \/ /\ e.phase \notin Using /\ f.phase = "Starting"
       /\ w = <<Start(f.profile, f.active)>>
    \/ /\ e.phase \in Using /\ f.phase = "Starting"
       /\ w = <<Stop, Start(f.profile, f.active)>>

Shape(e, in, r) ==
    \/ r.work = <<>> /\ Rests(e, in, r.eng)
    \/ Asks(e, r.eng, r.work)

\* An input that is only noted.
LEMMA NotedShape ==
    ASSUME NEW e, NEW in, NEW f, SameUse(e, f), NEW events
    PROVE  Shape(e, in, Asked(f, <<>>, events))
BY DEF Shape, Rests, SameUse, Asked

\* Engine::fail.
LEMMA FailShape ==
    ASSUME NEW f \in Engines, NEW cause \in Causes, NEW stop \in BOOLEAN
    PROVE  LET r == Fail(f, cause, stop)
           IN  r.work = (IF stop THEN <<Stop>> ELSE <<>>) /\ r.eng.phase \in AtRest
<1> DEFINE g == SetPhase(f, "Failed", NoProfile, NoEndpoint, cause)
<1>1. g \in Engines /\ g.phase = "Failed"
  BY SetPhaseType DEF Phases
<1>2. [g EXCEPT !.raced = {}].phase = "Failed"
  BY <1>1 DEF Engines
<1> HIDE DEF g
<1> QED BY <1>2 DEF Fail, Asked, AtRest, g

\* Engine::start_race.
LEMMA StartRaceShape ==
    ASSUME NEW f \in Engines, NEW ps, NEW ep, NEW phase \in Racing
    PROVE  LET r == StartRace(f, ps, ep, phase)
           IN  r.work = <<Race(ps, ep)>> /\ r.eng.phase = phase /\ r.eng.raced = ps
<1> DEFINE g == SetPhase(f, phase, NoProfile, NoEndpoint, NoCause)
<1>1. g \in Engines /\ g.phase = phase
  BY SetPhaseType DEF Phases, Racing
<1>2. [g EXCEPT !.raced = ps].phase = phase /\ [g EXCEPT !.raced = ps].raced = ps
  BY <1>1 DEF Engines
<1> HIDE DEF g
<1> QED BY <1>2 DEF StartRace, Asked, g

\* Engine::start_tunnel.
LEMMA StartTunnelShape ==
    ASSUME NEW f \in Engines, NEW p \in Profiles, NEW ep \in Endpoints
    PROVE  LET r == StartTunnel(f, p, ep)
           IN  /\ r.work = <<Start(p, ep)>> /\ r.eng.phase = "Starting"
               /\ r.eng.profile = p /\ r.eng.active = ep
<1> DEFINE g == SetPhase(ResetDetector(f), "Starting", p, ep, NoCause)
<1>1. g.phase = "Starting" /\ g.profile = p /\ g.active = ep
  BY SetPhaseType, ResetDetectorType DEF Phases
<1> HIDE DEF g
<1> QED BY <1>1 DEF StartTunnel, Asked, g

\* Engine::connect.
LEMMA ConnectShape ==
    ASSUME NEW e \in Engines, NEW in, NEW requested \in Names \cup {NoProfile},
           NEW best \in Endpoints \cup {NoEndpoint}
    PROVE  Shape(e, in, Connect(e, requested, best))
<1> DEFINE f == NewAttempt(e, requested)
           g == [f EXCEPT !.endpoint = best]
           cause == Classify(f, FALSE)
           r == Connect(e, requested, best)
<1>1. f \in Engines
  BY NewAttemptType
<1>2. cause \in Causes \cup {NoCause}
  BY <1>1, ClassifyType
<1>3. CASE e.phase \notin AtRest
  BY <1>3, NotedShape DEF Connect, Ignored, SameUse
<1>4. CASE e.phase \in AtRest
  <2> SUFFICES Shape(e, in, r)
    OBVIOUS
  <2>1. ASSUME NEW h \in Engines, NEW c \in Causes, r = Fail(h, c, FALSE)
        PROVE  Shape(e, in, r)
    <3>1. r.work = <<>> /\ r.eng.phase \in AtRest
      BY <2>1, FailShape
    <3> HIDE DEF r
    <3> QED BY <1>4, <3>1 DEF Shape, Rests
  <2>2. CASE cause # NoCause
    <3>1. r = Fail(f, cause, FALSE)
      BY <1>4, <2>2 DEF Connect
    <3> HIDE DEF r, f, cause
    <3> QED BY <1>1, <1>2, <2>1, <2>2, <3>1
  <2>3. CASE cause = NoCause /\ requested \notin Profiles \cup {NoProfile}
    <3>1. r = Fail(f, "ConfigurationInvalid", FALSE)
      BY <1>4, <2>3 DEF Connect
    <3> HIDE DEF r, f
    <3> QED BY <1>1, <2>1, <3>1 DEF Causes
  <2>4. CASE cause = NoCause /\ requested \in Profiles \cup {NoProfile} /\ best = NoEndpoint
    <3>1. r = Fail(f, "NoEndpointReachable", FALSE)
      BY <1>4, <2>4 DEF Connect
    <3> HIDE DEF r, f
    <3> QED BY <1>1, <2>1, <3>1 DEF Causes
  <2>5. CASE cause = NoCause /\ requested \in Profiles \cup {NoProfile} /\ best # NoEndpoint
    <3>1. r = Begin(g, requested, best)
      BY <1>4, <2>5 DEF Connect
    <3>2. g \in Engines /\ best \in Endpoints
      BY <1>1, <2>5 DEF Engines
    <3> HIDE DEF f, g, r
    <3>3. ASSUME NEW ps, r = StartRace(g, ps, best, "Probing") PROVE Shape(e, in, r)
      <4>1. r.work = <<Race(ps, best)>> /\ r.eng.phase = "Probing" /\ r.eng.raced = ps
        BY <3>2, <3>3, StartRaceShape DEF Racing
      <4> QED BY <1>4, <3>2, <4>1 DEF Shape, Asks, Racing
    <3>4. ASSUME NEW p \in Profiles, r = StartTunnel(g, p, best) PROVE Shape(e, in, r)
      <4>1. /\ r.work = <<Start(p, best)>> /\ r.eng.phase = "Starting"
            /\ r.eng.profile = p /\ r.eng.active = best
        BY <3>2, <3>4, StartTunnelShape
      <4>2. e.phase \notin Using
        BY <1>4 DEF AtRest, Using
      <4> QED BY <4>1, <4>2 DEF Shape, Asks
    <3>5. DirectFallback(g) \in Profiles \cup {NoProfile}
      BY <3>2, DirectFallbackType
    <3>6. "AllProfilesBlocked" \in Causes
      BY DEF Causes
    <3> QED BY <2>1, <2>5, <3>1, <3>2, <3>3, <3>4, <3>5, <3>6 DEF Begin
  <2> QED BY <2>2, <2>3, <2>4, <2>5
<1> QED BY <1>3, <1>4

\* Engine::disconnect.
LEMMA DisconnectShape ==
    ASSUME NEW e \in Engines, NEW in
    PROVE  Shape(e, in, Disconnect(e)) /\ Disconnect(e).eng.phase = "Idle"
<1> DEFINE f == SetPhase(e, "Idle", NoProfile, NoEndpoint, NoCause)
           r == Disconnect(e)
<1>1. f \in Engines /\ f.phase = "Idle"
  BY SetPhaseType DEF Phases
<1>2. [f EXCEPT !.raced = {}].phase = "Idle"
  BY <1>1 DEF Engines
<1> HIDE DEF f
<1>3. r.eng.phase = "Idle"
  BY <1>2 DEF Disconnect, Asked, f
<1>4. /\ e.phase \in Racing => r.work = <<CancelRace>>
      /\ e.phase \in Using => r.work = <<Stop>>
      /\ e.phase \in AtRest => r.work = <<>>
  BY DEF Disconnect, Asked, Racing, Using, AtRest
<1>5. e.phase \in Racing \/ e.phase \in Using \/ e.phase \in AtRest
  BY DEF Engines, Phases, Racing, Using, AtRest
<1> HIDE DEF r
<1>6. Shape(e, in, r)
  <2>1. r.eng.phase \in AtRest
    BY <1>3 DEF AtRest
  <2> QED BY <1>4, <1>5, <2>1 DEF Shape, Rests, Asks
<1> QED BY <1>3, <1>6 DEF r

\* Engine::race_finished.
LEMMA RaceFinishedShape ==
    ASSUME NEW e \in Engines, InUse(e), NEW in, in.kind = "RaceFinished",
           NEW winner \in Profiles \cup {NoProfile}, NEW results \in Results
    PROVE  Shape(e, in, RaceFinished(e, winner, results))
<1> DEFINE f == RecordResults(e, winner, results)
           told == IF Blocks(e, winner, results) # {} THEN {"ProfileBlocked"} ELSE {}
           cause == Classify(f, TRUE)
           settled ==
               IF winner # NoProfile THEN StartTunnel(f, winner, e.endpoint)
               ELSE IF cause # NoCause THEN Fail(f, cause, FALSE)
               ELSE IF OnlyTheNamed(e) THEN Fail(f, "ConfigurationInvalid", FALSE)
               ELSE IF DirectFallback(f) # NoProfile
                    THEN StartTunnel(f, DirectFallback(f), e.endpoint)
               ELSE Fail(f, "AllProfilesBlocked", FALSE)
           r == RaceFinished(e, winner, results)
<1>1. CASE e.phase \notin Racing \/ (winner # NoProfile /\ winner \notin e.raced)
  BY <1>1, NotedShape DEF RaceFinished, Ignored, SameUse
<1>2. CASE e.phase \in Racing /\ ~(winner # NoProfile /\ winner \notin e.raced)
  <2>1. e.endpoint \in Endpoints /\ e.phase \notin Using
    BY <1>2 DEF InUse, Using, Racing
  <2>2. f \in Engines
    BY RecordResultsType
  <2>3. cause \in Causes \cup {NoCause} /\ DirectFallback(f) \in Profiles \cup {NoProfile}
    BY <2>2, ClassifyType, DirectFallbackType
  <2>4. \A p \in Profiles : LET q == StartTunnel(f, p, e.endpoint)
           IN  /\ q.work = <<Start(p, e.endpoint)>> /\ q.eng.phase = "Starting"
               /\ q.eng.profile = p /\ q.eng.active = e.endpoint
    BY <2>1, <2>2, StartTunnelShape
  <2>5. \A c \in Causes : Fail(f, c, FALSE).work = <<>> /\ Fail(f, c, FALSE).eng.phase \in AtRest
    BY <2>2, FailShape
  <2>6. \/ settled.work = <<>> /\ settled.eng.phase \in AtRest
        \/ /\ settled.eng.phase = "Starting"
           /\ settled.work = <<Start(settled.eng.profile, settled.eng.active)>>
    <3> HIDE DEF f, cause
    <3> QED BY <2>3, <2>4, <2>5 DEF Causes
  <2>7. r.eng = settled.eng /\ r.work = <<>> \o settled.work
    BY <1>2 DEF RaceFinished, Then, Asked
  <2>8. r.work = settled.work
    <3> HIDE DEF settled, r
    <3> QED BY <2>6, <2>7
  <2> HIDE DEF settled, r
  <2>9. Shape(e, in, r)
    BY <1>2, <2>1, <2>6, <2>7, <2>8 DEF Shape, Rests, Asks
  <2> QED BY <2>9 DEF r
<1> QED BY <1>1, <1>2

\* Engine::tunnel_up and a tunnel that did not come up.
LEMMA TunnelUpShape ==
    ASSUME NEW e \in Engines, NEW in, in.kind = "TunnelUp"
    PROVE  Shape(e, in, TunnelUp(e))
<1>1. CASE e.phase = "Starting"
  <2> DEFINE d == ResetDetector(e)
             f == [MarkWorking(d, e.profile) EXCEPT !.phase = "Connected"]
  <2>1. d \in Engines /\ d.profile = e.profile /\ d.active = e.active /\ d.raced = e.raced
    BY ResetDetectorType
  <2>2. f.phase = "Connected" /\ f.profile = e.profile /\ f.active = e.active /\ f.raced = e.raced
    <3> HIDE DEF d
    <3> QED BY <2>1 DEF MarkWorking, Engines
  <2>3. TunnelUp(e) = Asked(f, <<>>, {})
    BY <1>1 DEF TunnelUp
  <2> HIDE DEF f
  <2> QED BY <1>1, <2>2, <2>3 DEF Shape, Rests, Asked
<1>2. CASE e.phase # "Starting"
  BY <1>2, NotedShape DEF TunnelUp, Ignored, SameUse
<1> QED BY <1>1, <1>2

LEMMA StartFailedShape ==
    ASSUME NEW e \in Engines, NEW in, NEW cause \in StartCauses
    PROVE  Shape(e, in, StartFailed(e, cause))
<1>1. cause \in Causes
  BY ReadingsAssumption DEF Causes
<1>2. CASE e.phase = "Starting"
  <2> DEFINE r == StartFailed(e, cause)
  <2>1. r.work = <<Stop>> /\ r.eng.phase \in AtRest
    BY <1>1, <1>2, FailShape DEF StartFailed
  <2> HIDE DEF r
  <2>2. Shape(e, in, r)
    BY <1>2, <2>1 DEF Shape, Asks, Using
  <2> QED BY <2>2 DEF r
<1>3. CASE e.phase # "Starting"
  BY <1>3, NotedShape DEF StartFailed, Ignored, SameUse
<1> QED BY <1>2, <1>3

\* Engine::relocate_tunnel.
LEMMA RelocateTunnelShape ==
    ASSUME NEW e, e.phase \in Using, NEW in, NEW f \in Engines, NEW p \in Profiles,
           NEW to \in Endpoints \cup {NoEndpoint}
    PROVE  Shape(e, in, RelocateTunnel(f, p, to))
<1> DEFINE r == RelocateTunnel(f, p, to)
<1>1. CASE to = NoEndpoint
  <2>1. r.work = <<Stop>> /\ r.eng.phase \in AtRest
    BY <1>1, FailShape DEF RelocateTunnel, Causes
  <2> HIDE DEF r
  <2>2. Shape(e, in, r)
    BY <2>1 DEF Shape, Asks
  <2> QED BY <2>2 DEF r
<1>2. CASE to # NoEndpoint
  <2> DEFINE d == [ResetDetector(f) EXCEPT !.endpoint = to]
             g == SetPhase(d, "Starting", p, to, NoCause)
  <2>1. d \in Engines
    <3>1. ResetDetector(f) \in Engines
      BY ResetDetectorType
    <3> QED BY <3>1 DEF Engines
  <2>2. g.phase = "Starting" /\ g.profile = p /\ g.active = to
    <3> HIDE DEF d
    <3> QED BY <1>2, <2>1, SetPhaseType DEF Phases
  <2>3. r.eng = g /\ r.work = <<Stop, Start(p, to)>>
    BY <1>2 DEF RelocateTunnel, Asked
  <2> HIDE DEF g, r
  <2>4. Shape(e, in, r)
    BY <2>2, <2>3 DEF Shape, Asks
  <2> QED BY <2>4 DEF r
<1> QED BY <1>1, <1>2

\* The tail of Engine::live_check: a substitute for the blocked profile.
LEMMA RecoverShape ==
    ASSUME NEW e, e.phase \in Using, NEW in, NEW g \in Engines, NEW p \in Profiles,
           NEW ep \in Endpoints
    PROVE  Shape(e, in, Recover(g, p, ep))
<1> DEFINE f == MarkBlocked(g, p)
           candidates == Unblocked(f) \ {p}
           first == FirstProfile(BestTier(candidates))
           q == IF candidates = {} THEN Fail(f, "AllProfilesBlocked", FALSE)
                ELSE IF candidates \cap Probeable # {}
                THEN StartRace(f, candidates \cap Probeable, ep, "Recovering")
                ELSE StartTunnel(f, first, ep)
           r == Recover(g, p, ep)
<1>1. f \in Engines
  BY DEF MarkBlocked, Engines
<1>2. r.eng = q.eng /\ r.work = <<Stop>> \o q.work
  BY DEF Recover, Then, Asked
<1>3. candidates \in SUBSET Profiles
  BY DEF Unblocked
<1> HIDE DEF f, candidates, r
<1>4. candidates # {} => first \in Profiles
  <2> SUFFICES ASSUME candidates # {} PROVE first \in Profiles
    OBVIOUS
  <2>1. BestTier(candidates) \in SUBSET Profiles
    BY <1>3 DEF BestTier
  <2>2. BestTier(candidates) # {}
    <3>1. \A x \in candidates : Tier[x] \in {1, 2}
      BY <1>3, ProfilesAssumption
    <3>2. CASE \E x \in candidates : Tier[x] = 1
      BY <3>1, <3>2 DEF BestTier
    <3>3. CASE \A x \in candidates : Tier[x] = 2
      BY <3>3 DEF BestTier
    <3> QED BY <3>1, <3>2, <3>3
  <2> QED BY <2>1, <2>2, ProfilesAssumption DEF FirstProfile
<1> HIDE DEF first
<1>5. CASE candidates = {}
  <2>1. q.work = <<>> /\ q.eng.phase \in AtRest
    BY <1>1, <1>5, FailShape DEF Causes
  <2> HIDE DEF q
  <2>2. r.work = <<Stop>>
    BY <1>2, <2>1
  <2>3. Shape(e, in, r)
    BY <1>2, <2>1, <2>2 DEF Shape, Asks
  <2> QED BY <2>3 DEF r
<1>6. CASE candidates # {} /\ candidates \cap Probeable # {}
  <2> DEFINE ps == candidates \cap Probeable
  <2>1. q.work = <<Race(ps, ep)>> /\ q.eng.phase = "Recovering" /\ q.eng.raced = ps
    <3>1. q = StartRace(f, ps, ep, "Recovering") /\ "Recovering" \in Racing
      BY <1>6 DEF Racing
    <3> HIDE DEF q, ps
    <3> QED BY <1>1, <3>1, StartRaceShape
  <2> HIDE DEF q, ps
  <2>2. r.work = <<Stop, Race(ps, ep)>>
    BY <1>2, <2>1, OneAfterAnother
  <2>3. Shape(e, in, r)
    BY <1>2, <2>1, <2>2 DEF Shape, Asks, Racing
  <2> QED BY <2>3 DEF r
<1>7. CASE candidates # {} /\ candidates \cap Probeable = {}
  <2>1. /\ q.work = <<Start(first, ep)>> /\ q.eng.phase = "Starting"
        /\ q.eng.profile = first /\ q.eng.active = ep
    <3>1. q = StartTunnel(f, first, ep) /\ first \in Profiles
      BY <1>4, <1>7
    <3> HIDE DEF q
    <3> QED BY <1>1, <3>1, StartTunnelShape
  <2> HIDE DEF q
  <2>2. r.work = <<Stop, Start(first, ep)>>
    BY <1>2, <2>1, OneAfterAnother
  <2>3. Shape(e, in, r)
    BY <1>2, <2>1, <2>2 DEF Shape, Asks
  <2> QED BY <2>3 DEF r
<1> QED BY <1>5, <1>6, <1>7

\* Engine::live_check.
LEMMA LiveCheckShape ==
    ASSUME NEW e \in Engines, InUse(e), NEW in, NEW passed \in BOOLEAN,
           NEW best \in Endpoints \cup {NoEndpoint}
    PROVE  Shape(e, in, LiveCheck(e, passed, best))
<1> DEFINE f == Observe(e, passed)
           cause == Classify(f, FALSE)
<1>1. SameUse(e, f) /\ SameUse(e, e) /\ f \in Engines
  BY ObserveType DEF SameUse
<1>2. cause \in Causes \cup {NoCause}
  BY <1>1, ClassifyType
<1>3. CASE e.phase # "Connected"
  BY <1>1, <1>3, NotedShape DEF LiveCheck, Ignored
<1>4. CASE e.phase = "Connected"
  <2>1. e.profile \in Profiles /\ e.active \in Endpoints /\ e.phase \in Using
    BY <1>4 DEF InUse, Using
  <2>2. Shape(e, in, Ignored(f))
    BY <1>1, NotedShape DEF Ignored
  <2>3. cause # NoCause => Shape(e, in, Fail(f, cause, TRUE))
    <3>1. \A c \in Causes : Fail(f, c, TRUE).work = <<Stop>> /\ Fail(f, c, TRUE).eng.phase \in AtRest
      BY <1>1, FailShape
    <3> HIDE DEF f, cause
    <3> QED BY <1>2, <2>1, <3>1 DEF Shape, Asks
  <2>4. Shape(e, in, RelocateTunnel(f, e.profile, best))
    BY <1>1, <2>1, RelocateTunnelShape
  <2>5. Shape(e, in, Recover(f, e.profile, e.active))
    BY <1>1, <2>1, RecoverShape
  <2> HIDE DEF f, cause
  <2> QED BY <1>4, <2>2, <2>3, <2>4, <2>5 DEF LiveCheck, f, cause
<1> QED BY <1>3, <1>4

\* Engine::relocate_race.
LEMMA RelocateRaceShape ==
    ASSUME NEW e, e.phase \in Racing, NEW in, NEW f \in Engines, f.phase = e.phase,
           NEW to \in Endpoints \cup {NoEndpoint}
    PROVE  Shape(e, in, RelocateRace(f, to))
<1> DEFINE r == RelocateRace(f, to)
<1>1. CASE to = NoEndpoint
  <2> DEFINE q == Fail(f, "NoEndpointReachable", FALSE)
  <2>1. q.work = <<>> /\ q.eng.phase \in AtRest
    BY FailShape DEF Causes
  <2>2. r.eng = q.eng /\ r.work = <<CancelRace>> \o q.work
    BY <1>1 DEF RelocateRace, Then, Asked
  <2> HIDE DEF q, r
  <2>3. r.work = <<CancelRace>>
    BY <2>1, <2>2
  <2>4. Shape(e, in, r)
    BY <2>1, <2>2, <2>3 DEF Shape, Asks
  <2> QED BY <2>4 DEF r
<1>2. CASE to # NoEndpoint
  <2>1. r.eng = [f EXCEPT !.endpoint = to] /\ r.work = <<CancelRace, Race(f.raced, to)>>
    BY <1>2 DEF RelocateRace, Asked
  <2>2. r.eng.phase = e.phase /\ r.eng.raced = f.raced
    BY <2>1 DEF Engines
  <2> HIDE DEF r
  <2>3. Shape(e, in, r)
    BY <1>2, <2>1, <2>2 DEF Shape, Asks
  <2> QED BY <2>3 DEF r
<1> QED BY <1>1, <1>2

\* Engine::endpoint_probe.
LEMMA EndpointProbeShape ==
    ASSUME NEW e \in Engines, InUse(e), NEW in, NEW ep \in Endpoints,
           NEW outcome \in ProbeOutcomes, NEW best \in Endpoints \cup {NoEndpoint}
    PROVE  Shape(e, in, EndpointProbe(e, ep, outcome, best))
<1> DEFINE f == Probed(e, ep, outcome)
<1>1. SameUse(e, f) /\ f \in Engines /\ f.phase = e.phase
  BY ProbedType DEF SameUse
<1>2. Shape(e, in, Ignored(f))
  BY <1>1, NotedShape DEF Ignored
<1>3. e.phase \in Using => Shape(e, in, RelocateTunnel(f, e.profile, best))
  BY <1>1, RelocateTunnelShape DEF InUse
<1>4. e.phase \in Racing => Shape(e, in, RelocateRace(f, best))
  BY <1>1, RelocateRaceShape
<1>5. e.phase \in AtRest \/ e.phase \in Using \/ e.phase \in Racing
  BY DEF Engines, Phases, AtRest, Using, Racing
<1> HIDE DEF f
<1> QED BY <1>2, <1>3, <1>4, <1>5 DEF EndpointProbe, f

\* Every step of the engine, whatever the input.
LEMMA StepShape ==
    ASSUME NEW e \in Engines, InUse(e), NEW in \in Inputs, NEW r \in Step(e, in)
    PROVE  Shape(e, in, r)
<1>1. \A b \in RankFirst(e.health) : b \in Endpoints \cup {NoEndpoint}
  BY RankFirstType DEF Engines
<1>2. CASE in.kind = "Connect"
  <2>1. in.profile \in Names \cup {NoProfile}
    BY <1>2 DEF Inputs
  <2>2. PICK b \in RankFirst(e.health) : r = Connect(e, in.profile, b)
    BY <1>2 DEF Step
  <2> QED BY <1>1, <2>1, <2>2, ConnectShape
<1>3. CASE in.kind = "Disconnect"
  <2>1. r = Disconnect(e)
    BY <1>3 DEF Step
  <2> QED BY <2>1, DisconnectShape
<1>4. CASE in.kind = "RaceFinished"
  <2>1. in.winner \in Profiles \cup {NoProfile} /\ in.results \in Results
    BY <1>4 DEF Inputs
  <2>2. r = RaceFinished(e, in.winner, in.results)
    BY <1>4 DEF Step
  <2> QED BY <1>4, <2>1, <2>2, RaceFinishedShape
<1>5. CASE in.kind = "TunnelUp"
  <2>1. r = TunnelUp(e)
    BY <1>5 DEF Step
  <2> QED BY <1>5, <2>1, TunnelUpShape
<1>6. CASE in.kind = "StartFailed"
  <2>1. in.cause \in StartCauses
    BY <1>6 DEF Inputs
  <2>2. r = StartFailed(e, in.cause)
    BY <1>6 DEF Step
  <2> QED BY <2>1, <2>2, StartFailedShape
<1>7. CASE in.kind = "LiveCheck"
  <2>1. in.passed \in BOOLEAN
    BY <1>7 DEF Inputs
  <2>2. PICK b \in RankFirst(e.health) : r = LiveCheck(e, in.passed, b)
    BY <1>7 DEF Step
  <2> QED BY <1>1, <2>1, <2>2, LiveCheckShape
<1>8. CASE in.kind = "EndpointProbe"
  <2>1. in.endpoint \in Endpoints /\ in.outcome \in ProbeOutcomes
    BY <1>8 DEF Inputs
  <2>2. PICK b \in RankFirst(Probed(e, in.endpoint, in.outcome).health) :
            r = EndpointProbe(e, in.endpoint, in.outcome, b)
    BY <1>8 DEF Step
  <2>3. Probed(e, in.endpoint, in.outcome).health \in [Endpoints -> Health]
    BY <2>1, ProbedType DEF SameUse, Engines
  <2>4. b \in Endpoints \cup {NoEndpoint}
    BY <2>2, <2>3, RankFirstType
  <2> QED BY <2>1, <2>2, <2>4, EndpointProbeShape
<1>9. CASE in.kind = "Environment"
  <2>1. in.env \in Environment
    BY <1>9, ReadingsAssumption DEF Inputs
  <2>2. r = Ignored([e EXCEPT !.env = in.env])
    BY <1>9 DEF Step
  <2>3. SameUse(e, [e EXCEPT !.env = in.env])
    BY <2>1 DEF SameUse, Engines
  <2> QED BY <2>2, <2>3, NotedShape DEF Ignored
<1>10. CASE in.kind = "Reach"
  <2>1. in.reach \in [Endpoints -> ReachAnswers]
    BY <1>10, ReadingsAssumption DEF Inputs
  <2>2. r = Ignored([e EXCEPT !.reach = in.reach])
    BY <1>10 DEF Step
  <2>3. SameUse(e, [e EXCEPT !.reach = in.reach])
    BY <2>1 DEF SameUse, Engines
  <2> QED BY <2>2, <2>3, NotedShape DEF Ignored
<1>11. CASE in.kind \in {"PathChanged", "Connectivity"}
  <2>1. r = PathNews(e, in.kind)
    BY <1>11 DEF Step
  <2>2. SameUse(e, e)
    BY DEF SameUse
  <2> QED BY <2>1, <2>2, NotedShape DEF PathNews, Ignored
<1> QED BY <1>2, <1>3, <1>4, <1>5, <1>6, <1>7, <1>8, <1>9, <1>10, <1>11 DEF Inputs

-----------------------------------------------------------------------------
(* What a step makes of the viability of the profiles.                     *)

\* ViaInv, of any engine.
Viable(e) ==
    /\ e.phase \in Using => e.via[e.profile] # "blocked"
    /\ \A p \in e.raced : e.via[p] # "blocked"

\* What is blocked stays so.
StillBlocked(e, f) == \A p \in Profiles : e.via[p] = "blocked" => f.via[p] = "blocked"

\* Failing, racing and starting leave the viability of the profiles alone.
LEMMA FailVia ==
    ASSUME NEW f \in Engines, NEW cause \in Causes, NEW stop
    PROVE  /\ Fail(f, cause, stop).eng.via = f.via
           /\ Viable(Fail(f, cause, stop).eng)
<1> DEFINE g == [SetPhase(f, "Failed", NoProfile, NoEndpoint, cause) EXCEPT !.raced = {}]
<1>1. Fail(f, cause, stop).eng = g
  BY DEF Fail, Asked
<1>2. g.via = f.via /\ g.phase = "Failed" /\ g.raced = {}
  BY DEF SetPhase, Engines
<1> HIDE DEF g
<1> QED BY <1>1, <1>2 DEF Viable, Using

LEMMA StartRaceVia ==
    ASSUME NEW f \in Engines, NEW ps \in SUBSET Profiles, \A p \in ps : f.via[p] # "blocked",
           NEW ep, NEW phase \in Racing
    PROVE  /\ StartRace(f, ps, ep, phase).eng.via = f.via
           /\ Viable(StartRace(f, ps, ep, phase).eng)
<1> DEFINE g == [SetPhase(f, phase, NoProfile, NoEndpoint, NoCause) EXCEPT !.raced = ps]
<1>1. StartRace(f, ps, ep, phase).eng = g
  BY DEF StartRace, Asked
<1>2. g.via = f.via /\ g.phase = phase /\ g.raced = ps
  BY DEF SetPhase, Engines
<1> HIDE DEF g
<1> QED BY <1>1, <1>2 DEF Viable, Using, Racing

LEMMA StartTunnelVia ==
    ASSUME NEW f \in Engines, f.raced = {}, NEW p \in Profiles, f.via[p] # "blocked",
           NEW ep \in Endpoints
    PROVE  /\ StartTunnel(f, p, ep).eng.via = f.via
           /\ Viable(StartTunnel(f, p, ep).eng)
<1> DEFINE d == ResetDetector(f)
           g == SetPhase(d, "Starting", p, ep, NoCause)
<1>1. StartTunnel(f, p, ep).eng = g
  BY DEF StartTunnel, Asked
<1>2. d \in Engines /\ d.via = f.via /\ d.raced = {}
  BY ResetDetectorType DEF ResetDetector, Engines
<1> HIDE DEF d
<1>3. g.via = f.via /\ g.profile = p /\ g.raced = {}
  BY <1>2 DEF SetPhase, Engines
<1> HIDE DEF g
<1> QED BY <1>1, <1>3 DEF Viable

\* A connect begins with every profile untested (Engine::connect).
LEMMA ConnectVia ==
    ASSUME NEW e \in Engines, Viable(e), NEW requested \in Names \cup {NoProfile},
           NEW best \in Endpoints \cup {NoEndpoint}
    PROVE  Viable(Connect(e, requested, best).eng)
<1> DEFINE f == NewAttempt(e, requested)
           g == [f EXCEPT !.endpoint = best]
           cause == Classify(f, FALSE)
           r == Connect(e, requested, best)
<1> SUFFICES Viable(r.eng)
  OBVIOUS
<1>1. f \in Engines /\ f.raced = {} /\ f.via = [p \in Profiles |-> "untested"]
  <2>1. f.via = [p \in Profiles |-> "untested"]
    BY ResetDetectorType DEF NewAttempt, Engines
  <2> QED BY <2>1, NewAttemptType
<1>2. cause \in Causes \cup {NoCause}
  BY <1>1, ClassifyType
<1>3. CASE e.phase \notin AtRest
  BY <1>3 DEF Connect, Ignored, Asked
<1>4. CASE e.phase \in AtRest
  <2>1. \A c \in Causes : Viable(Fail(f, c, FALSE).eng)
    BY <1>1, FailVia
  <2>2. best # NoEndpoint /\ requested \in Profiles \cup {NoProfile}
        => Viable(Begin(g, requested, best).eng)
    <3> SUFFICES ASSUME best # NoEndpoint, requested \in Profiles \cup {NoProfile}
                 PROVE  Viable(Begin(g, requested, best).eng)
      OBVIOUS
    <3>1. g \in Engines /\ g.raced = {} /\ best \in Endpoints
          /\ \A p \in Profiles : g.via[p] # "blocked"
      BY <1>1 DEF Engines
    <3> HIDE DEF g
    <3>2. \A ps \in SUBSET Profiles : Viable(StartRace(g, ps, best, "Probing").eng)
      BY <3>1, StartRaceVia DEF Racing
    <3>3. \A p \in Profiles : Viable(StartTunnel(g, p, best).eng)
      BY <3>1, StartTunnelVia
    <3>4. Viable(Fail(g, "AllProfilesBlocked", FALSE).eng)
      BY <3>1, FailVia DEF Causes
    <3>5. DirectFallback(g) \in Profiles \cup {NoProfile}
      BY <3>1, DirectFallbackType
    <3>6. Probeable \in SUBSET Profiles /\ (requested \in Probeable => {requested} \in SUBSET Profiles)
      BY ProfilesAssumption
    <3> QED BY <3>2, <3>3, <3>4, <3>5, <3>6 DEF Begin
  <2> HIDE DEF f, g, cause
  <2> QED BY <1>2, <1>4, <2>1, <2>2 DEF Connect, f, g, cause, Causes
<1> QED BY <1>3, <1>4

\* A race that was of unblocked profiles blocks some and revives none
\* (Engine::race_finished, record_results).
LEMMA RaceFinishedVia ==
    ASSUME NEW e \in Engines, InUse(e), Viable(e),
           NEW winner \in Profiles \cup {NoProfile}, NEW results \in Results,
           e.phase \in Racing => /\ winner \in e.raced \cup {NoProfile}
                                 /\ winner # NoProfile => results[winner] = "usable"
                                 /\ \A p \in Profiles : results[p] = "usable" => p \in e.raced
    PROVE  LET r == RaceFinished(e, winner, results)
           IN  Viable(r.eng) /\ StillBlocked(e, r.eng)
<1> DEFINE judged(p) == CASE p = winner \/ results[p] = "usable" -> "working"
                          [] p # winner /\ p \in Blocks(e, winner, results) -> "blocked"
                          [] OTHER -> e.via[p]
           f == RecordResults(e, winner, results)
           told == IF Blocks(e, winner, results) # {} THEN {"ProfileBlocked"} ELSE {}
           cause == Classify(f, TRUE)
           settled ==
               IF winner # NoProfile THEN StartTunnel(f, winner, e.endpoint)
               ELSE IF cause # NoCause THEN Fail(f, cause, FALSE)
               ELSE IF OnlyTheNamed(e) THEN Fail(f, "ConfigurationInvalid", FALSE)
               ELSE IF DirectFallback(f) # NoProfile
                    THEN StartTunnel(f, DirectFallback(f), e.endpoint)
               ELSE Fail(f, "AllProfilesBlocked", FALSE)
           r == RaceFinished(e, winner, results)
<1>1. CASE e.phase \notin Racing \/ (winner # NoProfile /\ winner \notin e.raced)
  <2>1. r.eng = e
    BY <1>1 DEF RaceFinished, Ignored, Asked
  <2> QED BY <2>1 DEF StillBlocked
<1>2. CASE e.phase \in Racing /\ ~(winner # NoProfile /\ winner \notin e.raced)
  <2>1. e.endpoint \in Endpoints
    BY <1>2 DEF InUse
  <2>2. f \in Engines /\ f.raced = {}
    BY RecordResultsType
  <2>3. f.via = [p \in Profiles |-> judged(p)]
    BY DEF RecordResults, Engines
  <2>4. \A p \in Profiles : f.via[p] = judged(p)
    BY <2>3
  <2>5. \A p \in Profiles : e.via[p] = "blocked" => f.via[p] = "blocked"
    <3> SUFFICES ASSUME NEW p \in Profiles, e.via[p] = "blocked" PROVE judged(p) = "blocked"
      BY <2>4
    <3>1. p \notin e.raced
      BY DEF Viable
    <3>2. p # winner /\ results[p] # "usable"
      BY <1>2, <3>1, ProfilesAssumption
    <3> QED BY <3>2
  <2>6. winner # NoProfile => f.via[winner] = "working" /\ winner \in Profiles
    BY <2>4
  <2>7. DirectFallback(f) # NoProfile =>
            DirectFallback(f) \in Profiles /\ f.via[DirectFallback(f)] = "untested"
    <3> DEFINE untried == {p \in Profiles \ Probeable : f.via[p] = "untested"}
    <3>1. untried # {} => FirstProfile(untried) \in untried
      BY ProfilesAssumption DEF FirstProfile
    <3> HIDE DEF f
    <3> QED BY <3>1 DEF DirectFallback
  <2>8. cause \in Causes \cup {NoCause}
    BY <2>2, ClassifyType
  <2> HIDE DEF f, cause
  <2>9. \A c \in Causes : Fail(f, c, FALSE).eng.via = f.via /\ Viable(Fail(f, c, FALSE).eng)
    BY <2>2, FailVia
  <2>10. \A p \in Profiles : f.via[p] # "blocked" =>
            /\ StartTunnel(f, p, e.endpoint).eng.via = f.via
            /\ Viable(StartTunnel(f, p, e.endpoint).eng)
    BY <2>1, <2>2, StartTunnelVia
  <2>11. settled.eng.via = f.via /\ Viable(settled.eng)
    BY <2>6, <2>7, <2>8, <2>9, <2>10 DEF Causes
  <2>12. r.eng = settled.eng
    BY <1>2 DEF RaceFinished, Then, Asked, f, cause
  <2> HIDE DEF settled, r
  <2>13. Viable(r.eng) /\ StillBlocked(e, r.eng)
    BY <2>5, <2>11, <2>12 DEF StillBlocked
  <2> QED BY <2>13 DEF r
<1> QED BY <1>1, <1>2

\* A live check blocks at most the profile in use, and what replaces it is
\* not blocked (Engine::live_check).
LEMMA RecoverVia ==
    ASSUME NEW g \in Engines, g.raced = {}, NEW p \in Profiles, NEW ep \in Endpoints
    PROVE  Viable(Recover(g, p, ep).eng) /\ StillBlocked(g, Recover(g, p, ep).eng)
<1> DEFINE f == MarkBlocked(g, p)
           candidates == Unblocked(f) \ {p}
           first == FirstProfile(BestTier(candidates))
           q == IF candidates = {} THEN Fail(f, "AllProfilesBlocked", FALSE)
                ELSE IF candidates \cap Probeable # {}
                THEN StartRace(f, candidates \cap Probeable, ep, "Recovering")
                ELSE StartTunnel(f, first, ep)
           r == Recover(g, p, ep)
<1>1. f \in Engines /\ f.raced = {} /\ StillBlocked(g, f)
  BY DEF MarkBlocked, Engines, StillBlocked
<1>2. r.eng = q.eng
  BY DEF Recover, Then, Asked
<1>3. candidates \in SUBSET Profiles /\ \A x \in candidates : f.via[x] # "blocked"
  BY DEF Unblocked
<1> HIDE DEF f, candidates, r
<1>4. candidates # {} => first \in candidates
  <2> SUFFICES ASSUME candidates # {} PROVE first \in candidates
    OBVIOUS
  <2>1. BestTier(candidates) \in SUBSET Profiles /\ BestTier(candidates) \subseteq candidates
    BY <1>3 DEF BestTier
  <2>2. BestTier(candidates) # {}
    <3>1. \A x \in candidates : Tier[x] \in {1, 2}
      BY <1>3, ProfilesAssumption
    <3>2. CASE \E x \in candidates : Tier[x] = 1
      BY <3>1, <3>2 DEF BestTier
    <3>3. CASE \A x \in candidates : Tier[x] = 2
      BY <3>3 DEF BestTier
    <3> QED BY <3>1, <3>2, <3>3
  <2> QED BY <2>1, <2>2, ProfilesAssumption DEF FirstProfile
<1> HIDE DEF first
<1>5. q.eng.via = f.via /\ Viable(q.eng)
  <2>1. CASE candidates = {}
    BY <1>1, <2>1, FailVia DEF Causes
  <2>2. CASE candidates # {} /\ candidates \cap Probeable # {}
    <3>1. /\ candidates \cap Probeable \in SUBSET Profiles /\ "Recovering" \in Racing
          /\ \A x \in candidates \cap Probeable : f.via[x] # "blocked"
      BY <1>3 DEF Racing
    <3> DEFINE ps == candidates \cap Probeable
    <3>2. q = StartRace(f, ps, ep, "Recovering")
      BY <2>2
    <3> HIDE DEF q, ps
    <3> QED BY <1>1, <3>1, <3>2, StartRaceVia DEF ps
  <2>3. CASE candidates # {} /\ candidates \cap Probeable = {}
    BY <1>1, <1>3, <1>4, <2>3, StartTunnelVia
  <2> QED BY <2>1, <2>2, <2>3
<1> HIDE DEF q
<1>6. Viable(r.eng) /\ StillBlocked(g, r.eng)
  BY <1>1, <1>2, <1>5 DEF StillBlocked
<1> QED BY <1>6 DEF r

LEMMA RelocateTunnelVia ==
    ASSUME NEW f \in Engines, f.raced = {}, NEW p \in Profiles, f.via[p] # "blocked",
           NEW to \in Endpoints \cup {NoEndpoint}
    PROVE  /\ Viable(RelocateTunnel(f, p, to).eng)
           /\ RelocateTunnel(f, p, to).eng.via = f.via
<1>1. CASE to = NoEndpoint
  BY <1>1, FailVia DEF RelocateTunnel, Causes
<1>2. CASE to # NoEndpoint
  <2> DEFINE d == ResetDetector(f)
             h == [d EXCEPT !.endpoint = to]
             g == SetPhase(h, "Starting", p, to, NoCause)
  <2>1. d \in Engines /\ d.via = f.via /\ d.raced = {}
    BY ResetDetectorType DEF ResetDetector, Engines
  <2> HIDE DEF d
  <2>2. h \in Engines /\ h.via = f.via /\ h.raced = {}
    BY <2>1 DEF Engines
  <2> HIDE DEF h
  <2>3. g.via = f.via /\ g.profile = p /\ g.raced = {}
    BY <2>2 DEF SetPhase, Engines
  <2>4. RelocateTunnel(f, p, to).eng = g
    BY <1>2 DEF RelocateTunnel, Asked, d, h
  <2> HIDE DEF g
  <2> QED BY <2>3, <2>4 DEF Viable
<1> QED BY <1>1, <1>2

LEMMA LiveCheckVia ==
    ASSUME NEW e \in Engines, InUse(e), Viable(e), NEW passed \in BOOLEAN,
           NEW best \in Endpoints \cup {NoEndpoint}
    PROVE  LET r == LiveCheck(e, passed, best)
           IN  Viable(r.eng) /\ StillBlocked(e, r.eng)
<1> DEFINE f == Observe(e, passed)
           cause == Classify(f, FALSE)
           r == LiveCheck(e, passed, best)
<1>1. SameUse(e, f) /\ f \in Engines
  BY ObserveType DEF SameUse
<1>2. f.via = e.via
  BY DEF Observe, ResetDetector, Engines
<1>3. cause \in Causes \cup {NoCause}
  BY <1>1, ClassifyType
<1>4. CASE e.phase # "Connected"
  <2>1. r.eng = e
    BY <1>4 DEF LiveCheck, Ignored, Asked
  <2> QED BY <2>1 DEF StillBlocked
<1>5. CASE e.phase = "Connected"
  <2>1. /\ e.profile \in Profiles /\ e.active \in Endpoints /\ f.raced = {}
        /\ f.via[e.profile] # "blocked"
    BY <1>1, <1>2, <1>5 DEF InUse, Using, Racing, SameUse, Viable
  <2> HIDE DEF f, cause
  <2>2. Viable(Ignored(f).eng) /\ StillBlocked(e, Ignored(f).eng)
    BY <1>1, <1>2 DEF Viable, StillBlocked, Ignored, Asked, SameUse
  <2>3. cause # NoCause => Viable(Fail(f, cause, TRUE).eng) /\ StillBlocked(e, Fail(f, cause, TRUE).eng)
    BY <1>1, <1>2, <1>3, FailVia DEF StillBlocked
  <2>4. LET q == RelocateTunnel(f, e.profile, best) IN Viable(q.eng) /\ StillBlocked(e, q.eng)
    BY <1>1, <1>2, <2>1, RelocateTunnelVia DEF StillBlocked
  <2>5. LET q == Recover(f, e.profile, e.active) IN Viable(q.eng) /\ StillBlocked(e, q.eng)
    BY <1>1, <1>2, <2>1, RecoverVia DEF StillBlocked
  <2> QED BY <1>5, <2>2, <2>3, <2>4, <2>5 DEF LiveCheck, f, cause
<1> QED BY <1>4, <1>5

LEMMA EndpointProbeVia ==
    ASSUME NEW e \in Engines, InUse(e), Viable(e), NEW ep \in Endpoints,
           NEW outcome \in ProbeOutcomes, NEW best \in Endpoints \cup {NoEndpoint}
    PROVE  LET r == EndpointProbe(e, ep, outcome, best)
           IN  Viable(r.eng) /\ r.eng.via = e.via
<1> DEFINE f == Probed(e, ep, outcome)
<1>1. SameUse(e, f) /\ f \in Engines
  BY ProbedType DEF SameUse
<1>2. f.via = e.via
  BY DEF Probed, Engines
<1> HIDE DEF f
<1>3. Viable(f)
  BY <1>1, <1>2 DEF Viable, SameUse
<1>4. Viable(Ignored(f).eng) /\ Ignored(f).eng.via = e.via
  BY <1>2, <1>3 DEF Ignored, Asked
<1>5. e.phase \in Using =>
          /\ Viable(RelocateTunnel(f, e.profile, best).eng)
          /\ RelocateTunnel(f, e.profile, best).eng.via = e.via
  <2> SUFFICES ASSUME e.phase \in Using
               PROVE  /\ Viable(RelocateTunnel(f, e.profile, best).eng)
                      /\ RelocateTunnel(f, e.profile, best).eng.via = e.via
    OBVIOUS
  <2>1. e.profile \in Profiles /\ f.raced = {} /\ f.via[e.profile] # "blocked"
    BY <1>1, <1>2 DEF InUse, Using, Racing, SameUse, Viable
  <2> QED BY <1>1, <1>2, <2>1, RelocateTunnelVia
<1>6. \/ Viable(RelocateRace(f, best).eng) /\ RelocateRace(f, best).eng.via = e.via
      \/ e.phase \notin Racing
  <2>1. CASE best = NoEndpoint
    <3>1. RelocateRace(f, best).eng = Fail(f, "NoEndpointReachable", FALSE).eng
      BY <2>1 DEF RelocateRace, Then, Asked
    <3>2. "NoEndpointReachable" \in Causes
      BY DEF Causes
    <3> DEFINE h == Fail(f, "NoEndpointReachable", FALSE)
    <3>3. h.eng.via = f.via /\ Viable(h.eng)
      BY <1>1, <3>2, FailVia
    <3> HIDE DEF h
    <3> QED BY <1>2, <3>1, <3>3 DEF h
  <2>2. CASE best # NoEndpoint
    <3>1. RelocateRace(f, best).eng = [f EXCEPT !.endpoint = best]
      BY <2>2 DEF RelocateRace, Asked
    <3> DEFINE h == [f EXCEPT !.endpoint = best]
    <3>2. h.via = f.via /\ h.phase = f.phase /\ h.profile = f.profile /\ h.raced = f.raced
      BY <1>1 DEF Engines
    <3> HIDE DEF h
    <3>3. Viable(h)
      BY <1>3, <3>2 DEF Viable
    <3> QED BY <1>2, <3>1, <3>2, <3>3 DEF h
  <2> QED BY <2>1, <2>2
<1>7. e.phase \in AtRest \/ e.phase \in Using \/ e.phase \in Racing
  BY DEF Engines, Phases, AtRest, Using, Racing
<1> QED BY <1>4, <1>5, <1>6, <1>7 DEF EndpointProbe, f

\* No step revives a blocked profile but a connect, given that a race reports
\* on the profiles that were raced (Engine::step).
LEMMA StepVia ==
    ASSUME NEW e \in Engines, InUse(e), Viable(e), NEW in \in Inputs, NEW r \in Step(e, in),
           in.kind = "RaceFinished" /\ e.phase \in Racing => in \in Outcomes(e.raced)
    PROVE  Viable(r.eng) /\ (in.kind # "Connect" => StillBlocked(e, r.eng))
<1>1. \A b \in RankFirst(e.health) : b \in Endpoints \cup {NoEndpoint}
  BY RankFirstType DEF Engines
<1>0. ASSUME NEW f, f.via = e.via, f.phase = e.phase, f.profile = e.profile, f.raced = e.raced,
             r.eng = f
      PROVE  Viable(r.eng) /\ StillBlocked(e, r.eng)
  BY <1>0 DEF Viable, StillBlocked
<1>2. CASE in.kind = "Connect"
  <2>1. in.profile \in Names \cup {NoProfile}
    BY <1>2 DEF Inputs
  <2>2. PICK b \in RankFirst(e.health) : r = Connect(e, in.profile, b)
    BY <1>2 DEF Step
  <2> QED BY <1>1, <1>2, <2>1, <2>2, ConnectVia
<1>3. CASE in.kind = "Disconnect"
  <2>1. r = Disconnect(e)
    BY <1>3 DEF Step
  <2> DEFINE g == [SetPhase(e, "Idle", NoProfile, NoEndpoint, NoCause) EXCEPT !.raced = {}]
  <2>2. r.eng = g
    BY <2>1 DEF Disconnect, Asked
  <2>3. g.via = e.via /\ g.phase = "Idle" /\ g.raced = {}
    BY DEF SetPhase, Engines
  <2> HIDE DEF g
  <2> QED BY <2>2, <2>3 DEF Viable, StillBlocked, Using
<1>4. CASE in.kind = "RaceFinished"
  <2>1. in.winner \in Profiles \cup {NoProfile} /\ in.results \in Results
    BY <1>4 DEF Inputs
  <2>2. r = RaceFinished(e, in.winner, in.results)
    BY <1>4 DEF Step
  <2>3. e.phase \in Racing =>
            /\ in.winner \in e.raced \cup {NoProfile}
            /\ in.winner # NoProfile => in.results[in.winner] = "usable"
            /\ \A p \in Profiles : in.results[p] = "usable" => p \in e.raced
    BY <1>4 DEF Outcomes
  <2> QED BY <2>1, <2>2, <2>3, RaceFinishedVia
<1>5. CASE in.kind = "TunnelUp"
  <2>1. r = TunnelUp(e)
    BY <1>5 DEF Step
  <2>2. CASE e.phase # "Starting"
    BY <1>0, <2>1, <2>2 DEF TunnelUp, Ignored, Asked
  <2>3. CASE e.phase = "Starting"
    <3> DEFINE d == ResetDetector(e)
               f == [MarkWorking(d, e.profile) EXCEPT !.phase = "Connected"]
    <3>1. d \in Engines /\ d.via = e.via /\ d.profile = e.profile /\ d.raced = e.raced
      BY ResetDetectorType DEF ResetDetector, Engines
    <3>2. e.via[e.profile] # "blocked" /\ e.profile \in Profiles
      BY <2>3 DEF Viable, Using, InUse
    <3> HIDE DEF d
    <3>3. /\ f.via = [e.via EXCEPT ![e.profile] = "working"] /\ f.profile = e.profile
          /\ f.raced = e.raced
      BY <3>1 DEF MarkWorking, Engines
    <3>4. r.eng = f
      BY <2>1, <2>3 DEF TunnelUp, Asked, d
    <3> HIDE DEF f
    <3>5. e.via \in [Profiles -> {"untested", "working", "blocked"}] /\ e.raced \subseteq Profiles
      BY DEF Engines
    <3> QED BY <3>2, <3>3, <3>4, <3>5 DEF Viable, StillBlocked
  <2> QED BY <2>2, <2>3
<1>6. CASE in.kind = "StartFailed"
  <2>1. in.cause \in Causes
    BY <1>6, ReadingsAssumption DEF Inputs, Causes
  <2>2. r = StartFailed(e, in.cause)
    BY <1>6 DEF Step
  <2>3. CASE e.phase = "Starting"
    BY <2>1, <2>2, <2>3, FailVia DEF StartFailed, StillBlocked
  <2>4. CASE e.phase # "Starting"
    BY <1>0, <2>2, <2>4 DEF StartFailed, Ignored, Asked
  <2> QED BY <2>3, <2>4
<1>7. CASE in.kind = "LiveCheck"
  <2>1. in.passed \in BOOLEAN
    BY <1>7 DEF Inputs
  <2>2. PICK b \in RankFirst(e.health) : r = LiveCheck(e, in.passed, b)
    BY <1>7 DEF Step
  <2> QED BY <1>1, <2>1, <2>2, LiveCheckVia
<1>8. CASE in.kind = "EndpointProbe"
  <2>1. in.endpoint \in Endpoints /\ in.outcome \in ProbeOutcomes
    BY <1>8 DEF Inputs
  <2>2. PICK b \in RankFirst(Probed(e, in.endpoint, in.outcome).health) :
            r = EndpointProbe(e, in.endpoint, in.outcome, b)
    BY <1>8 DEF Step
  <2>3. Probed(e, in.endpoint, in.outcome).health \in [Endpoints -> Health]
    BY <2>1, ProbedType DEF SameUse, Engines
  <2>4. b \in Endpoints \cup {NoEndpoint}
    BY <2>2, <2>3, RankFirstType
  <2> QED BY <2>1, <2>2, <2>4, EndpointProbeVia DEF StillBlocked
<1>9. CASE in.kind = "Environment"
  <2>1. r.eng = [e EXCEPT !.env = in.env]
    BY <1>9 DEF Step, Ignored, Asked
  <2> QED BY <1>0, <2>1 DEF Engines
<1>10. CASE in.kind = "Reach"
  <2>1. r.eng = [e EXCEPT !.reach = in.reach]
    BY <1>10 DEF Step, Ignored, Asked
  <2> QED BY <1>0, <2>1 DEF Engines
<1>11. CASE in.kind \in {"PathChanged", "Connectivity"}
  <2>1. r.eng = e
    BY <1>11 DEF Step, PathNews, Ignored, Asked
  <2> QED BY <1>0, <2>1
<1> QED BY <1>2, <1>3, <1>4, <1>5, <1>6, <1>7, <1>8, <1>9, <1>10, <1>11 DEF Inputs

-----------------------------------------------------------------------------
(* The items one step of the actor puts in the work.                       *)

\* The last item may be what the new phase f names.
LastOf(f, w) ==
    /\ w.kind \in Bringing => f.phase \in Using /\ Target(w) = Carried(f)
    /\ w.kind = "StartRace" => f.phase \in Racing /\ w.profiles = f.raced
    /\ w.kind = "Barrier" => f.phase = "Idle"

Group(e, f, items) ==
    /\ items \in Seq(WorkItems) /\ items # <<>>
    /\ \A k \in 1..Len(items) :
          items[k].kind \in Bringing \cup {"StartRace", "Barrier"} =>
              k = Len(items) /\ LastOf(f, items[k])
    /\ f.phase \notin Using =>
          /\ \A k \in 1..Len(items) : items[k].kind \notin Bringing
          /\ e.phase \in Using => \E k \in 1..Len(items) : items[k].kind = "StopTunnel"
    /\ e.phase \in Racing => \E k \in 1..Len(items) : items[k].kind \in Cancelling
    /\ f.phase # "Connected"

\* One item, and one behind another.
LEMMA GroupOne ==
    ASSUME NEW e, NEW f, NEW v \in WorkItems, LastOf(f, v), f.phase # "Connected",
           f.phase \notin Using => v.kind \notin Bringing,
           f.phase \notin Using /\ e.phase \in Using => v.kind = "StopTunnel",
           e.phase \in Racing => v.kind \in Cancelling
    PROVE  Group(e, f, <<v>>)
<1>1. <<v>> \in Seq(WorkItems) /\ Len(<<v>>) = 1 /\ <<v>>[1] = v /\ <<v>> # <<>>
  OBVIOUS
<1> DEFINE s == <<v>>
<1> HIDE DEF s
<1>2. s \in Seq(WorkItems) /\ Len(s) = 1 /\ s[1] = v /\ s # <<>>
  BY <1>1 DEF s
<1>3. Group(e, f, s)
  BY <1>2 DEF Group
<1> QED BY <1>3 DEF s

LEMMA GroupTwo ==
    ASSUME NEW e, NEW f, NEW v \in WorkItems, NEW w \in WorkItems,
           v.kind \notin Bringing \cup {"StartRace", "Barrier"},
           LastOf(f, w), f.phase # "Connected",
           f.phase \notin Using => w.kind \notin Bringing,
           f.phase \notin Using /\ e.phase \in Using => v.kind = "StopTunnel",
           e.phase \in Racing => v.kind \in Cancelling \/ w.kind \in Cancelling
    PROVE  Group(e, f, <<v, w>>)
<1>1. /\ <<v, w>> \in Seq(WorkItems) /\ Len(<<v, w>>) = 2 /\ <<v, w>>[1] = v
      /\ <<v, w>>[2] = w /\ <<v, w>> # <<>>
  OBVIOUS
<1> DEFINE s == <<v, w>>
<1> HIDE DEF s
<1>2. s \in Seq(WorkItems) /\ Len(s) = 2 /\ s[1] = v /\ s[2] = w /\ s # <<>>
  BY <1>1 DEF s
<1>3. Group(e, f, s)
  BY <1>2 DEF Group
<1> QED BY <1>3 DEF s

\* The items by name.
LEMMA ItemTypes ==
    /\ Stop \in WorkItems /\ Stop.kind = "StopTunnel"
    /\ CancelRace \in WorkItems /\ CancelRace.kind = "CancelRace"
    /\ CheckReach \in WorkItems /\ CheckReach.kind = "Reach"
    /\ Barrier \in WorkItems /\ Barrier.kind = "Barrier"
    /\ \A ps \in SUBSET Profiles, ep \in Endpoints :
          /\ Race(ps, ep) \in WorkItems /\ Race(ps, ep).kind = "StartRace"
          /\ Race(ps, ep).profiles = ps
    /\ \A p \in Profiles, ep \in Endpoints :
          /\ Start(p, ep) \in WorkItems /\ Start(p, ep).kind = "StartTunnel"
          /\ Target(Start(p, ep)) = Tunnel(p, ep)
          /\ Move(p, ep) \in WorkItems /\ Move(p, ep).kind = "MoveTunnel"
          /\ Target(Move(p, ep)) = Tunnel(p, ep)
<1>1. Stop \in WorkItems /\ Stop.kind = "StopTunnel"
  BY DEF Stop, WorkItems
<1>2. CancelRace \in WorkItems /\ CancelRace.kind = "CancelRace"
  BY DEF CancelRace, WorkItems
<1>3. CheckReach \in WorkItems /\ CheckReach.kind = "Reach"
  BY DEF CheckReach, WorkItems
<1>4. Barrier \in WorkItems /\ Barrier.kind = "Barrier"
  BY DEF Barrier, WorkItems
<1>5. \A ps \in SUBSET Profiles, ep \in Endpoints :
          /\ Race(ps, ep) \in WorkItems /\ Race(ps, ep).kind = "StartRace"
          /\ Race(ps, ep).profiles = ps
  BY DEF Race, WorkItems
<1>6. \A p \in Profiles, ep \in Endpoints :
          /\ Start(p, ep) \in WorkItems /\ Start(p, ep).kind = "StartTunnel"
          /\ Target(Start(p, ep)) = Tunnel(p, ep)
          /\ Move(p, ep) \in WorkItems /\ Move(p, ep).kind = "MoveTunnel"
          /\ Target(Move(p, ep)) = Tunnel(p, ep)
  BY DEF Start, Move, WorkItems, Target
<1> QED BY <1>1, <1>2, <1>3, <1>4, <1>5, <1>6

\* fold_moves by what it is given.
LEMMA FoldCases ==
    /\ FoldMoves(<<>>) = <<>>
    /\ FoldMoves(<<Stop>>) = <<Stop>> /\ FoldMoves(<<CancelRace>>) = <<CancelRace>>
    /\ \A ps \in SUBSET Profiles, ep \in Endpoints :
          /\ FoldMoves(<<Race(ps, ep)>>) = <<Race(ps, ep)>>
          /\ FoldMoves(<<CancelRace, Race(ps, ep)>>) = <<CancelRace, Race(ps, ep)>>
          /\ FoldMoves(<<Stop, Race(ps, ep)>>) = <<Stop, Race(ps, ep)>>
    /\ \A p \in Profiles, ep \in Endpoints :
          /\ FoldMoves(<<Start(p, ep)>>) = <<Start(p, ep)>>
          /\ FoldMoves(<<Stop, Start(p, ep)>>) = <<Move(p, ep)>>
<1>1. ASSUME NEW v PROVE FoldMoves(<<v>>) = <<v>>
  BY DEF FoldMoves
<1>2. ASSUME NEW v, NEW w, w.kind # "StartTunnel" PROVE FoldMoves(<<v, w>>) = <<v, w>>
  BY <1>2 DEF FoldMoves
<1>3. FoldMoves(<<>>) = <<>>
  BY DEF FoldMoves
<1>4. \A p \in Profiles, ep \in Endpoints : FoldMoves(<<Stop, Start(p, ep)>>) = <<Move(p, ep)>>
  BY DEF FoldMoves, Stop, Start
<1>5. \A ps \in SUBSET Profiles, ep \in Endpoints : Race(ps, ep).kind # "StartTunnel"
  BY DEF Race
<1> QED BY <1>1, <1>2, <1>3, <1>4, <1>5

\* What the actor queues for a step that asks for work: a check of reach
\* ahead of a connect's, the barrier behind a shutdown's (Actor::step).
LEMMA AsksGroup ==
    ASSUME NEW e \in Engines, NEW f \in Engines, InUse(f), NEW w, Asks(e, f, w),
           NEW ahead, NEW behind,
           \/ ahead = <<>> /\ behind = <<>>
           \/ ahead = <<CheckReach>> /\ behind = <<>> /\ e.phase \in AtRest
           \/ ahead = <<>> /\ behind = <<Barrier>> /\ f.phase = "Idle"
    PROVE  /\ FoldMoves(w) # <<>>
           /\ Group(e, f, ahead \o FoldMoves(w) \o behind)
<1> DEFINE a == FoldMoves(w)
           items == ahead \o a \o behind
<1>0. f.raced \in SUBSET Profiles
  BY DEF Engines
<1>1. ASSUME NEW v, a = <<v>>
      PROVE  /\ ahead = <<>> /\ behind = <<>> => items = <<v>>
             /\ ahead = <<CheckReach>> /\ behind = <<>> => items = <<CheckReach, v>>
             /\ ahead = <<>> /\ behind = <<Barrier>> => items = <<v, Barrier>>
  <2> HIDE DEF a
  <2>1. <<>> \o <<v>> = <<v>> /\ <<v>> \o <<>> = <<v>> /\ <<CheckReach, v>> \o <<>> = <<CheckReach, v>>
    OBVIOUS
  <2> QED BY <1>1, <2>1, OneAfterAnother
<1>2. ASSUME NEW u, NEW v, a = <<u, v>>, ahead = <<>>, behind = <<>>
      PROVE  items = <<u, v>>
  <2> HIDE DEF a
  <2>1. <<>> \o <<u, v>> = <<u, v>> /\ <<u, v>> \o <<>> = <<u, v>>
    OBVIOUS
  <2> QED BY <1>2, <2>1
<1> SUFFICES a # <<>> /\ Group(e, f, items)
  OBVIOUS
<1>3. ASSUME NEW v, a = <<v>> PROVE a # <<>>
  BY <1>3
<1>4. ASSUME NEW u, NEW v, a = <<u, v>> PROVE a # <<>>
  BY <1>4
<1>5. CASE w = <<Stop>> /\ e.phase \in Using /\ f.phase \in AtRest
  <2>1. a = <<Stop>>
    BY <1>5, FoldCases
  <2>2. e.phase \notin AtRest /\ e.phase \notin Racing /\ f.phase # "Connected"
    BY <1>5 DEF Using, AtRest, Racing
  <2> HIDE DEF a, items
  <2>3. LastOf(f, Stop) /\ Stop.kind \notin Bringing \cup {"StartRace", "Barrier"}
    BY ItemTypes DEF LastOf, Bringing
  <2>4. CASE behind = <<>>
    <3>1. Group(e, f, <<Stop>>)
      BY <2>2, <2>3, ItemTypes, GroupOne
    <3> QED BY <1>1, <1>3, <2>1, <2>2, <2>4, <3>1
  <2>5. CASE behind = <<Barrier>>
    <3>1. LastOf(f, Barrier) /\ Barrier.kind \notin Bringing
      BY <2>2, <2>5, ItemTypes DEF LastOf, Bringing
    <3>2. Group(e, f, <<Stop, Barrier>>)
      BY <2>2, <2>3, <3>1, ItemTypes, GroupTwo
    <3> QED BY <1>1, <1>3, <2>1, <2>2, <2>5, <3>2
  <2> QED BY <2>4, <2>5
<1>6. CASE w = <<CancelRace>> /\ e.phase \in Racing /\ f.phase \in AtRest
  <2>1. a = <<CancelRace>>
    BY <1>6, FoldCases
  <2>2. e.phase \notin AtRest /\ e.phase \notin Using /\ f.phase # "Connected"
    BY <1>6 DEF Using, AtRest, Racing
  <2> HIDE DEF a, items
  <2>3. /\ LastOf(f, CancelRace) /\ CancelRace.kind \notin Bringing \cup {"StartRace", "Barrier"}
        /\ CancelRace.kind \in Cancelling
    BY ItemTypes DEF LastOf, Bringing, Cancelling
  <2>4. CASE behind = <<>>
    <3>1. Group(e, f, <<CancelRace>>)
      BY <2>2, <2>3, ItemTypes, GroupOne
    <3> QED BY <1>1, <1>3, <2>1, <2>2, <2>4, <3>1
  <2>5. CASE behind = <<Barrier>>
    <3>1. LastOf(f, Barrier) /\ Barrier.kind \notin Bringing
      BY <2>2, <2>5, ItemTypes DEF LastOf, Bringing
    <3>2. Group(e, f, <<CancelRace, Barrier>>)
      BY <2>2, <2>3, <3>1, ItemTypes, GroupTwo
    <3> QED BY <1>1, <1>3, <2>1, <2>2, <2>5, <3>2
  <2> QED BY <2>4, <2>5
<1>7. ASSUME NEW ep \in Endpoints, f.phase \in Racing
      PROVE  /\ LastOf(f, Race(f.raced, ep)) /\ Race(f.raced, ep) \in WorkItems
             /\ Race(f.raced, ep).kind \notin Bringing /\ Race(f.raced, ep).kind \in Cancelling
             /\ f.phase \notin {"Connected", "Idle"} /\ f.phase \notin Using
  <2>1. /\ Race(f.raced, ep).kind = "StartRace" /\ Race(f.raced, ep).profiles = f.raced
        /\ Race(f.raced, ep) \in WorkItems
    BY <1>0, <1>7, ItemTypes
  <2> QED BY <1>7, <2>1 DEF LastOf, Bringing, Cancelling, Racing, Using
<1>8. CASE e.phase \in AtRest /\ f.phase \in Racing
           /\ \E ep \in Endpoints : w = <<Race(f.raced, ep)>>
  <2>1. PICK ep \in Endpoints : w = <<Race(f.raced, ep)>>
    BY <1>8
  <2> DEFINE v == Race(f.raced, ep)
  <2>2. a = <<v>>
    BY <1>0, <2>1, FoldCases
  <2>3. e.phase \notin Racing /\ e.phase \notin Using
    BY <1>8 DEF Using, AtRest, Racing
  <2>4. /\ LastOf(f, v) /\ v \in WorkItems /\ v.kind \notin Bringing
        /\ f.phase \notin {"Connected", "Idle"}
    BY <1>7, <1>8
  <2> HIDE DEF a, items, v
  <2>5. Group(e, f, <<v>>)
    BY <2>3, <2>4, GroupOne
  <2>6. Group(e, f, <<CheckReach, v>>)
    <3>1. CheckReach.kind \notin Bringing \cup {"StartRace", "Barrier"}
      BY ItemTypes DEF Bringing
    <3> QED BY <2>3, <2>4, <3>1, ItemTypes, GroupTwo
  <2> QED BY <1>1, <1>3, <2>2, <2>4, <2>5, <2>6
<1>9. CASE e.phase \in Racing /\ f.phase \in Racing
           /\ \E ep \in Endpoints : w = <<CancelRace, Race(f.raced, ep)>>
  <2>1. PICK ep \in Endpoints : w = <<CancelRace, Race(f.raced, ep)>>
    BY <1>9
  <2> DEFINE v == Race(f.raced, ep)
  <2>2. a = <<CancelRace, v>>
    BY <1>0, <2>1, FoldCases
  <2>3. e.phase \notin AtRest /\ e.phase \notin Using
    BY <1>9 DEF Using, AtRest, Racing
  <2>4. /\ LastOf(f, v) /\ v \in WorkItems /\ v.kind \notin Bringing
        /\ f.phase \notin {"Connected", "Idle"}
    BY <1>7, <1>9
  <2> HIDE DEF a, items, v
  <2>5. Group(e, f, <<CancelRace, v>>)
    <3>1. CancelRace.kind \notin Bringing \cup {"StartRace", "Barrier"} /\ CancelRace.kind \in Cancelling
      BY ItemTypes DEF Bringing, Cancelling
    <3> QED BY <2>3, <2>4, <3>1, ItemTypes, GroupTwo
  <2> QED BY <1>2, <1>4, <2>2, <2>3, <2>4, <2>5
<1>10. CASE e.phase \in Using /\ f.phase \in Racing
            /\ \E ep \in Endpoints : w = <<Stop, Race(f.raced, ep)>>
  <2>1. PICK ep \in Endpoints : w = <<Stop, Race(f.raced, ep)>>
    BY <1>10
  <2> DEFINE v == Race(f.raced, ep)
  <2>2. a = <<Stop, v>>
    BY <1>0, <2>1, FoldCases
  <2>3. e.phase \notin AtRest /\ e.phase \notin Racing
    BY <1>10 DEF Using, AtRest, Racing
  <2>4. /\ LastOf(f, v) /\ v \in WorkItems /\ v.kind \notin Bringing
        /\ f.phase \notin {"Connected", "Idle"}
    BY <1>7, <1>10
  <2> HIDE DEF a, items, v
  <2>5. Group(e, f, <<Stop, v>>)
    <3>1. Stop.kind \notin Bringing \cup {"StartRace", "Barrier"}
      BY ItemTypes DEF Bringing
    <3> QED BY <2>3, <2>4, <3>1, ItemTypes, GroupTwo
  <2> QED BY <1>2, <1>4, <2>2, <2>3, <2>4, <2>5
<1>11. f.phase = "Starting" =>
           /\ f.profile \in Profiles /\ f.active \in Endpoints
           /\ Carried(f) = Tunnel(f.profile, f.active) /\ f.phase \in Using
           /\ f.phase \notin {"Connected", "Idle"}
  BY DEF InUse, Using, Carried
<1>12. CASE e.phase \notin Using /\ f.phase = "Starting"
            /\ w = <<Start(f.profile, f.active)>>
  <2> DEFINE v == Start(f.profile, f.active)
  <2>1. a = <<v>>
    BY <1>11, <1>12, FoldCases
  <2>2. v \in WorkItems /\ v.kind = "StartTunnel" /\ Target(v) = Carried(f)
    BY <1>11, <1>12, ItemTypes
  <2> HIDE DEF a, items, v
  <2>3. LastOf(f, v) /\ v.kind \in Cancelling
    BY <1>11, <1>12, <2>2 DEF LastOf, Cancelling
  <2>4. Group(e, f, <<v>>)
    BY <1>11, <1>12, <2>2, <2>3, GroupOne
  <2>5. Group(e, f, <<CheckReach, v>>)
    <3>1. CheckReach.kind \notin Bringing \cup {"StartRace", "Barrier"}
      BY ItemTypes DEF Bringing
    <3> QED BY <1>11, <1>12, <2>2, <2>3, <3>1, ItemTypes, GroupTwo
  <2> QED BY <1>1, <1>3, <1>11, <1>12, <2>1, <2>4, <2>5
<1>13. CASE e.phase \in Using /\ f.phase = "Starting"
            /\ w = <<Stop, Start(f.profile, f.active)>>
  <2> DEFINE v == Move(f.profile, f.active)
  <2>1. a = <<v>>
    BY <1>11, <1>13, FoldCases
  <2>2. v \in WorkItems /\ v.kind = "MoveTunnel" /\ Target(v) = Carried(f)
    BY <1>11, <1>13, ItemTypes
  <2> HIDE DEF a, items, v
  <2>3. LastOf(f, v) /\ v.kind \in Cancelling
    BY <1>11, <1>13, <2>2 DEF LastOf, Cancelling
  <2>4. Group(e, f, <<v>>)
    BY <1>11, <1>13, <2>2, <2>3, GroupOne
  <2>5. e.phase \notin AtRest
    BY <1>13 DEF Using, AtRest
  <2> QED BY <1>1, <1>3, <1>11, <1>13, <2>1, <2>4, <2>5
<1> HIDE DEF a, items
<1> QED BY <1>5, <1>6, <1>8, <1>9, <1>10, <1>12, <1>13 DEF Asks

-----------------------------------------------------------------------------
(* The steps of the actor keep AInv.                                       *)

Queued == [attempt: Nat, do: WorkItems]

\* q2 is q with items behind it, under attempt n.
Behind(q, q2, n, items) ==
    /\ Len(q) \in Nat /\ Len(items) \in Nat /\ Len(q2) = Len(q) + Len(items)
    /\ \A i \in 1..Len(q) : i \in 1..Len(q2) /\ q2[i] = q[i]
    /\ \A k \in 1..Len(items) : /\ Len(q) + k \in 1..Len(q2)
                                /\ q2[Len(q) + k].attempt = n
                                /\ q2[Len(q) + k].do = items[k]
    /\ \A i \in 1..Len(q2) : i \in 1..Len(q)
          \/ \E k \in 1..Len(items) : i = Len(q) + k

\* What is queued comes behind what was queued before (Actor::step).
LEMMA WorkAppended ==
    ASSUME NEW q \in Seq(Queued), NEW n \in Nat, NEW items \in Seq(WorkItems),
           NEW q2, q2 = q \o Tagged(n, items)
    PROVE  Behind(q, q2, n, items)
<1> DEFINE t == Tagged(n, items)
<1>1. Len(q) \in Nat /\ Len(items) \in Nat
  OBVIOUS
<1>2. /\ t \in Seq(Queued) /\ Len(t) = Len(items)
      /\ \A k \in 1..Len(items) : t[k].attempt = n /\ t[k].do = items[k]
  <2>1. t \in Seq(Queued)
    BY TaggedType DEF Queued
  <2> QED BY <1>1, <2>1 DEF Tagged
<1>3. q2 = q \o t
  OBVIOUS
<1> HIDE DEF t
<1>4. Len(q2) = Len(q) + Len(items)
  <2>1. t \in Seq(Queued) /\ Len(t) = Len(items)
    BY <1>2
  <2>2. Len(q \o t) = Len(q) + Len(t)
    BY <2>1
  <2> QED BY <1>3, <2>1, <2>2
<1>5. \A i \in 1..Len(q) : i \in 1..Len(q2) /\ q2[i] = q[i]
  BY <1>1, <1>2, <1>3
<1>6. \A k \in 1..Len(items) : Len(q) + k \in 1..Len(q2) /\ q2[Len(q) + k] = t[k]
  BY <1>1, <1>2, <1>3
<1>7. ASSUME NEW i \in 1..Len(q2), i \notin 1..Len(q)
      PROVE  \E k \in 1..Len(items) : i = Len(q) + k
  <2>1. i - Len(q) \in 1..Len(items) /\ i = Len(q) + (i - Len(q))
    BY <1>1, <1>4, <1>7
  <2> QED BY <2>1
<1> QED BY <1>1, <1>2, <1>4, <1>5, <1>6, <1>7 DEF Behind

\* The attempt of a report is a number.
LEMMA ReportAttempt ==
    \A m \in Messages : m.kind = "Report" => m \in Reports /\ m.attempt \in Nat
<1> SUFFICES ASSUME NEW m \in Messages, m.kind = "Report" PROVE m \in Reports
  BY DEF Reports
<1> QED BY DEF Messages

\* What a message leaves alone.
Untouched == UNCHANGED <<exec, token, tunnel, stopping, races>>

\* A step that asks for work takes a new attempt number: nothing under way is
\* of that number, and a race that was is cancelled by what is asked.
LEMMA AskedAInv ==
    ASSUME TInv, AInv, actor = "recv", mailbox # <<>>, mailbox' = Tail(mailbox), Untouched,
           NEW e, e.phase = eng.phase,
           NEW items, Group(e, eng', items), Viable(eng'),
           attempt' = attempt + 1, work' = work \o Tagged(attempt + 1, items),
           monitors' \subseteq Watching(attempt + 1),
           eng'.phase = "Idle" /\ (\E k \in 1..Len(items) : items[k].kind = "Barrier")
              => actor' = "publishLast"
    PROVE  AInv'
<1> DEFINE n == attempt + 1
<1>1. /\ attempt \in Nat /\ n \in Nat /\ n > attempt /\ work \in Seq(Queued)
      /\ attempt' = n /\ work' = work \o Tagged(n, items)
  BY DEF TInv, TypeOK, Queued
<1>2. items \in Seq(WorkItems)
  BY DEF Group
<1> HIDE DEF n
<1>3. /\ Len(work) \in Nat /\ Len(items) \in Nat /\ Len(work') = Len(work) + Len(items)
      /\ \A i \in 1..Len(work) : i \in 1..Len(work') /\ work'[i] = work[i]
      /\ \A k \in 1..Len(items) : /\ Len(work) + k \in 1..Len(work')
                                  /\ work'[Len(work) + k].attempt = n
                                  /\ work'[Len(work) + k].do = items[k]
      /\ \A i \in 1..Len(work') : i \in 1..Len(work)
            \/ \E k \in 1..Len(items) : i = Len(work) + k
  <2>1. Behind(work, work', n, items)
    BY <1>1, <1>2, WorkAppended
  <2> QED BY <2>1 DEF Behind
<1>4. ~Ending /\ stopping # "done"
  BY DEF Ending, AInv, PhaseInv
<1>5. \A i \in 1..Len(work) : /\ work[i].attempt \in Nat /\ work[i].attempt =< attempt
                              /\ work[i].do.kind # "Barrier"
  <2>1. \A i \in 1..Len(work) : work[i] \in Queued
    BY <1>1
  <2> QED BY <1>4, <2>1 DEF AInv, WorkInv, Queued
<1>6. ASSUME eng.phase \in Racing
      PROVE  \E j \in 1..Len(work') : j > Len(work) /\ work'[j].do.kind \in Cancelling
  <2>1. PICK k \in 1..Len(items) : items[k].kind \in Cancelling
    BY <1>6 DEF Group
  <2>2. Len(work) + k \in 1..Len(work') /\ Len(work) + k > Len(work)
        /\ work'[Len(work) + k].do.kind \in Cancelling
    BY <1>3, <2>1
  <2> QED BY <2>2
<1>7. WorkInv'
  <2> SUFFICES ASSUME NEW i \in 1..Len(work')
               PROVE  LET w == work'[i].do
                          current == work'[i].attempt = n
                      IN  /\ work'[i].attempt =< n
                          /\ w.kind \in Bringing /\ current =>
                                i = Len(work') /\ eng'.phase \in Using
                                /\ Target(w) = Carried(eng')
                          /\ w.kind = "StartRace" /\ current =>
                                i = Len(work') /\ eng'.phase \in Racing
                                /\ w.profiles = eng'.raced
                          /\ w.kind = "StartRace" /\ ~current =>
                                \E j \in 1..Len(work') : j > i /\ work'[j].do.kind \in Cancelling
                          /\ w.kind = "Barrier" => i = Len(work') /\ Ending'
    BY <1>1 DEF WorkInv, Target, Carried, Tunnel, NoTunnel
  <2>1. CASE i \in 1..Len(work)
    <3>1. work'[i] = work[i] /\ work[i].attempt < n /\ work[i].do.kind # "Barrier"
      BY <1>1, <1>3, <1>5, <2>1
    <3>2. ASSUME work[i].do.kind = "StartRace"
          PROVE  \E j \in 1..Len(work') : j > i /\ work'[j].do.kind \in Cancelling
      <4>1. CASE work[i].attempt = attempt
        <5>1. eng.phase \in Racing
          BY <2>1, <3>2, <4>1 DEF AInv, WorkInv
        <5>2. PICK j \in 1..Len(work') : j > Len(work) /\ work'[j].do.kind \in Cancelling
          BY <1>6, <5>1
        <5> QED BY <1>3, <2>1, <5>2
      <4>2. CASE work[i].attempt # attempt
        <5>1. PICK j \in 1..Len(work) : j > i /\ work[j].do.kind \in Cancelling
          BY <2>1, <3>2, <4>2 DEF AInv, WorkInv
        <5> QED BY <1>3, <5>1
      <4> QED BY <4>1, <4>2
    <3>3. work[i].attempt \in Nat /\ work'[i].attempt # n /\ work'[i].attempt =< n
      BY <1>1, <1>5, <2>1, <3>1
    <3> QED BY <3>1, <3>2, <3>3
  <2>2. ASSUME NEW k \in 1..Len(items), i = Len(work) + k
        PROVE  LET w == work'[i].do
               IN  /\ work'[i].attempt = n
                   /\ w.kind \in Bringing => i = Len(work') /\ eng'.phase \in Using
                                             /\ Target(w) = Carried(eng')
                   /\ w.kind = "StartRace" => i = Len(work') /\ eng'.phase \in Racing
                                              /\ w.profiles = eng'.raced
                   /\ w.kind = "Barrier" => i = Len(work') /\ Ending'
    <3>1. work'[i].attempt = n /\ work'[i].do = items[k]
      BY <1>3, <2>2
    <3>2. items[k].kind \in Bringing \cup {"StartRace", "Barrier"} =>
             k = Len(items) /\ LastOf(eng', items[k])
      BY DEF Group
    <3>3. k = Len(items) => i = Len(work')
      BY <1>3, <2>2
    <3>4. items[k].kind = "Barrier" => Ending'
      BY <3>2 DEF LastOf, Ending
    <3> QED BY <3>1, <3>2, <3>3, <3>4 DEF LastOf
  <2>3. i \in 1..Len(work) \/ \E k \in 1..Len(items) : i = Len(work) + k
    BY <1>3
  <2> QED BY <1>1, <2>1, <2>2, <2>3
<1>8. ItemInv'
  <2>1. exec.for \in Nat /\ exec.for =< attempt
    BY DEF AInv, ItemInv, TInv, TypeOK
  <2>2. exec' = exec /\ exec.for < n
    BY <1>1, <2>1 DEF Untouched
  <2> QED BY <1>1, <2>1, <2>2 DEF ItemInv
<1>9. OutInv'
  <2>1. \A i \in 1..Len(exec.out) : exec.out[i].attempt \in Nat
    <3>1. exec.out \in Seq(Reports)
      BY DEF TInv, TypeOK
    <3>2. \A i \in 1..Len(exec.out) : exec.out[i] \in Reports
      BY <3>1
    <3> QED BY <3>2 DEF Reports
  <2>2. \A i \in 1..Len(exec.out) : exec.out[i].attempt < n /\ exec.out[i].input.kind # "RaceFinished"
    BY <1>1, <2>1 DEF AInv, OutInv
  <2> QED BY <1>1, <2>1, <2>2 DEF OutInv, Untouched
<1>10. MailInv'
  <2>1. mailbox \in Seq(Messages)
    BY DEF TInv, TypeOK
  <2>2. \A i \in 1..Len(mailbox) : mailbox[i].kind = "Report" =>
            mailbox[i].attempt \in Nat /\ mailbox[i].attempt < n
    <3>1. \A i \in 1..Len(mailbox) : mailbox[i].kind = "Report" => mailbox[i].attempt \in Nat
      BY <2>1, ReportAttempt
    <3> QED BY <1>1, <3>1 DEF AInv, MailInv
  <2>3. \A i \in 1..Len(mailbox') : mailbox'[i].kind = "Report" =>
            mailbox'[i].attempt \in Nat /\ mailbox'[i].attempt < n
    BY <2>1, <2>2
  <2> QED BY <1>1, <2>3 DEF MailInv
<1>11. RaceInv'
  <2>0. races' = races /\ token' = token
    BY DEF Untouched
  <2>1. ASSUME NEW r \in races
        PROVE  /\ r.attempt < n /\ r.attempt \in Nat
               /\ Running(r) => r.attempt = token
               /\ Running(r) => \E j \in 1..Len(work') : work'[j].do.kind \in Cancelling
               /\ ~Running(r) => /\ r.report.attempt = r.attempt
                                 /\ r.report.input \in Outcomes(r.profiles)
    <3>1. r.attempt \in Nat /\ r.attempt =< attempt
      BY DEF TInv, TypeOK, RaceTasks, AInv, RaceInv
    <3>2. ASSUME Running(r) PROVE \E j \in 1..Len(work') : work'[j].do.kind \in Cancelling
      <4>1. CASE r.attempt = attempt
        BY <1>6, <4>1 DEF AInv, RaceInv, RacingAndDone
      <4>2. CASE r.attempt # attempt
        <5>1. PICK j \in 1..Len(work) : work[j].do.kind \in Cancelling
          BY <3>2, <4>2 DEF AInv, RaceInv
        <5> QED BY <1>3, <5>1
      <4> QED BY <4>1, <4>2
    <3> QED BY <1>1, <3>1, <3>2 DEF AInv, RaceInv
  <2>2. \A r, s \in races : Running(r) /\ Running(s) => r = s
    BY DEF AInv, RaceInv
  <2>3. \A r \in races : r.attempt # n /\ r.attempt =< n
    BY <1>1, <2>1
  <2> QED BY <1>1, <2>0, <2>1, <2>2, <2>3 DEF RaceInv, Running
<1>12. MonitorInv'
  <2>1. monitors' \subseteq monitors
    BY DEF Watching
  <2>2. \A m \in monitors : m.attempt \in Nat
    BY DEF TInv, TypeOK, MonitorTasks
  <2> QED BY <1>1, <2>1, <2>2 DEF MonitorInv, AInv
<1>13. ASSUME eng'.phase \notin Using PROVE ComesDown'
  <2>0. \A k \in 1..Len(items) : items[k].kind \notin Bringing
    BY <1>13 DEF Group
  <2>1. CASE eng.phase \in Using
    <3>1. PICK k \in 1..Len(items) : items[k].kind = "StopTunnel"
      BY <1>13, <2>1 DEF Group
    <3> DEFINE i == Len(work) + k
    <3>2. i \in 1..Len(work') /\ work'[i].do.kind = "StopTunnel"
      BY <1>3, <3>1
    <3>3. ASSUME NEW j \in 1..Len(work'), j > i PROVE work'[j].do.kind \notin Bringing
      <4>1. j \notin 1..Len(work)
        BY <1>3, <3>3
      <4>2. PICK l \in 1..Len(items) : j = Len(work) + l
        BY <1>3, <4>1
      <4> QED BY <1>3, <2>0, <4>2
    <3> QED BY <3>2, <3>3 DEF ComesDown
  <2>2. CASE eng.phase \notin Using
    <3>0. ComesDown
      BY <2>2 DEF AInv, PhaseInv
    <3>1. ASSUME NEW i \in 1..Len(work), work[i].do.kind = "StopTunnel",
                 \A j \in 1..Len(work) : j > i => work[j].do.kind \notin Bringing
          PROVE  ComesDown'
      <4>1. i \in 1..Len(work') /\ work'[i].do.kind = "StopTunnel"
        BY <1>3, <3>1
      <4>2. ASSUME NEW j \in 1..Len(work'), j > i PROVE work'[j].do.kind \notin Bringing
        BY <1>3, <2>0, <3>1, <4>2
      <4> QED BY <4>1, <4>2 DEF ComesDown
    <3>2. ASSUME \A j \in 1..Len(work) : work[j].do.kind \notin Bringing,
                 \/ exec.item.kind = "StopTunnel"
                 \/ exec.item.kind \notin Bringing /\ tunnel = NoTunnel
          PROVE  ComesDown'
      <4>1. \A j \in 1..Len(work') : work'[j].do.kind \notin Bringing
        BY <1>3, <2>0, <3>2
      <4> QED BY <3>2, <4>1 DEF ComesDown, Untouched
    <3> QED BY <3>0, <3>1, <3>2 DEF ComesDown
  <2> QED BY <2>1, <2>2
<1>14. PhaseInv'
  <2>1. eng'.phase # "Connected" /\ stopping' # "done"
    BY <1>4 DEF Group, Untouched
  <2> QED BY <1>13, <2>1 DEF PhaseInv
<1>15. ViaInv'
  BY DEF Viable, ViaInv
<1> QED BY <1>7, <1>8, <1>9, <1>10, <1>11, <1>12, <1>14, <1>15 DEF AInv

\* The messages behind the first.
LEMMA Remaining ==
    ASSUME NEW q \in Seq(Messages), q # <<>>, NEW t, t = Tail(q)
    PROVE  /\ Len(q) \in Nat /\ 1 \in 1..Len(q) /\ q[1] = Head(q)
           /\ \A i \in 1..Len(t) : i + 1 \in 1..Len(q) /\ t[i] = q[i + 1] /\ i + 1 # 1
OBVIOUS

\* The report that brings the engine to Connected finds the tunnel up and
\* nothing left to do; the one that ends a race finds no other of that race
\* (Actor::step, the guard on the attempt).
LEMMA FreshReport ==
    ASSUME TInv, AInv, mailbox # <<>>, NEW m, m = Head(mailbox),
           m.kind = "Report", m.attempt = attempt
    PROVE  /\ m.input.kind = "TunnelUp" => UpAndDone
           /\ m.input.kind = "RaceFinished" =>
                 /\ RacingAndDone /\ m.input \in Outcomes(eng.raced)
                 /\ \A r \in races : r.attempt # attempt
                 /\ \A i \in 1..Len(Tail(mailbox)) :
                       ~ /\ Tail(mailbox)[i].kind = "Report"
                         /\ Tail(mailbox)[i].attempt = attempt
                         /\ Tail(mailbox)[i].input.kind = "RaceFinished"
<1>1. mailbox \in Seq(Messages)
  BY DEF TInv, TypeOK
<1>2. /\ Len(mailbox) \in Nat /\ 1 \in 1..Len(mailbox) /\ mailbox[1] = m
      /\ \A i \in 1..Len(Tail(mailbox)) :
            i + 1 \in 1..Len(mailbox) /\ Tail(mailbox)[i] = mailbox[i + 1] /\ i + 1 # 1
  BY <1>1, Remaining
<1>3. MailInv
  BY DEF AInv
<1>4. m.input.kind = "TunnelUp" => UpAndDone
  BY <1>2, <1>3 DEF MailInv
<1>5. ASSUME m.input.kind = "RaceFinished"
      PROVE  /\ RacingAndDone /\ m.input \in Outcomes(eng.raced)
             /\ \A r \in races : r.attempt # attempt
             /\ \A j \in 1..Len(mailbox) :
                   /\ mailbox[j].kind = "Report" /\ mailbox[j].attempt = attempt
                   /\ mailbox[j].input.kind = "RaceFinished"
                   => j = 1
  BY <1>2, <1>3, <1>5 DEF MailInv
<1> QED BY <1>2, <1>4, <1>5

\* A message that takes no new attempt number leaves the work as it is; the
\* phase may have come to Connected or to rest.
LEMMA QuietAInv ==
    ASSUME TInv, AInv, actor = "recv", mailbox # <<>>, mailbox' = Tail(mailbox), Untouched,
           NEW in, NEW m, m = Head(mailbox),
           in.kind \in {"TunnelUp", "RaceFinished"} =>
              m.kind = "Report" /\ m.attempt = attempt /\ m.input = in,
           Rests(eng, in, eng'), Viable(eng'), InUse(eng'),
           attempt' = attempt, work' = work,
           monitors' \subseteq monitors \cup {NewMonitor(attempt, eng')}
    PROVE  AInv'
<1>0. ~Ending /\ stopping # "done" /\ InUse(eng)
  BY DEF Ending, AInv, PhaseInv, TInv
<1>1. exec' = exec /\ token' = token /\ tunnel' = tunnel /\ stopping' = stopping /\ races' = races
  BY DEF Untouched
<1>2. mailbox \in Seq(Messages)
  BY DEF TInv, TypeOK
<1>3. /\ Len(mailbox) \in Nat
      /\ \A i \in 1..Len(mailbox') :
            i + 1 \in 1..Len(mailbox) /\ mailbox'[i] = mailbox[i + 1]
  BY <1>2, Remaining
<1>4. MonitorInv'
  <2>1. attempt \in Nat
    BY DEF TInv, TypeOK
  <2>2. /\ NewMonitor(attempt, eng').attempt =< attempt
        /\ \A i \in 1..Len(NewMonitor(attempt, eng').queue) : FALSE
    BY <2>1 DEF NewMonitor
  <2> QED BY <2>2 DEF MonitorInv, AInv
<1>5. ViaInv'
  BY DEF Viable, ViaInv
<1>6. UpAndDone' <=> eng'.phase \in Using /\ work = <<>> /\ exec.item = NoWork /\ tunnel = Carried(eng')
  BY <1>1 DEF UpAndDone, Carried, Using, Tunnel, NoTunnel
<1>7. RacingAndDone' <=> eng'.phase \in Racing /\ work = <<>> /\ exec.item = NoWork /\ tunnel = NoTunnel
  BY <1>1 DEF RacingAndDone, NoTunnel
<1>8. ComesDown' <=> ComesDown
  BY <1>1 DEF ComesDown
<1>9. \A r : Running(r)' <=> Running(r)
  BY DEF Running
\* What each case comes to.
<1> DEFINE Kept == /\ Carried(eng') = Carried(eng) /\ eng'.raced = eng.raced
                   /\ eng'.phase \in Using <=> eng.phase \in Using
                   /\ eng'.phase \in Racing <=> eng.phase \in Racing
                   /\ eng'.phase = "Connected" => UpAndDone
           Left == /\ eng'.phase \in AtRest /\ ComesDown
                   /\ \A i \in 1..Len(work) : work[i].attempt = attempt =>
                         work[i].do.kind \notin Bringing \cup {"StartRace"}
                   /\ ~(exec.item.kind \in Bringing /\ exec.for = attempt)
                   /\ ~UpAndDone /\ \A r \in races : r.attempt # attempt
                   /\ \A i \in 1..Len(mailbox') :
                         ~ /\ mailbox'[i].kind = "Report" /\ mailbox'[i].attempt = attempt
                           /\ mailbox'[i].input.kind = "RaceFinished"
<1>10. Kept \/ Left
  <2>1. CASE /\ eng'.phase = eng.phase /\ eng'.profile = eng.profile /\ eng'.active = eng.active
             /\ eng'.raced = eng.raced
    <3>1. Kept
      BY <2>1 DEF Carried, AInv, PhaseInv
    <3> QED BY <3>1
  <2>2. CASE /\ in.kind = "TunnelUp" /\ eng.phase = "Starting" /\ eng'.phase = "Connected"
             /\ eng'.profile = eng.profile /\ eng'.active = eng.active /\ eng'.raced = eng.raced
    <3>1. UpAndDone
      BY <2>2, FreshReport
    <3>2. Kept
      BY <2>2, <3>1 DEF Carried, Using, Racing
    <3> QED BY <3>2
  <2>3. CASE eng.phase \in AtRest /\ eng'.phase \in AtRest
    <3>1. eng.phase \notin Using /\ eng.phase \notin Racing
      BY <2>3 DEF AtRest, Using, Racing
    <3>2. ComesDown /\ ~UpAndDone /\ ~RacingAndDone
      BY <3>1 DEF AInv, PhaseInv, UpAndDone, RacingAndDone
    <3>3. \A i \in 1..Len(work) : work[i].attempt = attempt =>
                work[i].do.kind \notin Bringing \cup {"StartRace"}
      BY <3>1 DEF AInv, WorkInv
    <3>4. ~(exec.item.kind \in Bringing /\ exec.for = attempt)
      BY <3>1 DEF AInv, ItemInv
    <3>5. \A r \in races : r.attempt # attempt
      BY <3>2 DEF AInv, RaceInv
    <3>6. \A i \in 1..Len(mailbox') :
              ~ /\ mailbox'[i].kind = "Report" /\ mailbox'[i].attempt = attempt
                /\ mailbox'[i].input.kind = "RaceFinished"
      <4>1. MailInv
        BY DEF AInv
      <4> QED BY <1>3, <3>2, <4>1 DEF MailInv
    <3> QED BY <2>3, <3>2, <3>3, <3>4, <3>5, <3>6
  <2>4. CASE eng.phase \in Racing /\ in.kind = "RaceFinished" /\ eng'.phase \in AtRest
    <3>1. /\ RacingAndDone /\ \A r \in races : r.attempt # attempt
          /\ \A i \in 1..Len(mailbox') :
                ~ /\ mailbox'[i].kind = "Report" /\ mailbox'[i].attempt = attempt
                  /\ mailbox'[i].input.kind = "RaceFinished"
      BY <2>4, FreshReport
    <3>2. work = <<>> /\ exec.item = NoWork /\ tunnel = NoTunnel /\ Len(work) = 0
      BY <3>1 DEF RacingAndDone
    <3>3. NoWork.kind = "none" /\ NoWork.kind \notin Bringing
      BY DEF NoWork, Bringing
    <3>4. ComesDown
      BY <3>2, <3>3 DEF ComesDown
    <3>5. ~UpAndDone
      BY <2>4 DEF UpAndDone, Racing, Using
    <3> QED BY <2>4, <3>1, <3>2, <3>3, <3>4, <3>5
  <2> QED BY <2>1, <2>2, <2>3, <2>4 DEF Rests
<1>11. CASE Kept
  <2>1. UpAndDone' <=> UpAndDone
    BY <1>6, <1>11 DEF UpAndDone
  <2>2. RacingAndDone' <=> RacingAndDone
    BY <1>7, <1>11 DEF RacingAndDone
  <2> HIDE DEF Kept
  <2>3. /\ Carried(eng') = Carried(eng) /\ eng'.raced = eng.raced
        /\ eng'.phase \in Using <=> eng.phase \in Using
        /\ eng'.phase \in Racing <=> eng.phase \in Racing
        /\ eng'.phase = "Connected" => UpAndDone
    BY <1>11 DEF Kept
  <2>4. Carried(eng)' = Carried(eng)
    BY <2>3 DEF Carried, Tunnel, NoTunnel
  <2>5. WorkInv'
    BY <1>0, <2>3, <2>4 DEF AInv, WorkInv, Target, Tunnel
  <2>6. ItemInv'
    BY <1>1, <2>3, <2>4 DEF AInv, ItemInv, Target, Tunnel
  <2>7. OutInv'
    BY <1>1, <2>1 DEF AInv, OutInv
  <2>8. MailInv'
    <3> SUFFICES ASSUME NEW i \in 1..Len(mailbox'), mailbox'[i].kind = "Report"
        PROVE  /\ mailbox'[i].attempt =< attempt
               /\ mailbox'[i].input.kind = "TunnelUp" /\ mailbox'[i].attempt = attempt => UpAndDone
               /\ mailbox'[i].input.kind = "RaceFinished" /\ mailbox'[i].attempt = attempt =>
                    /\ RacingAndDone /\ mailbox'[i].input \in Outcomes(eng.raced)
                    /\ \A r \in races : r.attempt # attempt
                    /\ \A j \in 1..Len(mailbox') :
                         /\ mailbox'[j].kind = "Report" /\ mailbox'[j].attempt = attempt
                         /\ mailbox'[j].input.kind = "RaceFinished"
                         => j = i
      BY <1>1, <2>1, <2>2, <2>3 DEF MailInv
    <3>1. MailInv
      BY DEF AInv
    <3>2. /\ i + 1 \in 1..Len(mailbox) /\ mailbox'[i] = mailbox[i + 1]
          /\ \A j \in 1..Len(mailbox') : j + 1 = i + 1 => j = i
      BY <1>3
    <3> QED BY <1>3, <3>1, <3>2 DEF MailInv
  <2>9. RaceInv'
    BY <1>1, <1>9, <2>2, <2>3 DEF AInv, RaceInv
  <2>10. PhaseInv'
    BY <1>0, <1>1, <1>8, <2>1, <2>3 DEF AInv, PhaseInv
  <2> QED BY <1>4, <1>5, <2>5, <2>6, <2>7, <2>8, <2>9, <2>10 DEF AInv
<1>12. CASE Left
  <2>1. eng'.phase \notin Using /\ eng'.phase \notin Racing
    BY <1>12 DEF AtRest, Using, Racing
  <2>2. ~UpAndDone /\ ComesDown
    BY <1>12
  <2>3. WorkInv'
    <3>1. \A i \in 1..Len(work) : work[i].attempt = attempt =>
              work[i].do.kind \notin Bringing \cup {"StartRace"}
      BY <1>12
    <3> QED BY <1>0, <3>1 DEF AInv, WorkInv
  <2>4. ItemInv'
    BY <1>1, <1>12 DEF AInv, ItemInv
  <2>5. OutInv'
    BY <1>1, <2>2 DEF AInv, OutInv
  <2>6. MailInv'
    <3>1. MailInv
      BY DEF AInv
    <3>2. \A i \in 1..Len(mailbox') : mailbox'[i].kind = "Report" =>
            /\ mailbox'[i].attempt =< attempt
            /\ ~(mailbox'[i].input.kind = "TunnelUp" /\ mailbox'[i].attempt = attempt)
      BY <1>3, <2>2, <3>1 DEF MailInv
    <3>3. \A i \in 1..Len(mailbox') :
                ~ /\ mailbox'[i].kind = "Report" /\ mailbox'[i].attempt = attempt
                  /\ mailbox'[i].input.kind = "RaceFinished"
      BY <1>12
    <3> QED BY <3>2, <3>3 DEF MailInv
  <2>7. RaceInv'
    <3>1. \A r \in races : r.attempt # attempt
      BY <1>12
    <3> QED BY <1>1, <1>9, <3>1 DEF AInv, RaceInv
  <2>8. PhaseInv'
    <3>1. eng'.phase # "Connected"
      BY <2>1 DEF Using
    <3> QED BY <1>0, <1>1, <1>8, <2>2, <3>1 DEF PhaseInv
  <2> QED BY <1>4, <1>5, <2>3, <2>4, <2>5, <2>6, <2>7, <2>8 DEF AInv
<1> QED BY <1>10, <1>11, <1>12

\* The engine asks for no barrier.
LEMMA FoldMovesNoBarrier ==
    ASSUME NEW w, ShortWork(w)
    PROVE  FoldMoves(w) \in Seq({x \in WorkItems : x.kind # "Barrier"})
<1> DEFINE S == {x \in WorkItems : x.kind # "Barrier"}
<1>1. WorkAsked \subseteq S
  BY DEF WorkAsked, WorkItems
<1>2. w \in Seq(WorkAsked)
  BY DEF ShortWork
<1>3. CASE Len(w) = 2 /\ w[1].kind = "StopTunnel" /\ w[2].kind = "StartTunnel"
  <2>1. w[2] \in WorkAsked
    BY <1>2, <1>3
  <2>2. w[2].profile \in Profiles /\ w[2].endpoint \in Endpoints
    BY <1>3, <2>1 DEF WorkAsked
  <2>3. Move(w[2].profile, w[2].endpoint) \in S
    BY <2>2, ItemTypes
  <2> HIDE DEF S
  <2>4. FoldMoves(w) \in Seq(S)
    BY <1>3, <2>3 DEF FoldMoves
  <2> QED BY <2>4 DEF S
<1>4. CASE ~(Len(w) = 2 /\ w[1].kind = "StopTunnel" /\ w[2].kind = "StartTunnel")
  <2>1. FoldMoves(w) = w
    BY <1>4 DEF FoldMoves
  <2> HIDE DEF S
  <2>2. FoldMoves(w) \in Seq(S)
    BY <1>1, <1>2, <2>1
  <2> QED BY <2>2 DEF S
<1> QED BY <1>3, <1>4

\* A shutdown of an engine at rest queues the barrier and nothing else.
LEMMA BarrierAInv ==
    ASSUME TInv, AInv, actor = "recv", mailbox # <<>>, mailbox' = Tail(mailbox), Untouched,
           eng.phase \in AtRest, eng'.phase = "Idle", Viable(eng'), attempt' = attempt,
           work' = work \o Tagged(attempt, <<Barrier>>), actor' = "publishLast",
           monitors' \subseteq monitors
    PROVE  AInv'
<1> DEFINE items == <<Barrier>>
<1>0. ~Ending /\ stopping # "done"
  BY DEF Ending, AInv, PhaseInv
<1>1. exec' = exec /\ token' = token /\ tunnel' = tunnel /\ stopping' = stopping /\ races' = races
  BY DEF Untouched
<1>2. items \in Seq(WorkItems) /\ Len(items) = 1 /\ items[1] = Barrier
  BY ItemTypes
<1>3. attempt \in Nat /\ work \in Seq(Queued) /\ work' = work \o Tagged(attempt, items)
  BY DEF TInv, TypeOK, Queued
<1> HIDE DEF items
<1>4. Behind(work, work', attempt, items)
  BY <1>2, <1>3, WorkAppended
<1>5. /\ Len(work) \in Nat /\ Len(work') = Len(work) + 1 /\ Len(work') \in 1..Len(work')
      /\ \A i \in 1..Len(work) : i \in 1..Len(work') /\ work'[i] = work[i]
      /\ work'[Len(work')].attempt = attempt /\ work'[Len(work')].do = Barrier
      /\ \A i \in 1..Len(work') : i \in 1..Len(work) \/ i = Len(work')
  BY <1>2, <1>4 DEF Behind
<1>6. eng.phase \notin Using /\ eng.phase \notin Racing /\ eng'.phase \notin Using
      /\ eng'.phase \notin Racing /\ Ending'
  BY DEF AtRest, Using, Racing, Ending
<1>7. Barrier.kind = "Barrier" /\ Barrier.kind \notin Bringing \cup Cancelling
  BY ItemTypes DEF Bringing, Cancelling
<1>8. ~UpAndDone /\ ~RacingAndDone
  BY <1>6 DEF UpAndDone, RacingAndDone
<1>9. WorkInv'
  <2>1. \A i \in 1..Len(work) :
            /\ work[i].attempt =< attempt /\ work[i].do.kind # "Barrier"
            /\ work[i].attempt = attempt => work[i].do.kind \notin Bringing \cup {"StartRace"}
            /\ work[i].do.kind = "StartRace" =>
                  \E j \in 1..Len(work) : j > i /\ work[j].do.kind \in Cancelling
    BY <1>0, <1>6 DEF AInv, WorkInv
  <2> QED BY <1>3, <1>5, <1>6, <1>7, <2>1 DEF WorkInv
<1>10. ItemInv'
  <2>1. exec.for =< attempt /\ ~(exec.item.kind \in Bringing /\ exec.for = attempt)
    BY <1>6 DEF AInv, ItemInv
  <2> QED BY <1>1, <2>1 DEF ItemInv
<1>11. OutInv'
  BY <1>1, <1>8 DEF AInv, OutInv
<1>12. MailInv'
  <2>1. MailInv /\ mailbox \in Seq(Messages)
    BY DEF AInv, TInv, TypeOK
  <2>2. \A i \in 1..Len(mailbox') :
            i + 1 \in 1..Len(mailbox) /\ mailbox'[i] = mailbox[i + 1]
    BY <2>1, Remaining
  <2>3. \A i \in 1..Len(mailbox') : mailbox'[i].kind = "Report" =>
          /\ mailbox'[i].attempt =< attempt
          /\ ~(mailbox'[i].input.kind \in {"TunnelUp", "RaceFinished"}
               /\ mailbox'[i].attempt = attempt)
    BY <1>8, <2>1, <2>2 DEF MailInv
  <2> QED BY <2>3 DEF MailInv
<1>13. RaceInv'
  <2>1. ASSUME NEW r \in races
        PROVE  /\ r.attempt =< attempt /\ r.attempt # attempt
               /\ Running(r) => r.attempt = token
               /\ Running(r) => \E j \in 1..Len(work') : work'[j].do.kind \in Cancelling
               /\ ~Running(r) => /\ r.report.attempt = r.attempt
                                 /\ r.report.input \in Outcomes(r.profiles)
    <3>1. r.attempt =< attempt /\ r.attempt # attempt /\ (Running(r) => r.attempt = token)
          /\ (~Running(r) => /\ r.report.attempt = r.attempt
                             /\ r.report.input \in Outcomes(r.profiles))
          /\ (Running(r) => \E j \in 1..Len(work) : work[j].do.kind \in Cancelling)
      BY <1>8 DEF AInv, RaceInv
    <3> QED BY <1>5, <3>1
  <2>2. \A r, s \in races : Running(r) /\ Running(s) => r = s
    BY DEF AInv, RaceInv
  <2> QED BY <1>1, <2>1, <2>2 DEF RaceInv, Running
<1>14. MonitorInv'
  BY DEF MonitorInv, AInv
<1>15. ComesDown'
  <2>0. ComesDown
    BY <1>6 DEF AInv, PhaseInv
  <2>1. ASSUME NEW i \in 1..Len(work), work[i].do.kind = "StopTunnel",
               \A j \in 1..Len(work) : j > i => work[j].do.kind \notin Bringing
        PROVE  ComesDown'
    <3>1. i \in 1..Len(work') /\ work'[i].do.kind = "StopTunnel"
      BY <1>5, <2>1
    <3>2. ASSUME NEW j \in 1..Len(work'), j > i PROVE work'[j].do.kind \notin Bringing
      BY <1>5, <1>7, <2>1, <3>2
    <3> QED BY <3>1, <3>2 DEF ComesDown
  <2>2. ASSUME \A j \in 1..Len(work) : work[j].do.kind \notin Bringing,
               \/ exec.item.kind = "StopTunnel"
               \/ exec.item.kind \notin Bringing /\ tunnel = NoTunnel
        PROVE  ComesDown'
    <3>1. \A j \in 1..Len(work') : work'[j].do.kind \notin Bringing
      BY <1>5, <1>7, <2>2
    <3> QED BY <1>1, <2>2, <3>1 DEF ComesDown
  <2> QED BY <2>0, <2>1, <2>2 DEF ComesDown
<1>16. PhaseInv'
  BY <1>0, <1>1, <1>15 DEF PhaseInv
<1>17. ViaInv'
  BY DEF Viable, ViaInv
<1> QED BY <1>9, <1>10, <1>11, <1>12, <1>13, <1>14, <1>16, <1>17 DEF AInv

\* Feeding the engine one input: the invariant is kept, and nothing blocked
\* is revived but by a connect (Actor::step).
LEMMA ActorStepAInv ==
    ASSUME TInv, AInv, actor = "recv", mailbox # <<>>, mailbox' = Tail(mailbox), Untouched,
           NEW e \in Engines, InUse(e), Viable(e),
           e.phase = eng.phase, e.profile = eng.profile, e.active = eng.active,
           e.raced = eng.raced, e.via = eng.via,
           NEW in \in Inputs, NEW m, m = Head(mailbox),
           in.kind \in {"TunnelUp", "RaceFinished"} =>
              m.kind = "Report" /\ m.attempt = attempt /\ m.input = in,
           NEW ahead, NEW behind, ActorStep(e, in, ahead, behind),
           \/ ahead = <<>> /\ behind = <<>>
           \/ ahead = <<CheckReach>> /\ behind = <<>> /\ in.kind = "Connect"
           \/ /\ ahead = <<>> /\ behind = <<Barrier>> /\ in.kind = "Disconnect"
              /\ actor' = "publishLast"
    PROVE  AInv' /\ (in.kind # "Connect" => StillBlocked(eng, eng'))
<1> DEFINE next(r) == IF FoldMoves(r.work) = <<>> THEN attempt ELSE attempt + 1
           items(r) == IF FoldMoves(r.work) = <<>> THEN behind
                       ELSE ahead \o FoldMoves(r.work) \o behind
<1>1. PICK r \in Step(e, in) :
          /\ eng' = r.eng
          /\ attempt' = next(r)
          /\ work' = work \o Tagged(next(r), items(r))
          /\ monitors' = IF e.phase # "Connected" /\ r.eng.phase = "Connected"
                         THEN Watching(next(r)) \cup {NewMonitor(next(r), r.eng)}
                         ELSE Watching(next(r))
  BY DEF ActorStep
<1>2. eng' \in Engines /\ InUse(eng')
  <2>1. Leads(Carried(e), r)
    BY StepLeads
  <2> QED BY <1>1, <2>1 DEF Leads
<1>3. Shape(e, in, r)
  BY StepShape
<1>4. Viable(eng') /\ (in.kind # "Connect" => StillBlocked(e, eng'))
  <2>1. in.kind = "RaceFinished" => in \in Outcomes(e.raced)
    BY FreshReport
  <2> QED BY <1>1, <2>1, StepVia
<1>5. in.kind # "Connect" => StillBlocked(eng, eng')
  BY <1>4 DEF StillBlocked
<1>6. in.kind = "Disconnect" => eng'.phase = "Idle" /\ (e.phase \in Racing \cup Using => r.work # <<>>)
  <2> SUFFICES ASSUME in.kind = "Disconnect"
               PROVE  eng'.phase = "Idle" /\ (e.phase \in Racing \cup Using => r.work # <<>>)
    OBVIOUS
  <2>1. r = Disconnect(e)
    BY DEF Step
  <2>2. eng'.phase = "Idle"
    BY <1>1, <2>1, DisconnectShape
  <2>3. ASSUME e.phase \in Racing \cup Using, r.work = <<>> PROVE FALSE
    BY <2>1, <2>3 DEF Disconnect, Asked, Racing, Using
  <2> QED BY <2>2, <2>3
<1>7. CASE Asks(e, eng', r.work)
  <2>1. e.phase \in AtRest \/ in.kind # "Connect"
    <3>1. ASSUME in.kind = "Connect", e.phase \notin AtRest PROVE FALSE
      <4>1. r.work = <<>>
        BY <3>1 DEF Step, Connect, Ignored, Asked
      <4> QED BY <1>7, <4>1 DEF Asks
    <3> QED BY <3>1
  <2>2. FoldMoves(r.work) # <<>> /\ Group(e, eng', ahead \o FoldMoves(r.work) \o behind)
    BY <1>2, <1>6, <1>7, <2>1, AsksGroup
  <2>3. /\ attempt' = attempt + 1 /\ work' = work \o Tagged(attempt + 1, items(r))
        /\ items(r) = ahead \o FoldMoves(r.work) \o behind
    BY <1>1, <2>2
  <2>4. monitors' \subseteq Watching(attempt + 1)
    <3>1. eng'.phase # "Connected"
      BY <2>2 DEF Group
    <3> QED BY <1>1, <2>2, <3>1
  <2>5. ASSUME NEW k \in 1..Len(items(r)), items(r)[k].kind = "Barrier"
        PROVE  actor' = "publishLast"
    <3>1. CASE behind = <<Barrier>>
      BY <3>1
    <3>2. CASE behind = <<>>
      <4> DEFINE S == {w \in WorkItems : w.kind # "Barrier"}
      <4>1. FoldMoves(r.work) \in Seq(S)
        <5>1. Leads(Carried(e), r)
          BY StepLeads
        <5> QED BY <5>1, FoldMovesNoBarrier DEF Leads
      <4>5. CheckReach \in S
        BY ItemTypes
      <4> HIDE DEF S
      <4>2. ahead \in Seq(S) /\ behind \in Seq(S)
        <5>1. ahead = <<>> \/ ahead = <<CheckReach>>
          OBVIOUS
        <5>2. <<>> \in Seq(S) /\ <<CheckReach>> \in Seq(S)
          BY <4>5
        <5> QED BY <3>2, <5>1, <5>2
      <4>3. items(r) \in Seq(S)
        BY <2>3, <4>1, <4>2
      <4>4. items(r)[k] \in S
        BY <4>3
      <4> QED BY <2>5, <4>4 DEF S
    <3> QED BY <3>1, <3>2
  <2> HIDE DEF items, next
  <2>6. Group(e, eng', items(r))
    BY <2>2, <2>3
  <2>7. AInv'
    BY <1>4, <2>3, <2>4, <2>5, <2>6, AskedAInv
  <2> QED BY <1>5, <2>7
<1>8. CASE r.work = <<>> /\ Rests(e, in, eng')
  <2>1. FoldMoves(r.work) = <<>>
    BY <1>8, FoldCases
  <2>2. attempt' = attempt /\ work' = work \o Tagged(attempt, behind)
    BY <1>1, <2>1
  <2>3. monitors' \subseteq monitors \cup {NewMonitor(attempt, eng')}
    BY <1>1, <2>1 DEF Watching
  <2>4. Rests(eng, in, eng')
    BY <1>8 DEF Rests
  <2>5. CASE behind = <<>>
    <3>1. work' = work
      <4>1. Tagged(attempt, <<>>) = <<>>
        BY DEF Tagged
      <4>2. work \in Seq(Queued)
        BY DEF TInv, TypeOK, Queued
      <4> QED BY <2>2, <2>5, <4>1, <4>2
    <3>2. AInv'
      BY <1>2, <1>4, <2>2, <2>3, <2>4, <3>1, QuietAInv
    <3> QED BY <1>5, <3>2
  <2>6. CASE behind = <<Barrier>>
    <3>1. in.kind = "Disconnect" /\ actor' = "publishLast"
      BY <2>6
    <3>2. eng'.phase = "Idle" /\ eng.phase \in AtRest
      <4>1. eng.phase \in Phases
        BY DEF TInv, TypeOK, Engines
      <4> QED BY <1>6, <1>8, <3>1, <4>1 DEF Phases, AtRest, Racing, Using
    <3>3. monitors' \subseteq monitors
      BY <1>1, <2>1, <3>2 DEF Watching
    <3>4. AInv'
      BY <1>4, <2>2, <2>6, <3>1, <3>2, <3>3, BarrierAInv
    <3> QED BY <1>5, <3>4
  <2> QED BY <2>5, <2>6
<1> QED BY <1>1, <1>3, <1>7, <1>8 DEF Shape

\* The message at the head of the mailbox, whichever it is: the invariant is
\* kept, and only a connect revives a profile (Actor::run).
LEMMA TakeMessageAInv ==
    ASSUME TInv, AInv, TakeMessage
    PROVE  AInv' /\ (Head(mailbox).kind # "Connect" => StillBlocked(eng, eng'))
<1> DEFINE m == Head(mailbox)
<1>1. /\ mailbox \in Seq(Messages) /\ mailbox # <<>> /\ mailbox' = Tail(mailbox)
      /\ actor = "recv"
  BY DEF TInv, TypeOK, TakeMessage
<1>2. m \in Messages
  BY <1>1
<1>3. eng \in Engines /\ InUse(eng) /\ Viable(eng)
  BY DEF TInv, TypeOK, AInv, ViaInv, Viable
<1>4. Untouched
  BY DEF TakeMessage, Untouched
<1> HIDE DEF m
<1>5. m = Head(mailbox)
  BY DEF m
<1> SUFFICES AInv' /\ (m.kind # "Connect" => StillBlocked(eng, eng'))
  BY DEF m
<1>6. ASSUME TakeConnect(m) PROVE AInv' /\ m.kind = "Connect"
  <2>1. PICK env \in Environments :
            ActorStep([eng EXCEPT !.env = env], m, <<CheckReach>>, <<>>)
    BY <1>6 DEF TakeConnect
  <2> DEFINE e == [eng EXCEPT !.env = env]
  <2>2. /\ e \in Engines /\ e.phase = eng.phase /\ e.profile = eng.profile
        /\ e.active = eng.active /\ e.raced = eng.raced /\ e.via = eng.via
    BY <1>3, ReadingsAssumption DEF Engines
  <2>3. InUse(e)
    BY <1>3 DEF InUse, Engines
  <2>4. m \in Inputs /\ m.kind = "Connect"
    BY <1>2, <1>6 DEF TakeConnect, Messages, Inputs, Reports
  <2>5. ActorStep(e, m, <<CheckReach>>, <<>>)
    BY <2>1
  <2> HIDE DEF e
  <2>6. Viable(e)
    BY <1>3, <2>2 DEF Viable
  <2> QED BY <1>1, <1>4, <1>5, <2>2, <2>3, <2>4, <2>5, <2>6, ActorStepAInv
<1>7. DisconnectMsg \in Inputs /\ DisconnectMsg.kind = "Disconnect"
  BY DEF DisconnectMsg, Inputs
<1>8. ASSUME TakeDisconnect(m) PROVE AInv' /\ StillBlocked(eng, eng')
  <2>1. m \in Inputs /\ m.kind = "Disconnect" /\ ActorStep(eng, m, <<>>, <<>>)
    BY <1>2, <1>8 DEF TakeDisconnect, Messages, Inputs, Reports
  <2> QED BY <1>1, <1>3, <1>4, <1>5, <2>1, ActorStepAInv
<1>9. ASSUME TakeShutdown(m) PROVE AInv' /\ StillBlocked(eng, eng')
  <2>1. ActorStep(eng, DisconnectMsg, <<>>, <<Barrier>>) /\ actor' = "publishLast"
    BY <1>9 DEF TakeShutdown
  <2> QED BY <1>1, <1>3, <1>4, <1>5, <1>7, <2>1, ActorStepAInv
<1>10. ASSUME TakeReport(m) PROVE AInv' /\ StillBlocked(eng, eng')
  <2>1. m.input \in Inputs /\ m.kind = "Report" /\ m.input.kind # "Connect"
    BY <1>2, <1>10 DEF TakeReport, Messages, Reports, News
  <2>2. ASSUME Fresh(m) PROVE AInv' /\ StillBlocked(eng, eng')
    <3>1. ActorStep(eng, m.input, <<>>, <<>>) /\ m.attempt = attempt
      BY <1>10, <2>2 DEF TakeReport, Fresh
    <3> QED BY <1>1, <1>3, <1>4, <1>5, <2>1, <3>1, ActorStepAInv
  <2>3. ASSUME ~Fresh(m) PROVE AInv' /\ StillBlocked(eng, eng')
    <3>1. eng' = eng /\ attempt' = attempt /\ work' = work /\ monitors' = monitors
      BY <1>10, <2>3 DEF TakeReport
    <3>2. Rests(eng, m, eng')
      BY <3>1 DEF Rests
    <3>3. AInv'
      BY <1>1, <1>3, <1>4, <1>5, <2>1, <3>1, <3>2, QuietAInv
    <3> QED BY <3>1, <3>3 DEF StillBlocked
  <2> QED BY <2>2, <2>3
<1>11. TakeConnect(m) \/ TakeDisconnect(m) \/ TakeShutdown(m) \/ TakeReport(m)
  BY DEF TakeMessage, m
<1> QED BY <1>6, <1>8, <1>9, <1>10, <1>11

-----------------------------------------------------------------------------
(* The other tasks keep AInv.                                              *)

\* The other variables AInv is about.
Machine == UNCHANGED <<eng, attempt, work, exec, token, tunnel, races>>

\* Nothing but the mailbox and the monitors, and who is where in its loop.
LEMMA MailboxAInv ==
    ASSUME TInv, AInv, Machine,
           Ending => Ending', stopping' = "done" => stopping = "done",
           monitors' = monitors \/ MonitorInv',
           \/ mailbox' = mailbox \/ mailbox' = <<>>
           \/ \E m : /\ mailbox' = Append(mailbox, m)
                     /\ m.kind = "Report" =>
                           /\ m.attempt =< attempt
                           /\ m.input.kind # "RaceFinished"
                           /\ m.input.kind = "TunnelUp" /\ m.attempt = attempt => UpAndDone
    PROVE  AInv'
<1>1. /\ eng' = eng /\ attempt' = attempt /\ work' = work /\ exec' = exec /\ token' = token
      /\ tunnel' = tunnel /\ races' = races
  BY DEF Machine
<1>2. (UpAndDone' <=> UpAndDone) /\ (RacingAndDone' <=> RacingAndDone) /\ (ComesDown' <=> ComesDown)
  BY <1>1 DEF UpAndDone, RacingAndDone, ComesDown, Carried, Tunnel, NoTunnel
<1>3. Carried(eng)' = Carried(eng)
  BY <1>1 DEF Carried, Tunnel, NoTunnel
<1>4. WorkInv'
  BY <1>1, <1>3 DEF AInv, WorkInv, Target, Tunnel
<1>5. ItemInv' /\ OutInv'
  BY <1>1, <1>2, <1>3 DEF AInv, ItemInv, OutInv, Target, Tunnel
<1>6. MonitorInv'
  BY <1>1 DEF AInv, MonitorInv
<1>7. RaceInv'
  BY <1>1, <1>2 DEF AInv, RaceInv, Running
<1>8. PhaseInv' /\ ViaInv'
  BY <1>1, <1>2 DEF AInv, PhaseInv, ViaInv, Idle
<1>9. MailInv'
  <2>0. MailInv /\ mailbox \in Seq(Messages)
    BY DEF AInv, TInv, TypeOK
  <2>1. CASE mailbox' = mailbox
    BY <1>1, <1>2, <2>0, <2>1 DEF MailInv
  <2>2. CASE mailbox' = <<>>
    BY <2>2 DEF MailInv
  <2>3. ASSUME NEW m, mailbox' = Append(mailbox, m),
               m.kind = "Report" =>
                  /\ m.attempt =< attempt
                  /\ m.input.kind # "RaceFinished"
                  /\ m.input.kind = "TunnelUp" /\ m.attempt = attempt => UpAndDone
        PROVE  MailInv'
    <3>1. /\ Len(mailbox') = Len(mailbox) + 1 /\ Len(mailbox) \in Nat
          /\ \A i \in 1..Len(mailbox) : mailbox'[i] = mailbox[i]
          /\ mailbox'[Len(mailbox) + 1] = m
      BY <2>0, <2>3
    <3>2. \A i \in 1..Len(mailbox') : i \in 1..Len(mailbox) \/ i = Len(mailbox) + 1
      BY <3>1
    <3>3. ASSUME NEW i \in 1..Len(mailbox'), mailbox'[i].kind = "Report",
                 mailbox'[i].input.kind = "RaceFinished"
          PROVE  i \in 1..Len(mailbox)
      BY <2>3, <3>1, <3>2, <3>3
    <3> QED BY <1>1, <1>2, <2>0, <2>3, <3>1, <3>2, <3>3 DEF MailInv
  <2> QED BY <2>1, <2>2, <2>3
<1> QED BY <1>4, <1>5, <1>6, <1>7, <1>8, <1>9 DEF AInv

\* The handle, and the actor between two messages.
LEMMA HandleAInv ==
    ASSUME TInv, AInv, Request \/ Serve \/ Publish \/ ClearConnecting
    PROVE  AInv' /\ eng' = eng
<1> USE DEF handleVars, actorVars, execVars
<1>1. ASSUME NEW p \in Names \cup {NoProfile}, AskConnect(p) PROVE AInv' /\ eng' = eng
  <2>1. /\ Machine /\ mailbox' = mailbox /\ monitors' = monitors /\ stopping' = stopping
        /\ actor' = actor /\ eng' = eng
    BY <1>1 DEF AskConnect, Machine
  <2> QED BY <2>1, MailboxAInv DEF Ending
<1>2. CASE AskDisconnect \/ JudgeConnect
  <2>1. /\ Machine /\ mailbox' = mailbox /\ monitors' = monitors /\ stopping' = stopping
        /\ actor' = actor /\ eng' = eng
    BY <1>2 DEF AskDisconnect, JudgeConnect, Machine
  <2> QED BY <2>1, MailboxAInv DEF Ending
<1>3. CASE AskShutdown
  <2>1. /\ Machine /\ mailbox' = Append(mailbox, ShutdownMsg) /\ monitors' = monitors
        /\ stopping' # "done" /\ actor' = actor /\ eng' = eng
    BY <1>3 DEF AskShutdown, Machine
  <2>2. ShutdownMsg.kind # "Report"
    BY DEF ShutdownMsg
  <2> QED BY <2>1, <2>2, MailboxAInv DEF Ending
<1>4. CASE SendConnect
  <2>1. /\ Machine /\ monitors' = monitors /\ stopping' = stopping
        /\ actor' = actor /\ eng' = eng
        /\ mailbox' = mailbox \/ mailbox' = Append(mailbox, ConnectMsg(client.profile))
    BY <1>4 DEF SendConnect, Machine
  <2>2. ConnectMsg(client.profile).kind # "Report"
    BY DEF ConnectMsg
  <2> QED BY <2>1, <2>2, MailboxAInv DEF Ending
<1>5. CASE AnswerDisconnect
  <2>1. /\ Machine /\ monitors' = monitors /\ stopping' = stopping
        /\ actor' = actor /\ eng' = eng
        /\ mailbox' = mailbox \/ mailbox' = Append(mailbox, DisconnectMsg)
    BY <1>5 DEF AnswerDisconnect, Machine
  <2>2. DisconnectMsg.kind # "Report"
    BY DEF DisconnectMsg
  <2> QED BY <2>1, <2>2, MailboxAInv DEF Ending
<1>6. CASE Publish
  <2>1. /\ Machine /\ monitors' = monitors /\ stopping' = stopping /\ eng' = eng
        /\ mailbox' = mailbox \/ mailbox' = <<>>
    BY <1>6 DEF Publish, Machine
  <2>2. Ending => Ending'
    BY <1>6, <2>1 DEF Publish, AfterPublish, Ending
  <2> QED BY <2>1, <2>2, MailboxAInv
<1>7. CASE ClearConnecting
  <2>1. /\ Machine /\ monitors' = monitors /\ stopping' = stopping /\ eng' = eng
        /\ mailbox' = mailbox
    BY <1>7 DEF ClearConnecting, Machine
  <2>2. Ending => Ending'
    BY <1>7 DEF ClearConnecting, Ending
  <2> QED BY <2>1, <2>2, MailboxAInv
<1> QED BY <1>1, <1>2, <1>3, <1>4, <1>5, <1>6, <1>7 DEF Request, Serve

\* The monitors: reports of their own attempt, never of a tunnel or a race.
LEMMA WatchAInv ==
    ASSUME TInv, AInv, Watch
    PROVE  AInv' /\ eng' = eng
<1> USE DEF handleVars, actorVars, execVars
<1>1. PICK m \in monitors : MonitorChecks(m) \/ MonitorLooks(m) \/ MonitorSends(m)
  BY DEF Watch
<1>2. /\ m \in MonitorTasks /\ m.attempt =< attempt /\ m.queue \in Seq(News)
      /\ \A i \in 1..Len(m.queue) : m.queue[i].kind \notin {"TunnelUp", "RaceFinished"}
  BY DEF TInv, TypeOK, AInv, MonitorInv, MonitorTasks
<1>3. ASSUME NEW d, d.attempt = m.attempt, attempt' = attempt,
             \A i \in 1..Len(d.queue) : d.queue[i].kind \notin {"TunnelUp", "RaceFinished"},
             monitors' \subseteq monitors \cup {d}
      PROVE  MonitorInv'
  BY <1>2, <1>3 DEF AInv, MonitorInv
<1>4. CASE MonitorChecks(m)
  <2>1. PICK passed \in BOOLEAN, outcome \in ProbeOutcomes, env \in Environments :
          LET tick == (m.tick + 1) % ProbeEvery
              checks == <<EnvReport(env), [kind |-> "LiveCheck", passed |-> passed]>>
              probe == <<[kind |-> "EndpointProbe", endpoint |-> m.endpoint,
                          outcome |-> outcome]>>
          IN  monitors' = (monitors \ {m}) \cup
                    {[m EXCEPT !.tick = tick,
                               !.queue = IF tick = 0 THEN checks \o probe ELSE checks]}
    BY <1>4, ThresholdsAssumption DEF MonitorChecks
  <2> DEFINE tick == (m.tick + 1) % ProbeEvery
             checks == <<EnvReport(env), [kind |-> "LiveCheck", passed |-> passed]>>
             probe == <<[kind |-> "EndpointProbe", endpoint |-> m.endpoint,
                         outcome |-> outcome]>>
             q == IF tick = 0 THEN checks \o probe ELSE checks
             d == [m EXCEPT !.tick = tick, !.queue = q]
             Quiet == [kind: {"Environment"}, env: Environments]
                         \cup [kind: {"LiveCheck"}, passed: BOOLEAN]
                         \cup [kind: {"EndpointProbe"}, endpoint: Endpoints, outcome: ProbeOutcomes]
  <2>2. q \in Seq(Quiet)
    <3>1. EnvReport(env) \in Quiet /\ [kind |-> "LiveCheck", passed |-> passed] \in Quiet
      BY DEF EnvReport
    <3>2. m.endpoint \in Endpoints
      BY <1>2 DEF MonitorTasks
    <3>3. [kind |-> "EndpointProbe", endpoint |-> m.endpoint, outcome |-> outcome] \in Quiet
      BY <3>2
    <3> HIDE DEF Quiet
    <3>4. checks \in Seq(Quiet) /\ probe \in Seq(Quiet)
      BY <3>1, <3>3
    <3> HIDE DEF checks, probe
    <3> QED BY <3>4
  <2>3. monitors' \subseteq monitors \cup {d}
    BY <2>1
  <2> HIDE DEF q, tick
  <2>4. d.attempt = m.attempt /\ d.queue = q
    BY <1>2 DEF MonitorTasks
  <2>5. \A k \in Quiet : k.kind \notin {"TunnelUp", "RaceFinished"}
    OBVIOUS
  <2> HIDE DEF Quiet
  <2>6. \A i \in 1..Len(q) : q[i] \in Quiet
    BY <2>2
  <2> HIDE DEF d
  <2>7. /\ Machine /\ mailbox' = mailbox /\ stopping' = stopping /\ actor' = actor
        /\ eng' = eng /\ attempt' = attempt
    BY <1>4 DEF MonitorChecks, Machine
  <2>8. MonitorInv'
    BY <1>3, <2>3, <2>4, <2>5, <2>6, <2>7
  <2> QED BY <2>7, <2>8, MailboxAInv DEF Ending
<1>5. CASE MonitorLooks(m)
  <2> DEFINE d == [m EXCEPT !.cleared = TRUE]
  <2>1. monitors' \subseteq monitors \cup {d}
    BY <1>5 DEF MonitorLooks
  <2>2. d.attempt = m.attempt /\ d.queue = m.queue
    BY <1>2 DEF MonitorTasks
  <2> HIDE DEF d
  <2>3. /\ Machine /\ mailbox' = mailbox /\ stopping' = stopping /\ actor' = actor
        /\ eng' = eng /\ attempt' = attempt
    BY <1>5 DEF MonitorLooks, Machine
  <2>4. MonitorInv'
    BY <1>2, <1>3, <2>1, <2>2, <2>3
  <2> QED BY <2>3, <2>4, MailboxAInv DEF Ending
<1>6. CASE MonitorSends(m)
  <2> DEFINE d == [m EXCEPT !.queue = Tail(m.queue), !.cleared = FALSE]
             msg == Report(m.attempt, Head(m.queue))
  <2>0. m.queue # <<>>
    BY <1>6 DEF MonitorSends, TInv, HasReport
  <2>1. monitors' \subseteq monitors \cup {d}
    BY <1>6 DEF MonitorSends
  <2>2. d.attempt = m.attempt /\ d.queue = Tail(m.queue)
    BY <1>2 DEF MonitorTasks
  <2>3. /\ msg.attempt = m.attempt /\ msg.input = Head(m.queue)
        /\ msg.input.kind \notin {"TunnelUp", "RaceFinished"}
    <3>1. Head(m.queue).kind \notin {"TunnelUp", "RaceFinished"}
      BY <1>2, <2>0
    <3> QED BY <3>1 DEF Report
  <2>4. mailbox' = mailbox \/ mailbox' = Append(mailbox, msg)
    BY <1>6 DEF MonitorSends, Deliver
  <2> HIDE DEF d, msg
  <2>5. /\ Machine /\ stopping' = stopping /\ actor' = actor /\ eng' = eng /\ attempt' = attempt
    BY <1>6 DEF MonitorSends, Machine
  <2>6. MonitorInv'
    <3>1. \A i \in 1..Len(Tail(m.queue)) : Tail(m.queue)[i].kind \notin {"TunnelUp", "RaceFinished"}
      BY <1>2, <2>0
    <3> QED BY <1>3, <2>1, <2>2, <2>5, <3>1
  <2> QED BY <1>2, <2>3, <2>4, <2>5, <2>6, MailboxAInv DEF Ending
<1> QED BY <1>1, <1>4, <1>5, <1>6

\* The race tasks: a race is done, and reports.
LEMMA RunRaceAInv ==
    ASSUME TInv, AInv, RunRace
    PROVE  AInv' /\ eng' = eng
<1> USE DEF handleVars, actorVars, execVars
<1>1. PICK r \in races : RaceDone(r) \/ RaceReports(r)
  BY DEF RunRace
<1>2. /\ eng' = eng /\ attempt' = attempt /\ work' = work /\ exec' = exec /\ token' = token
      /\ tunnel' = tunnel /\ monitors' = monitors /\ stopping' = stopping /\ actor' = actor
  BY <1>1 DEF RaceDone, RaceReports
<1>3. /\ (UpAndDone' <=> UpAndDone) /\ (RacingAndDone' <=> RacingAndDone)
      /\ (ComesDown' <=> ComesDown) /\ (Ending' <=> Ending)
      /\ Carried(eng)' = Carried(eng)
  BY <1>2 DEF UpAndDone, RacingAndDone, ComesDown, Ending, Carried, Tunnel, NoTunnel
<1>4. WorkInv' /\ ItemInv' /\ OutInv' /\ MonitorInv'
  <2>1. WorkInv'
    BY <1>2, <1>3 DEF AInv, WorkInv, Target, Tunnel
  <2>2. ItemInv' /\ OutInv'
    BY <1>2, <1>3 DEF AInv, ItemInv, OutInv, Target, Tunnel
  <2>3. MonitorInv'
    BY <1>2 DEF AInv, MonitorInv
  <2> QED BY <2>1, <2>2, <2>3
<1>5. PhaseInv' /\ ViaInv'
  BY <1>2, <1>3 DEF AInv, PhaseInv, ViaInv, Idle
<1>6. /\ r \in RaceTasks /\ r.attempt \in Nat /\ RaceInv /\ MailInv /\ mailbox \in Seq(Messages)
      /\ r.attempt =< attempt
  BY DEF TInv, TypeOK, AInv, RaceInv, RaceTasks
<1>7. CASE RaceDone(r)
  <2>1. PICK in \in Outcomes(r.profiles) :
            races' = (races \ {r}) \cup {[r EXCEPT !.report = Report(r.attempt, in)]}
    BY <1>7 DEF RaceDone
  <2> DEFINE d == [r EXCEPT !.report = Report(r.attempt, in)]
  <2>2. /\ d.attempt = r.attempt /\ d.profiles = r.profiles /\ d.report = Report(r.attempt, in)
        /\ d.report.attempt = r.attempt /\ d.report.input = in /\ ~Running(d)
    BY <1>6 DEF RaceTasks, Report, Running, NoReport
  <2>3. races' = (races \ {r}) \cup {d}
    BY <2>1
  <2> HIDE DEF d
  <2>4. RaceInv'
    <3>1. \A x \in races : x # r => (x.attempt = attempt => r.attempt # attempt)
      BY <1>6 DEF RaceInv
    <3> QED BY <1>2, <1>3, <1>6, <2>2, <2>3, <3>1 DEF RaceInv, Running
  <2>5. mailbox' = mailbox
    BY <1>7 DEF RaceDone
  <2>6. MailInv'
    <3>1. \A x \in races' : \E y \in races : y.attempt = x.attempt
      BY <2>2, <2>3
    <3>2. (\A y \in races : y.attempt # attempt) => (\A x \in races' : x.attempt # attempt)
      BY <3>1
    <3> QED BY <1>2, <1>3, <1>6, <2>5, <3>2 DEF MailInv
  <2> QED BY <1>2, <1>4, <1>5, <2>4, <2>6 DEF AInv
<1>8. CASE RaceReports(r)
  <2>1. races' = races \ {r} /\ ~Running(r)
    BY <1>8 DEF RaceReports
  <2>2. RaceInv'
    BY <1>2, <1>3, <1>6, <2>1 DEF RaceInv, Running
  <2>3. r.report.attempt = r.attempt /\ r.report.input \in Outcomes(r.profiles)
        /\ r.report.kind = "Report"
    <3>1. r.report \in Reports
      BY <1>6, <2>1 DEF RaceTasks, Running
    <3> QED BY <1>6, <2>1, <3>1 DEF RaceInv, Reports
  <2>4. r.report.input.kind = "RaceFinished"
    BY <2>3 DEF Outcomes
  <2>5. r.attempt = attempt =>
          /\ RacingAndDone /\ r.report.input \in Outcomes(eng.raced)
          /\ \A x \in races' : x.attempt # attempt
          /\ \A i \in 1..Len(mailbox) :
                ~ /\ mailbox[i].kind = "Report" /\ mailbox[i].attempt = attempt
                  /\ mailbox[i].input.kind = "RaceFinished"
    <3>1. r.attempt = attempt => RacingAndDone /\ r.profiles = eng.raced
      BY <1>6 DEF RaceInv
    <3>2. r.attempt = attempt => \A x \in races' : x.attempt # attempt
      BY <1>6, <2>1 DEF RaceInv
    <3>3. ASSUME r.attempt = attempt, NEW i \in 1..Len(mailbox),
                 mailbox[i].kind = "Report", mailbox[i].attempt = attempt,
                 mailbox[i].input.kind = "RaceFinished"
          PROVE  FALSE
      BY <1>6, <3>3 DEF MailInv
    <3> QED BY <2>3, <3>1, <3>2, <3>3
  <2>6. CASE mailbox' = mailbox
    <3>1. MailInv'
      BY <1>2, <1>3, <1>6, <2>1, <2>6 DEF MailInv
    <3> QED BY <1>2, <1>4, <1>5, <2>2, <3>1 DEF AInv
  <2>7. CASE mailbox' = Append(mailbox, r.report)
    <3>1. /\ Len(mailbox') = Len(mailbox) + 1 /\ Len(mailbox) \in Nat
          /\ \A i \in 1..Len(mailbox) : mailbox'[i] = mailbox[i]
          /\ mailbox'[Len(mailbox) + 1] = r.report
      BY <1>6, <2>7
    <3>2. \A i \in 1..Len(mailbox') : i \in 1..Len(mailbox) \/ i = Len(mailbox) + 1
      BY <3>1
    <3>3. r.attempt # attempt => \A i \in 1..Len(mailbox') :
             mailbox'[i].kind = "Report" /\ mailbox'[i].attempt = attempt => i \in 1..Len(mailbox)
      BY <2>3, <3>1, <3>2
    <3> SUFFICES MailInv'
      BY <1>2, <1>4, <1>5, <2>2 DEF AInv
    <3> SUFFICES ASSUME NEW i \in 1..Len(mailbox'), mailbox'[i].kind = "Report"
        PROVE  /\ mailbox'[i].attempt =< attempt
               /\ mailbox'[i].input.kind = "TunnelUp" /\ mailbox'[i].attempt = attempt => UpAndDone
               /\ mailbox'[i].input.kind = "RaceFinished" /\ mailbox'[i].attempt = attempt =>
                    /\ RacingAndDone /\ mailbox'[i].input \in Outcomes(eng.raced)
                    /\ \A x \in races' : x.attempt # attempt
                    /\ \A j \in 1..Len(mailbox') :
                         /\ mailbox'[j].kind = "Report" /\ mailbox'[j].attempt = attempt
                         /\ mailbox'[j].input.kind = "RaceFinished"
                         => j = i
      BY <1>2, <1>3 DEF MailInv
    <3>4. CASE i \in 1..Len(mailbox)
      <4>1. mailbox'[i] = mailbox[i]
        BY <3>1, <3>4
      <4>2. /\ mailbox'[i].attempt =< attempt
            /\ mailbox'[i].input.kind = "TunnelUp" /\ mailbox'[i].attempt = attempt => UpAndDone
        BY <1>6, <3>4, <4>1 DEF MailInv
      <4>3. ASSUME mailbox'[i].input.kind = "RaceFinished", mailbox'[i].attempt = attempt
            PROVE  /\ RacingAndDone /\ mailbox'[i].input \in Outcomes(eng.raced)
                   /\ \A x \in races' : x.attempt # attempt
                   /\ \A j \in 1..Len(mailbox') :
                         /\ mailbox'[j].kind = "Report" /\ mailbox'[j].attempt = attempt
                         /\ mailbox'[j].input.kind = "RaceFinished"
                         => j = i
        <5>1. r.attempt # attempt
          BY <2>5, <3>4, <4>1, <4>3
        <5>2. /\ RacingAndDone /\ mailbox[i].input \in Outcomes(eng.raced)
              /\ \A x \in races : x.attempt # attempt
              /\ \A j \in 1..Len(mailbox) :
                    /\ mailbox[j].kind = "Report" /\ mailbox[j].attempt = attempt
                    /\ mailbox[j].input.kind = "RaceFinished"
                    => j = i
          BY <1>6, <3>4, <4>1, <4>3 DEF MailInv
        <5> QED BY <2>1, <3>1, <3>3, <4>1, <5>1, <5>2
      <4> QED BY <4>2, <4>3
    <3>5. CASE i = Len(mailbox) + 1
      <4>1. mailbox'[i] = r.report
        BY <3>1, <3>5
      <4>2. \A j \in 1..Len(mailbox') :
                r.attempt = attempt /\ mailbox'[j].kind = "Report" /\ mailbox'[j].attempt = attempt
                /\ mailbox'[j].input.kind = "RaceFinished" => j = i
        BY <2>5, <3>1, <3>2, <3>5
      <4> QED BY <1>6, <2>3, <2>4, <2>5, <4>1, <4>2
    <3> QED BY <3>2, <3>4, <3>5
  <2> QED BY <1>8, <2>6, <2>7 DEF RaceReports, Deliver
<1> QED BY <1>1, <1>2, <1>7, <1>8

\* The executor comes to the end of an item, or of its first half.
LEMMA ItemAInv ==
    ASSUME TInv, AInv, exec.item # NoWork,
           UNCHANGED <<handleVars, actorVars, work, token, stopping, races, monitors>>,
           exec'.for = exec.for,
           exec'.item.kind \in Bringing =>
              exec.item.kind \in Bringing /\ Target(exec'.item) = Target(exec.item),
           \A i \in 1..Len(exec'.out) :
              /\ exec'.out[i].attempt =< attempt
              /\ exec'.out[i].input.kind # "RaceFinished"
              /\ exec'.out[i].input.kind = "TunnelUp" /\ exec'.out[i].attempt = attempt => UpAndDone',
           \/ exec.item.kind \in Bringing
           \/ /\ exec'.item.kind \notin Bringing
              /\ tunnel' = NoTunnel \/ (tunnel' = tunnel /\ exec.item.kind # "StopTunnel")
    PROVE  AInv' /\ eng' = eng
<1>1. /\ eng' = eng /\ attempt' = attempt /\ work' = work /\ token' = token /\ races' = races
      /\ monitors' = monitors /\ stopping' = stopping /\ actor' = actor /\ mailbox' = mailbox
  BY DEF handleVars, actorVars
<1>2. ~UpAndDone /\ ~RacingAndDone /\ stopping # "done" /\ eng.phase # "Connected"
  BY DEF UpAndDone, RacingAndDone, Idle, AInv, PhaseInv
<1>3. Carried(eng)' = Carried(eng) /\ (Ending' <=> Ending)
  BY <1>1 DEF Carried, Tunnel, NoTunnel, Ending
<1>4. WorkInv'
  BY <1>1, <1>3 DEF AInv, WorkInv, Target, Tunnel
<1>5. ItemInv'
  <2>1. Target(exec'.item) = Target(exec.item)'
    BY DEF Target, Tunnel
  <2> QED BY <1>1, <1>3, <2>1 DEF AInv, ItemInv
<1>6. OutInv'
  BY <1>1 DEF OutInv
<1>7. MailInv'
  BY <1>1, <1>2 DEF AInv, MailInv
<1>8. RaceInv'
  BY <1>1, <1>2 DEF AInv, RaceInv, Running
<1>9. MonitorInv' /\ ViaInv'
  BY <1>1 DEF AInv, MonitorInv, ViaInv
<1>10. eng.phase \notin Using => ComesDown'
  <2> SUFFICES ASSUME eng.phase \notin Using PROVE ComesDown'
    OBVIOUS
  <2>1. ComesDown
    BY DEF AInv, PhaseInv
  <2>2. NoTunnel' = NoTunnel
    BY DEF NoTunnel
  <2>3. "StopTunnel" \notin Bringing
    BY DEF Bringing
  <2> QED BY <1>1, <2>1, <2>2, <2>3 DEF ComesDown
<1>11. PhaseInv'
  BY <1>1, <1>2, <1>10 DEF PhaseInv
<1> QED BY <1>1, <1>4, <1>5, <1>6, <1>7, <1>8, <1>9, <1>11 DEF AInv

\* What Done leaves.
LEMMA DoneFacts ==
    ASSUME exec \in [item: WorkItems, for: Nat, out: Seq(Reports)],
           NEW inputs \in Seq(News), Done(inputs)
    PROVE  /\ exec'.for = exec.for /\ exec'.item = NoWork /\ exec'.item.kind = "none"
           /\ Len(exec'.out) = Len(inputs)
           /\ \A i \in 1..Len(inputs) : /\ exec'.out[i].attempt = exec.for
                                        /\ exec'.out[i].input = inputs[i]
<1> DEFINE o == [i \in 1..Len(inputs) |-> Report(exec.for, inputs[i])]
<1>1. Len(inputs) \in Nat /\ Len(o) = Len(inputs)
  OBVIOUS
<1>2. \A i \in 1..Len(inputs) : o[i].attempt = exec.for /\ o[i].input = inputs[i]
  BY DEF Report
<1>3. exec' = [exec EXCEPT !.item = NoWork, !.out = o]
  BY DEF Done
<1> HIDE DEF o
<1> QED BY <1>1, <1>2, <1>3 DEF NoWork

\* Carrying out an item, whatever comes of it.
LEMMA ItemsAInv ==
    ASSUME TInv, AInv, ReachDone \/ StartSucceeds \/ StartFails \/ MoveTried \/ StopDone
    PROVE  AInv' /\ eng' = eng
<1>1. exec \in [item: WorkItems, for: Nat, out: Seq(Reports)] /\ exec.for =< attempt
  BY DEF TInv, TypeOK, AInv, ItemInv
<1>2. /\ "none" \notin Bringing /\ "StopTunnel" \notin Bringing /\ "Reach" \notin Bringing
      /\ "StartTunnel" \in Bringing /\ "MoveTunnel" \in Bringing /\ NoWork.kind = "none"
  BY DEF Bringing, NoWork
<1>3. exec.item # NoWork
  BY <1>2 DEF ReachDone, StartSucceeds, StartFails, MoveTried, StopDone
<1>4. UNCHANGED <<handleVars, actorVars, work, token, stopping, races, monitors>>
  BY DEF ReachDone, StartSucceeds, StartFails, MoveTried, StopDone
<1>5. ASSUME exec.item.kind \in Bringing, tunnel' = Tunnel(exec.item.profile, exec.item.endpoint),
             Done(<<UpReport>>)
      PROVE  AInv' /\ eng' = eng
  <2> DEFINE inputs == <<UpReport>>
  <2>1. inputs \in Seq(News) /\ Len(inputs) = 1 /\ Done(inputs)
    BY <1>5, NewsType
  <2> HIDE DEF inputs
  <2>2. /\ exec'.for = exec.for /\ exec'.item = NoWork /\ Len(exec'.out) = 1
        /\ \A i \in 1..Len(exec'.out) : exec'.out[i].attempt = exec.for
    BY <1>1, <2>1, DoneFacts
  <2>3. ASSUME exec.for = attempt PROVE UpAndDone'
    <3>1. work = <<>> /\ eng.phase \in Using /\ Target(exec.item) = Carried(eng)
      BY <1>5, <2>3 DEF AInv, ItemInv
    <3>2. work' = work /\ eng' = eng
      BY <1>4 DEF actorVars
    <3>3. tunnel' = Carried(eng)
      BY <1>5, <3>1 DEF Target
    <3>4. NoWork' = NoWork /\ Carried(eng)' = Carried(eng)
      BY <3>2 DEF NoWork, Carried, Tunnel, NoTunnel
    <3> QED BY <2>2, <3>1, <3>2, <3>3, <3>4 DEF UpAndDone
  <2>4. \A i \in 1..Len(exec'.out) : exec'.out[i].input.kind # "RaceFinished"
    <3>1. \A i \in 1..1 : inputs[i] = UpReport
      BY DEF inputs
    <3>2. UpReport.kind # "RaceFinished"
      BY DEF UpReport
    <3> QED BY <1>1, <2>1, <3>1, <3>2, DoneFacts
  <2> QED BY <1>1, <1>2, <1>3, <1>4, <1>5, <2>2, <2>3, <2>4, ItemAInv
<1>6. ASSUME NEW inputs \in Seq(News), Done(inputs),
             \A i \in 1..Len(inputs) : inputs[i].kind \notin {"TunnelUp", "RaceFinished"},
             \/ exec.item.kind \in Bringing
             \/ tunnel' = NoTunnel
             \/ tunnel' = tunnel /\ exec.item.kind # "StopTunnel"
      PROVE  AInv' /\ eng' = eng
  <2>1. /\ exec'.for = exec.for /\ exec'.item.kind = "none"
        /\ \A i \in 1..Len(exec'.out) : /\ exec'.out[i].attempt = exec.for
              /\ exec'.out[i].input.kind \notin {"TunnelUp", "RaceFinished"}
    BY <1>1, <1>6, DoneFacts
  <2> QED BY <1>1, <1>2, <1>3, <1>4, <1>6, <2>1, ItemAInv
<1>7. CASE ReachDone
  <2>1. PICK env \in Environments, reach \in Reaches :
            Done(<<EnvReport(env), [kind |-> "Reach", reach |-> reach]>>)
    BY <1>7 DEF ReachDone
  <2> DEFINE inputs == <<EnvReport(env), [kind |-> "Reach", reach |-> reach]>>
  <2>2. inputs \in Seq(News) /\ Len(inputs) = 2 /\ Done(inputs)
    BY <2>1, NewsType
  <2>3. \A i \in 1..2 : inputs[i].kind \notin {"TunnelUp", "RaceFinished"}
    BY DEF EnvReport
  <2>4. tunnel' = tunnel /\ exec.item.kind # "StopTunnel"
    BY <1>7 DEF ReachDone
  <2> HIDE DEF inputs
  <2> QED BY <1>6, <2>2, <2>3, <2>4
<1>8. CASE StartSucceeds
  BY <1>2, <1>5, <1>8 DEF StartSucceeds
<1>9. CASE StartFails
  <2>1. PICK c \in StartCauses : Done(<<FailedReport(c)>>)
    BY <1>9 DEF StartFails
  <2> DEFINE inputs == <<FailedReport(c)>>
  <2>2. inputs \in Seq(News) /\ Len(inputs) = 1 /\ Done(inputs)
    BY <2>1, NewsType
  <2>3. \A i \in 1..1 : inputs[i].kind \notin {"TunnelUp", "RaceFinished"}
    BY DEF FailedReport
  <2>4. exec.item.kind \in Bringing
    BY <1>2, <1>9 DEF StartFails
  <2> HIDE DEF inputs
  <2> QED BY <1>6, <2>2, <2>3, <2>4
<1>10. CASE MoveTried
  <2>1. exec.item.kind \in Bringing
    BY <1>2, <1>10 DEF MoveTried
  <2>2. CASE tunnel' = Tunnel(exec.item.profile, exec.item.endpoint) /\ Done(<<UpReport>>)
    BY <1>5, <2>1, <2>2
  <2>3. CASE exec' = [exec EXCEPT !.item = Start(exec.item.profile, exec.item.endpoint)]
    <3>1. /\ exec'.for = exec.for /\ exec'.out = exec.out
          /\ exec'.item = Start(exec.item.profile, exec.item.endpoint)
      BY <1>1, <2>3
    <3>2. Target(exec'.item) = Target(exec.item)
      BY <3>1 DEF Start, Target
    <3>3. \A i \in 1..Len(exec'.out) :
              /\ exec'.out[i].attempt =< attempt
              /\ exec'.out[i].input.kind # "RaceFinished"
              /\ ~(exec'.out[i].input.kind = "TunnelUp" /\ exec'.out[i].attempt = attempt)
      <4>1. OutInv /\ ~UpAndDone
        BY <1>3 DEF AInv, UpAndDone
      <4> QED BY <3>1, <4>1 DEF OutInv
    <3> QED BY <1>3, <1>4, <2>1, <3>1, <3>2, <3>3, ItemAInv
  <2> QED BY <1>10, <2>2, <2>3 DEF MoveTried
<1>11. CASE StopDone
  <2> DEFINE inputs == <<>>
  <2>1. inputs \in Seq(News) /\ Len(inputs) = 0 /\ Done(inputs) /\ tunnel' = NoTunnel
    BY <1>11 DEF StopDone
  <2> HIDE DEF inputs
  <2>2. \A i \in 1..Len(inputs) : inputs[i].kind \notin {"TunnelUp", "RaceFinished"}
    BY <2>1
  <2> QED BY <1>6, <2>1, <2>2
<1> QED BY <1>7, <1>8, <1>9, <1>10, <1>11

\* The executor's reports go to the mailbox in their order.
LEMMA SendReportAInv ==
    ASSUME TInv, AInv, SendReport
    PROVE  AInv' /\ eng' = eng
<1> DEFINE m == Head(exec.out)
<1>1. /\ exec \in [item: WorkItems, for: Nat, out: Seq(Reports)] /\ exec.out # <<>>
      /\ exec' = [exec EXCEPT !.out = Tail(exec.out)]
      /\ exec.out \in Seq(Reports)
  BY DEF SendReport, TInv, TypeOK
<1>2. exec'.item = exec.item /\ exec'.for = exec.for /\ exec'.out = Tail(exec.out)
  BY <1>1
<1>3. /\ eng' = eng /\ attempt' = attempt /\ work' = work /\ token' = token /\ races' = races
      /\ tunnel' = tunnel /\ monitors' = monitors /\ stopping' = stopping /\ actor' = actor
  BY DEF SendReport, actorVars
<1>4. /\ (UpAndDone' <=> UpAndDone) /\ (RacingAndDone' <=> RacingAndDone)
      /\ (ComesDown' <=> ComesDown) /\ (Ending' <=> Ending)
      /\ Carried(eng)' = Carried(eng)
  BY <1>2, <1>3 DEF UpAndDone, RacingAndDone, ComesDown, Ending, Carried, Tunnel, NoTunnel, NoWork
<1>5. stopping # "done"
  BY <1>1 DEF AInv, PhaseInv, Idle
<1>6. /\ 1 \in 1..Len(exec.out) /\ exec.out[1] = m
      /\ \A i \in 1..Len(exec'.out) : i + 1 \in 1..Len(exec.out) /\ exec'.out[i] = exec.out[i + 1]
  BY <1>1, <1>2
<1>7. OutInv
  BY DEF AInv
<1>8. OutInv'
  BY <1>3, <1>4, <1>6, <1>7 DEF OutInv
<1>9. WorkInv'
  BY <1>3, <1>4 DEF AInv, WorkInv, Target, Tunnel
<1>10. ItemInv'
  BY <1>2, <1>3, <1>4 DEF AInv, ItemInv, Target, Tunnel
<1>11. RaceInv' /\ MonitorInv' /\ ViaInv'
  BY <1>3, <1>4 DEF AInv, RaceInv, MonitorInv, ViaInv, Running
<1>12. PhaseInv'
  BY <1>3, <1>4, <1>5 DEF AInv, PhaseInv
<1>13. MailInv'
  <2>0. MailInv /\ mailbox \in Seq(Messages)
    BY DEF AInv, TInv, TypeOK
  <2>1. /\ m.attempt =< attempt /\ m.input.kind # "RaceFinished"
        /\ m.input.kind = "TunnelUp" /\ m.attempt = attempt => UpAndDone
    BY <1>6, <1>7 DEF OutInv
  <2>2. mailbox' = mailbox \/ mailbox' = Append(mailbox, m)
    BY DEF SendReport, Deliver
  <2> HIDE DEF m
  <2>3. CASE mailbox' = mailbox
    BY <1>3, <1>4, <2>0, <2>3 DEF MailInv
  <2>4. CASE mailbox' = Append(mailbox, m)
    <3>1. /\ Len(mailbox') = Len(mailbox) + 1 /\ Len(mailbox) \in Nat
          /\ \A i \in 1..Len(mailbox) : mailbox'[i] = mailbox[i]
          /\ mailbox'[Len(mailbox) + 1] = m
      BY <2>0, <2>4
    <3>2. \A i \in 1..Len(mailbox') : i \in 1..Len(mailbox) \/ i = Len(mailbox) + 1
      BY <3>1
    <3>3. ASSUME NEW i \in 1..Len(mailbox'), mailbox'[i].kind = "Report",
                 mailbox'[i].input.kind = "RaceFinished"
          PROVE  i \in 1..Len(mailbox)
      BY <2>1, <3>1, <3>2, <3>3
    <3> QED BY <1>3, <1>4, <2>0, <2>1, <3>1, <3>2, <3>3 DEF MailInv
  <2> QED BY <2>2, <2>3, <2>4
<1> QED BY <1>3, <1>8, <1>9, <1>10, <1>11, <1>12, <1>13 DEF AInv

\* The work behind the first item.
LEMMA RemainingWork ==
    ASSUME NEW q \in Seq(Queued), q # <<>>, NEW t, t = Tail(q)
    PROVE  /\ Len(q) \in Nat /\ 1 \in 1..Len(q) /\ q[1] = Head(q) /\ q[1] \in Queued
           /\ Len(t) = Len(q) - 1 /\ (Len(q) = 1 => t = <<>>)
           /\ \A i \in 1..Len(t) : i + 1 \in 1..Len(q) /\ t[i] = q[i + 1]
           /\ \A i \in 1..Len(q) : i # 1 => i - 1 \in 1..Len(t) /\ t[i - 1] = q[i]
<1>1. /\ Len(q) \in Nat /\ 1 \in 1..Len(q) /\ q[1] = Head(q) /\ q[1] \in Queued
      /\ Len(t) = Len(q) - 1 /\ t \in Seq(Queued)
      /\ \A i \in 1..Len(t) : i + 1 \in 1..Len(q) /\ t[i] = q[i + 1]
  OBVIOUS
<1>2. Len(q) = 1 => t = <<>>
  BY <1>1
<1>3. ASSUME NEW i \in 1..Len(q), i # 1 PROVE i - 1 \in 1..Len(t) /\ t[i - 1] = q[i]
  <2>1. i - 1 \in 1..Len(t) /\ (i - 1) + 1 = i
    BY <1>1, <1>3
  <2> QED BY <1>1, <2>1
<1> QED BY <1>1, <1>2, <1>3

\* The executor takes up an item; a new race or tunnel first cancels the race
\* whose token is held.
LEMMA TakeWorkAInv ==
    ASSUME TInv, AInv, TakeWork
    PROVE  AInv' /\ eng' = eng
<1> DEFINE w == Head(work).do
           n == Head(work).attempt
           kept == w.kind \in {"Reach", "StopTunnel", "Barrier"}
<1>1. /\ eng' = eng /\ attempt' = attempt /\ mailbox' = mailbox /\ actor' = actor
      /\ tunnel' = tunnel /\ monitors' = monitors
  BY DEF TakeWork, handleVars, actorVars
<1>2. /\ exec.item = NoWork /\ exec.out = <<>> /\ work # <<>> /\ work' = Tail(work)
      /\ NoWork.kind = "none"
  BY DEF TakeWork, Idle, NoWork
<1>3. /\ exec' = IF w.kind \in {"Reach", "StartTunnel", "MoveTunnel", "StopTunnel"}
                 THEN [item |-> w, for |-> n, out |-> <<>>] ELSE exec
      /\ races' = IF kept THEN races
                  ELSE IF w.kind = "StartRace" THEN CancelHeld \cup {NewRace(n, w.profiles)}
                  ELSE CancelHeld
      /\ token' = IF kept THEN token ELSE IF w.kind = "StartRace" THEN n ELSE 0
      /\ stopping' = IF w.kind = "Barrier" THEN "done" ELSE stopping
  BY DEF TakeWork
<1>4. work \in Seq(Queued) /\ attempt \in Nat /\ races \subseteq RaceTasks
  BY DEF TInv, TypeOK, Queued
<1>5. /\ Len(work) \in Nat /\ 1 \in 1..Len(work) /\ work[1] = Head(work) /\ work[1] \in Queued
      /\ Len(work') = Len(work) - 1 /\ (Len(work) = 1 => work' = <<>>)
      /\ \A i \in 1..Len(work') : i + 1 \in 1..Len(work) /\ work'[i] = work[i + 1]
      /\ \A i \in 1..Len(work) : i # 1 => i - 1 \in 1..Len(work') /\ work'[i - 1] = work[i]
  BY <1>2, <1>4, RemainingWork
<1>6. w \in WorkItems /\ n \in Nat /\ work[1].do = w /\ work[1].attempt = n
  BY <1>5 DEF Queued
<1> HIDE DEF w, n, kept
<1>7. WorkInv /\ ItemInv /\ OutInv /\ MailInv /\ RaceInv /\ MonitorInv /\ PhaseInv /\ ViaInv
  BY DEF AInv
<1>8. ~UpAndDone /\ ~RacingAndDone /\ stopping # "done" /\ eng.phase # "Connected"
  BY <1>2, <1>7 DEF UpAndDone, RacingAndDone, PhaseInv
<1>9. n =< attempt
  BY <1>5, <1>6, <1>7 DEF WorkInv
<1>10. Carried(eng)' = Carried(eng) /\ (Ending' <=> Ending) /\ NoTunnel' = NoTunnel
  BY <1>1 DEF Carried, Tunnel, NoTunnel, Ending
<1>11. w.kind = "Barrier" => work' = <<>> /\ Ending
  BY <1>5, <1>6, <1>7 DEF WorkInv
<1>12. /\ exec'.out = <<>>
       /\ (exec'.item = w /\ exec'.for = n)
          \/ (exec' = exec /\ w.kind \notin Bringing /\ w.kind # "StopTunnel")
  BY <1>2, <1>3 DEF Bringing
<1>13. WorkInv'
  <2> SUFFICES ASSUME NEW i \in 1..Len(work')
      PROVE  LET v == work'[i].do
                 current == work'[i].attempt = attempt
             IN  /\ work'[i].attempt =< attempt
                 /\ v.kind \in Bringing /\ current =>
                       i = Len(work') /\ eng.phase \in Using /\ Target(v) = Carried(eng)
                 /\ v.kind = "StartRace" /\ current =>
                       i = Len(work') /\ eng.phase \in Racing /\ v.profiles = eng.raced
                 /\ v.kind = "StartRace" /\ ~current =>
                       \E j \in 1..Len(work') : j > i /\ work'[j].do.kind \in Cancelling
                 /\ v.kind = "Barrier" => i = Len(work') /\ Ending
    BY <1>1, <1>10 DEF WorkInv, Target, Tunnel
  <2>1. /\ i + 1 \in 1..Len(work) /\ work'[i] = work[i + 1]
        /\ i + 1 = Len(work) => i = Len(work')
    BY <1>5
  <2>2. ASSUME work'[i].do.kind = "StartRace", work'[i].attempt # attempt
        PROVE  \E j \in 1..Len(work') : j > i /\ work'[j].do.kind \in Cancelling
    <3>1. PICK j \in 1..Len(work) : j > i + 1 /\ work[j].do.kind \in Cancelling
      BY <1>7, <2>1, <2>2 DEF WorkInv
    <3>2. j # 1 /\ j - 1 > i
      BY <1>5, <3>1
    <3> QED BY <1>5, <3>1, <3>2
  <2> QED BY <1>7, <2>1, <2>2 DEF WorkInv
<1>14. ItemInv'
  <2>1. CASE exec'.item = w /\ exec'.for = n
    <3>1. w.kind \in Bringing /\ n = attempt =>
              work' = <<>> /\ eng.phase \in Using /\ Target(w) = Carried(eng)
      BY <1>5, <1>6, <1>7 DEF WorkInv
    <3>2. Target(exec.item)' = Target(exec'.item)
      BY DEF Target, Tunnel
    <3> QED BY <1>1, <1>9, <1>10, <2>1, <3>1, <3>2 DEF ItemInv
  <2>2. CASE exec' = exec
    <3>1. exec.item.kind \notin Bringing
      BY <1>2 DEF Bringing
    <3> QED BY <1>1, <1>7, <2>2, <3>1 DEF ItemInv
  <2> QED BY <1>12, <2>1, <2>2
<1>15. OutInv'
  BY <1>12 DEF OutInv
<1>16. MailInv'
  BY <1>1, <1>7, <1>8 DEF MailInv
<1>17. MonitorInv' /\ ViaInv'
  BY <1>1, <1>7 DEF MonitorInv, ViaInv
<1>18. eng.phase \notin Using => ComesDown'
  <2> SUFFICES ASSUME eng.phase \notin Using PROVE ComesDown'
    OBVIOUS
  <2>0. ComesDown
    BY <1>7 DEF PhaseInv
  <2>1. ASSUME NEW i \in 1..Len(work), work[i].do.kind = "StopTunnel",
               \A j \in 1..Len(work) : j > i => work[j].do.kind \notin Bringing
        PROVE  ComesDown'
    <3>1. CASE i = 1
      <4>1. exec'.item.kind = "StopTunnel"
        BY <1>6, <1>12, <2>1, <3>1
      <4>2. \A j \in 1..Len(work') : work'[j].do.kind \notin Bringing
        BY <1>5, <2>1, <3>1
      <4> QED BY <4>1, <4>2 DEF ComesDown
    <3>2. CASE i # 1
      <4>1. i - 1 \in 1..Len(work') /\ work'[i - 1].do.kind = "StopTunnel"
        BY <1>5, <2>1, <3>2
      <4>2. ASSUME NEW j \in 1..Len(work'), j > i - 1 PROVE work'[j].do.kind \notin Bringing
        <5>1. j + 1 \in 1..Len(work) /\ j + 1 > i /\ work'[j] = work[j + 1]
          BY <1>5, <4>2
        <5> QED BY <2>1, <5>1
      <4> QED BY <4>1, <4>2 DEF ComesDown
    <3> QED BY <3>1, <3>2
  <2>2. ASSUME \A j \in 1..Len(work) : work[j].do.kind \notin Bringing, tunnel = NoTunnel
        PROVE  ComesDown'
    <3>1. w.kind \notin Bringing
      BY <1>5, <1>6, <2>2
    <3>2. exec'.item.kind \notin Bringing
      BY <1>2, <1>12, <3>1 DEF Bringing
    <3>3. \A j \in 1..Len(work') : work'[j].do.kind \notin Bringing
      BY <1>5, <2>2
    <3> QED BY <1>1, <1>10, <2>2, <3>2, <3>3 DEF ComesDown
  <2> QED BY <1>2, <2>0, <2>1, <2>2 DEF ComesDown
<1>19. PhaseInv'
  <2>1. stopping' = "done" => w.kind = "Barrier" /\ exec' = exec
    BY <1>3, <1>8
  <2>2. stopping' = "done" => Ending' /\ work' = <<>> /\ Idle'
    BY <1>2, <1>10, <1>11, <2>1 DEF Idle, NoWork
  <2> QED BY <1>1, <1>8, <1>18, <2>2 DEF PhaseInv
<1>20. \A r \in races : r.attempt # attempt /\ r.attempt =< attempt
  BY <1>7, <1>8 DEF RaceInv
<1>21. ASSUME kept PROVE RaceInv'
  <2>1. races' = races /\ token' = token
    BY <1>3, <1>21
  <2>2. w.kind \notin Cancelling
    BY <1>21 DEF kept, Cancelling
  <2>3. ASSUME NEW r \in races, Running(r)
        PROVE  \E j \in 1..Len(work') : work'[j].do.kind \in Cancelling
    <3>1. PICK j \in 1..Len(work) : work[j].do.kind \in Cancelling
      BY <1>7, <1>20, <2>3 DEF RaceInv
    <3>2. j # 1
      BY <1>6, <2>2, <3>1
    <3> QED BY <1>5, <3>1, <3>2
  <2>4. \A r : Running(r)' <=> Running(r)
    BY DEF Running
  <2> QED BY <1>1, <1>7, <1>20, <2>1, <2>3, <2>4 DEF RaceInv
<1>22. \A r \in CancelHeld : r \in races /\ ~Running(r)
  BY <1>7 DEF CancelHeld, RaceInv
<1>23. ASSUME ~kept, w.kind # "StartRace" PROVE RaceInv'
  <2>1. races' = CancelHeld
    BY <1>3, <1>23
  <2> QED BY <1>1, <1>7, <1>20, <1>22, <2>1 DEF RaceInv, Running
<1>24. ASSUME w.kind = "StartRace" PROVE RaceInv'
  <2> DEFINE d == NewRace(n, w.profiles)
  <2>1. races' = CancelHeld \cup {d} /\ token' = n
    BY <1>3, <1>24 DEF kept
  <2>2. d.attempt = n /\ d.profiles = w.profiles /\ Running(d)
    BY DEF NewRace, Running
  <2> HIDE DEF d
  <2>3. ASSUME n = attempt PROVE RacingAndDone' /\ w.profiles = eng.raced
    <3>1. Len(work) = 1 /\ eng.phase \in Racing /\ w.profiles = eng.raced
      BY <1>5, <1>6, <1>7, <1>24, <2>3 DEF WorkInv
    <3>2. \A j \in 1..Len(work) : work[j].do.kind # "StopTunnel"
      BY <1>6, <1>24, <3>1
    <3>3. eng.phase \notin Using
      BY <3>1 DEF Racing, Using
    <3>4. tunnel = NoTunnel
      BY <1>2, <1>7, <3>2, <3>3 DEF PhaseInv, ComesDown
    <3>5. exec' = exec
      BY <1>3, <1>24
    <3> QED BY <1>1, <1>2, <1>5, <1>10, <3>1, <3>4, <3>5 DEF RacingAndDone, NoWork
  <2>4. ASSUME n # attempt PROVE \E j \in 1..Len(work') : work'[j].do.kind \in Cancelling
    <3>1. PICK j \in 1..Len(work) : j > 1 /\ work[j].do.kind \in Cancelling
      BY <1>5, <1>6, <1>7, <1>24, <2>4 DEF WorkInv
    <3> QED BY <1>5, <3>1
  <2>5. \A r : Running(r)' <=> Running(r)
    BY DEF Running
  <2>6. \A r \in CancelHeld : /\ r.attempt =< attempt /\ r.attempt # attempt /\ ~Running(r)
                              /\ r.report.attempt = r.attempt
                              /\ r.report.input \in Outcomes(r.profiles)
    BY <1>7, <1>20, <1>22 DEF RaceInv
  <2> HIDE DEF CancelHeld
  <2>7. \A r \in races' : r \in CancelHeld \/ r = d
    BY <2>1
  <2> QED BY <1>1, <1>9, <2>1, <2>2, <2>3, <2>4, <2>5, <2>6, <2>7 DEF RaceInv
<1>25. RaceInv'
  BY <1>21, <1>23, <1>24
<1> QED BY <1>1, <1>13, <1>14, <1>15, <1>16, <1>17, <1>19, <1>25 DEF AInv

-----------------------------------------------------------------------------
(* What the invariant says, for every behaviour.                           *)

\* The initial state: nothing under way.
LEMMA InitAInv == Init => AInv
<1> SUFFICES ASSUME Init PROVE AInv
  OBVIOUS
<1>1. /\ eng = NewEngine /\ attempt = 0 /\ actor = "recv" /\ mailbox = <<>> /\ work = <<>>
      /\ exec = [item |-> NoWork, for |-> 0, out |-> <<>>] /\ races = {} /\ monitors = {}
      /\ tunnel = NoTunnel /\ stopping = "no"
  BY DEF Init
<1>2. eng.phase = "Idle" /\ eng.raced = {}
  BY <1>1 DEF NewEngine
<1>3. WorkInv /\ MailInv /\ RaceInv /\ MonitorInv
  BY <1>1 DEF WorkInv, MailInv, RaceInv, MonitorInv
<1>4. ItemInv /\ OutInv
  BY <1>1 DEF ItemInv, OutInv, NoWork, Bringing
<1>5. PhaseInv /\ ViaInv
  BY <1>1, <1>2 DEF PhaseInv, ViaInv, ComesDown, NoWork, Bringing, Using
<1> QED BY <1>3, <1>4, <1>5 DEF AInv

\* Every step keeps the invariant, and no step but the taking of a connect
\* revives a blocked profile.
LEMMA NextAInv ==
    ASSUME TInv, AInv, [Next]_vars
    PROVE  /\ AInv'
           /\ \/ StillBlocked(eng, eng')
              \/ mailbox # <<>> /\ Head(mailbox).kind = "Connect"
<1>1. CASE UNCHANGED vars
  <2>1. /\ Machine /\ mailbox' = mailbox /\ monitors' = monitors /\ stopping' = stopping
        /\ actor' = actor /\ eng' = eng
    BY <1>1 DEF vars, handleVars, actorVars, execVars, Machine
  <2> QED BY <2>1, MailboxAInv DEF Ending, StillBlocked
<1>2. ASSUME AInv', eng' = eng PROVE AInv' /\ StillBlocked(eng, eng')
  BY <1>2 DEF StillBlocked
<1>3. CASE Request \/ Serve \/ Publish \/ ClearConnecting
  BY <1>2, <1>3, HandleAInv
<1>4. CASE TakeMessage
  <2>1. mailbox # <<>>
    BY <1>4 DEF TakeMessage
  <2> QED BY <1>4, <2>1, TakeMessageAInv
<1>5. CASE Execute
  BY <1>2, <1>5, TakeWorkAInv, ItemsAInv, SendReportAInv DEF Execute
<1>6. CASE RunRace
  BY <1>2, <1>6, RunRaceAInv
<1>7. CASE Watch
  BY <1>2, <1>7, WatchAInv
<1> QED BY <1>1, <1>3, <1>4, <1>5, <1>6, <1>7 DEF Next, Act

\* What the invariant says of a connected engine.
LEMMA AInvCarried == AInv => ConnectedIsCarried
BY DEF AInv, PhaseInv, UpAndDone, ConnectedIsCarried, Carried, Using

\* ... of an executor that has caught up.
LEMMA AInvQuiet == AInv => QuietMeansDown
<1> SUFFICES ASSUME AInv, Idle, work = <<>>
             PROVE  /\ eng.phase \notin Using => tunnel = NoTunnel
                    /\ eng.phase \notin Racing => \A r \in races : ~Running(r)
  BY DEF QuietMeansDown
<1>1. Len(work) = 0 /\ exec.item.kind = "none"
  BY DEF Idle, NoWork
<1>2. eng.phase \notin Using => tunnel = NoTunnel
  BY <1>1 DEF AInv, PhaseInv, ComesDown
<1>3. eng.phase \notin Racing => \A r \in races : ~Running(r)
  BY <1>1 DEF AInv, RaceInv, RacingAndDone
<1> QED BY <1>2, <1>3

\* ... of the races.
LEMMA AInvRaces == AInv => RaceWhileDown
<1> SUFFICES ASSUME AInv PROVE RaceWhileDown
  OBVIOUS
<1>1. \A r \in races : r.attempt = attempt => tunnel = NoTunnel /\ eng.phase \in Racing
  BY DEF AInv, RaceInv, RacingAndDone
<1> DEFINE S == {r \in races : Running(r)}
<1>2. \A r, s \in S : r = s
  BY DEF AInv, RaceInv
<1> SUFFICES Cardinality(S) =< 1
  BY <1>1 DEF RaceWhileDown
<1> HIDE DEF S
<1>3. CASE S = {}
  BY <1>3, FS_EmptySet
<1>4. CASE S # {}
  <2>1. PICK r : S = {r}
    BY <1>2, <1>4
  <2> QED BY <2>1, FS_Singleton
<1> QED BY <1>3, <1>4

\* ... once the barrier has been reached.
LEMMA AInvShutdown == AInv => ShutdownLeavesNothing
<1> SUFFICES ASSUME AInv, stopping = "done"
             PROVE  /\ tunnel = NoTunnel /\ work = <<>> /\ Idle
                    /\ \A r \in races : ~Running(r)
  BY DEF ShutdownLeavesNothing
<1>1. eng.phase = "Idle" /\ work = <<>> /\ Idle /\ ComesDown
  BY DEF AInv, PhaseInv, Ending, Using
<1>2. Len(work) = 0 /\ exec.item.kind = "none"
  BY <1>1 DEF Idle, NoWork
<1>3. tunnel = NoTunnel
  BY <1>1, <1>2 DEF ComesDown
<1>4. \A r \in races : ~Running(r)
  BY <1>1, <1>2 DEF AInv, RaceInv, RacingAndDone, Racing
<1> QED BY <1>1, <1>3, <1>4

\* Whatever the reports of earlier attempts bring, whatever fails and however
\* the tasks interleave: while the engine says Connected, the tunnel that is
\* up is the one it names (orchestrator.rs:431).
THEOREM CarriedWhileConnected == Spec => []ConnectedIsCarried
BY InitTInv, NextTInv, InitAInv, NextAInv, AInvCarried, PTL DEF Spec

\* Once the executor has caught up with an engine that wants no tunnel there
\* is none, and no race runs that the engine does not want.
THEOREM DownWhenQuiet == Spec => []QuietMeansDown
BY InitTInv, NextTInv, InitAInv, NextAInv, AInvQuiet, PTL DEF Spec

\* A race that can still decide something has no tunnel above it, and at most
\* one race runs: a token is cancelled before another takes its place.
THEOREM RacesRunWhileDown == Spec => []RaceWhileDown
BY InitTInv, NextTInv, InitAInv, NextAInv, AInvRaces, PTL DEF Spec

\* When the shutdown returns there is no tunnel, no work that could bring one
\* up and no race, however late it came (orchestrator.rs:299, SUP-04).
THEOREM NothingLeftAfterShutdown == Spec => []ShutdownLeavesNothing
BY InitTInv, NextTInv, InitAInv, NextAInv, AInvShutdown, PTL DEF Spec

\* A profile found blocked is not revived before the next connect, whichever
\* report comes late: an attempt cannot go in circles (reprobe.rs:105).
THEOREM BlockedStaysBlocked == Spec => BlockedForTheAttempt
<1>1. ASSUME TInv, AInv, [Next]_vars
      PROVE  [\A p \in Profiles :
                 eng.via[p] = "blocked" /\ eng'.via[p] # "blocked" =>
                    mailbox # <<>> /\ Head(mailbox).kind = "Connect"]_vars
  BY <1>1, NextAInv DEF StillBlocked
<1> QED BY <1>1, InitTInv, NextTInv, InitAInv, NextAInv, PTL DEF Spec, BlockedForTheAttempt
-----------------------------------------------------------------------------
(* The orchestrator is a connection as PromisedConnection has it.          *)

\* What the mapping looks at, in the words of the invariants.
LEMMA AwaitedIs == (Awaited <=> ConnectAt(mailbox) # {}) /\ (Awaited' <=> ConnectAt(mailbox') # {})
BY DEF Awaited, ConnectAt

\* A step that touches none of it.
LEMMA NotSeen ==
    ASSUME Awaited' = Awaited, Course' = Course, Claimed' = Claimed, tunnel' = tunnel,
           WorkLeft' = WorkLeft, Life' = Life
    PROVE  UNCHANGED Connection!connectionVars
BY DEF Connection!connectionVars

\* With the engine, the executor and the mailbox's connects as they were.
LEMMA SameUnlessAsked ==
    ASSUME eng' = eng, work' = work, exec'.item = exec.item
    PROVE  Course' = Course /\ Claimed' = Claimed /\ (WorkLeft' = WorkLeft)
<1>1. Course' = Course
  BY DEF Course
<1>2. Claimed' = Claimed
  BY DEF Claimed, Tunnel, NoTunnel
<1>3. WorkLeft' = WorkLeft
  BY DEF WorkLeft, NoWork
<1> QED BY <1>1, <1>2, <1>3

LEMMA SameLife == ASSUME actor' = actor, stopping' = stopping PROVE Life' = Life
BY DEF Life

LEMMA SameAwaited ==
    ASSUME ConnectAt(mailbox') = ConnectAt(mailbox)
    PROVE  Awaited' = Awaited
<1>1. Awaited' <=> Awaited
  BY AwaitedIs
<1> QED BY <1>1 DEF Awaited

\* Messages other than a connect come and go unseen.
LEMMA OtherMail ==
    ASSUME TInv, NEW m \in Messages, m.kind # "Connect",
           mailbox' = mailbox \/ mailbox' = Append(mailbox, m)
    PROVE  Awaited' = Awaited
<1>1. mailbox \in Seq(Messages)
  BY DEF TInv, TypeOK
<1>2. ConnectAt(mailbox') = ConnectAt(mailbox)
  BY <1>1, AppendOther
<1> QED BY <1>2, SameAwaited

LEMMA OtherTaken ==
    ASSUME TInv, mailbox # <<>>, mailbox' = Tail(mailbox), Head(mailbox).kind # "Connect"
    PROVE  Awaited' = Awaited
<1>1. mailbox \in Seq(Messages)
  BY DEF TInv, TypeOK
<1>2. /\ Len(mailbox) \in Nat /\ mailbox[1] = Head(mailbox)
      /\ Len(mailbox') = Len(mailbox) - 1
      /\ \A i \in 1..Len(mailbox') : mailbox'[i] = mailbox[i + 1]
  BY <1>1
<1>3. ASSUME NEW i \in 1..Len(mailbox'), mailbox'[i].kind = "Connect"
      PROVE  \E j \in 1..Len(mailbox) : mailbox[j].kind = "Connect"
  <2>1. i + 1 \in 1..Len(mailbox)
    BY <1>2
  <2> QED BY <1>2, <1>3, <2>1
<1>4. ASSUME NEW i \in 1..Len(mailbox), mailbox[i].kind = "Connect"
      PROVE  \E j \in 1..Len(mailbox') : mailbox'[j].kind = "Connect"
  <2>1. i # 1
    BY <1>2, <1>4
  <2>2. i - 1 \in 1..Len(mailbox') /\ (i - 1) + 1 = i
    BY <1>2, <2>1
  <2> QED BY <1>2, <1>4, <2>2
<1>5. Awaited' <=> Awaited
  BY <1>3, <1>4 DEF Awaited
<1> QED BY <1>5 DEF Awaited

\* What the phases stand for.
LEMMA CourseIs ==
    ASSUME TInv
    PROVE  /\ eng.phase \in AtRest <=> Course = "rest"
           /\ eng.phase = "Connected" <=> Course = "on"
           /\ eng.phase \in Racing \cup {"Starting"} <=> Course = "seeking"
           /\ eng.phase # "Connected" => Claimed = NoTunnel
<1>1. eng.phase \in Phases
  BY DEF TInv, TypeOK, Engines
<1> QED BY <1>1 DEF Course, Claimed, AtRest, Racing, Phases

LEMMA NextCourseIs ==
    ASSUME TInv'
    PROVE  /\ eng'.phase \in AtRest <=> Course' = "rest"
           /\ eng'.phase = "Connected" <=> Course' = "on"
           /\ eng'.phase \in Racing \cup {"Starting"} <=> Course' = "seeking"
           /\ eng'.phase # "Connected" => Claimed' = NoTunnel
<1>1. eng'.phase \in Phases
  BY DEF TInv, TypeOK, Engines
<1> QED BY <1>1 DEF Course, Claimed, AtRest, Racing, Phases, NoTunnel

\* What a step of the actor does, by phase: it rests and leaves the work alone,
\* or the work is not empty after it (Actor::step).
LEMMA ActorStepSeen ==
    ASSUME TInv, NEW e \in Engines, InUse(e), NEW in \in Inputs,
           NEW ahead, NEW behind, ActorStep(e, in, ahead, behind),
           \/ ahead = <<>> /\ behind = <<>>
           \/ ahead = <<CheckReach>> /\ behind = <<>> /\ in.kind = "Connect"
           \/ ahead = <<>> /\ behind = <<Barrier>> /\ in.kind = "Disconnect"
    PROVE  /\ \/ Rests(e, in, eng') /\ (behind = <<>> => work' = work)
              \/ (\E w : Asks(e, eng', w)) /\ work' # <<>>
           /\ behind = <<Barrier>> => work' # <<>>
           /\ in.kind = "Disconnect" => eng'.phase = "Idle"
<1> DEFINE next(r) == IF FoldMoves(r.work) = <<>> THEN attempt ELSE attempt + 1
           items(r) == IF FoldMoves(r.work) = <<>> THEN behind
                       ELSE ahead \o FoldMoves(r.work) \o behind
<1>1. PICK r \in Step(e, in) :
          /\ eng' = r.eng
          /\ work' = work \o Tagged(next(r), items(r))
  BY DEF ActorStep
<1>2. Leads(Carried(e), r) /\ Shape(e, in, r)
  BY StepLeads, StepShape
<1>3. r.eng \in Engines /\ InUse(r.eng) /\ FoldMoves(r.work) \in Seq(WorkItems)
  BY <1>2, FoldMovesType DEF Leads
<1>4. /\ attempt \in Nat /\ work \in Seq(Queued) /\ next(r) \in Nat
      /\ ahead \in Seq(WorkItems) /\ behind \in Seq(WorkItems)
  <2>1. attempt \in Nat /\ work \in Seq(Queued)
    BY DEF TInv, TypeOK, Queued
  <2>2. <<>> \in Seq(WorkItems) /\ <<CheckReach>> \in Seq(WorkItems) /\ <<Barrier>> \in Seq(WorkItems)
    BY ItemTypes
  <2>3. ahead = <<>> \/ ahead = <<CheckReach>>
    OBVIOUS
  <2>4. behind = <<>> \/ behind = <<Barrier>>
    OBVIOUS
  <2>5. next(r) \in Nat
    BY <2>1
  <2>6. ahead \in Seq(WorkItems)
    BY <2>2, <2>3
  <2>7. behind \in Seq(WorkItems)
    BY <2>2, <2>4
  <2> QED BY <2>1, <2>5, <2>6, <2>7
<1>5. items(r) \in Seq(WorkItems)
  BY <1>3, <1>4
<1>6. ASSUME items(r) # <<>> PROVE work' # <<>>
  <2> HIDE DEF items, next
  <2>1. Behind(work, work', next(r), items(r))
    BY <1>1, <1>4, <1>5, WorkAppended
  <2>2. Len(items(r)) > 0
    BY <1>5, <1>6
  <2>3. Len(work') > 0
    BY <2>1, <2>2 DEF Behind
  <2> QED BY <2>3
<1>7. ASSUME behind = <<Barrier>> PROVE work' # <<>>
  <2>1. Len(behind) = 1
    BY <1>7
  <2>2. CASE FoldMoves(r.work) = <<>>
    <3>1. items(r) # <<>>
      BY <1>7, <2>2
    <3> QED BY <1>6, <3>1
  <2>3. CASE FoldMoves(r.work) # <<>>
    <3>1. items(r) = ahead \o FoldMoves(r.work) \o behind
      BY <2>3
    <3> DEFINE front == ahead \o FoldMoves(r.work)
    <3>4. front \in Seq(WorkItems)
      BY <1>3, <1>4
    <3>5. items(r) = front \o behind
      BY <3>1
    <3> HIDE DEF items, front
    <3>2. Len(items(r)) >= 1
      <4>1. Len(front \o behind) = Len(front) + Len(behind) /\ Len(front) \in Nat
        BY <1>4, <3>4
      <4> QED BY <2>1, <3>5, <4>1
    <3>3. items(r) # <<>>
      BY <3>2
    <3> QED BY <1>6, <3>3
  <2> QED BY <2>2, <2>3
<1>8. ASSUME Asks(e, eng', r.work) PROVE work' # <<>>
  <2>1. e.phase \in AtRest \/ in.kind # "Connect"
    <3>1. ASSUME in.kind = "Connect", e.phase \notin AtRest PROVE FALSE
      <4>1. r.work = <<>>
        BY <3>1 DEF Step, Connect, Ignored, Asked
      <4> QED BY <1>8, <4>1 DEF Asks
    <3> QED BY <3>1
  <2>2. CASE behind = <<Barrier>>
    BY <1>7, <2>2
  <2>3. CASE behind = <<>>
    <3>1. FoldMoves(r.work) # <<>> /\ Group(e, eng', ahead \o FoldMoves(r.work) \o behind)
      BY <1>1, <1>3, <1>8, <2>1, <2>3, AsksGroup
    <3>2. items(r) # <<>>
      BY <3>1 DEF Group
    <3> QED BY <1>6, <3>2
  <2> QED BY <2>2, <2>3
<1>9. ASSUME r.work = <<>>, behind = <<>> PROVE work' = work
  <2>1. FoldMoves(r.work) = <<>>
    BY <1>9, FoldCases
  <2>2. work' = work \o Tagged(attempt, <<>>)
    BY <1>1, <1>9, <2>1
  <2>3. Tagged(attempt, <<>>) = <<>>
    BY DEF Tagged
  <2> QED BY <1>4, <2>2, <2>3
<1>10. ASSUME in.kind = "Disconnect" PROVE eng'.phase = "Idle"
  <2>1. r = Disconnect(e)
    BY <1>10 DEF Step
  <2> QED BY <1>1, <2>1, DisconnectShape
<1>11. \/ Rests(e, in, eng') /\ (behind = <<>> => work' = work)
       \/ (\E w : Asks(e, eng', w)) /\ work' # <<>>
  <2>1. CASE r.work = <<>> /\ Rests(e, in, r.eng)
    BY <1>1, <1>9, <2>1
  <2>2. CASE Asks(e, r.eng, r.work)
    BY <1>1, <1>8, <2>2
  <2> QED BY <1>2, <2>1, <2>2 DEF Shape
<1> QED BY <1>7, <1>10, <1>11

\* The phases of a step that asks for work.
LEMMA AsksPhases ==
    ASSUME NEW e, NEW f, NEW w, Asks(e, f, w)
    PROVE  /\ f.phase \in AtRest \cup Racing \cup {"Starting"}
           /\ e.phase \in AtRest => f.phase \in Racing \cup {"Starting"}
BY DEF Asks, AtRest, Racing, Using

\* What a message leaves as it is.
LEMMA LifeOfMessage ==
    ASSUME AInv, TakeMessage
    PROVE  /\ Life = "open" /\ tunnel' = tunnel /\ exec' = exec
           /\ actor' \notin {"publishLast", "ended"} => Life' = "open"
           /\ actor' \in {"publishLast", "ended"} => Life' = "ending"
<1>1. /\ actor = "recv" /\ tunnel' = tunnel /\ exec' = exec /\ stopping' = stopping
  BY DEF TakeMessage
<1>2. stopping # "done"
  BY <1>1 DEF AInv, PhaseInv, Ending
<1> QED BY <1>1, <1>2 DEF Life

\* Work that was queued, and work that was not.
LEMMA QueuedIsLeft ==
    ASSUME exec' = exec
    PROVE  /\ work' # <<>> => WorkLeft' = TRUE
           /\ work' = work => WorkLeft' = WorkLeft
<1>1. work' # <<>> => (WorkLeft' <=> TRUE)
  BY DEF WorkLeft
<1>2. work' = work => (WorkLeft' <=> WorkLeft)
  BY DEF WorkLeft, NoWork
<1> QED BY <1>1, <1>2 DEF WorkLeft

\* A connect is taken up (Actor::run).
LEMMA ConnectIsBegin ==
    ASSUME TInv, TInv', CInv, AInv, TakeMessage, TakeConnect(Head(mailbox))
    PROVE  Connection!Begin
<1> DEFINE m == Head(mailbox)
<1>1. mailbox \in Seq(Messages) /\ mailbox # <<>> /\ mailbox' = Tail(mailbox)
  BY DEF TInv, TypeOK, TakeMessage
<1>2. m \in Messages /\ m.kind = "Connect" /\ actor' = "publishConnect"
  BY <1>1, HeadTailType DEF TakeConnect
<1>3. 1 \in ConnectAt(mailbox) /\ \A i \in ConnectAt(mailbox') : i \in Nat /\ i >= 1 /\ i + 1 \in ConnectAt(mailbox)
  BY <1>1, <1>2, TailPlaces
<1>4. ConnectAt(mailbox') = {}
  <2> SUFFICES ASSUME NEW i \in ConnectAt(mailbox') PROVE FALSE
    OBVIOUS
  <2>1. i \in Nat /\ i >= 1 /\ i + 1 = 1
    BY <1>3 DEF CInv, OneOwner
  <2> QED BY <2>1
<1>5. Awaited /\ (Awaited' = FALSE)
  <2>1. Awaited /\ ~Awaited'
    BY <1>3, <1>4, AwaitedIs
  <2> QED BY <2>1 DEF Awaited
<1>6. eng.phase \in AtRest
  BY <1>3 DEF CInv, RestWhenJudged, Sent
<1> HIDE DEF m
<1>7. PICK env \in Environments :
          ActorStep([eng EXCEPT !.env = env], m, <<CheckReach>>, <<>>)
  BY DEF TakeConnect, m
<1> DEFINE e == [eng EXCEPT !.env = env]
<1>8. e \in Engines /\ e.phase = eng.phase /\ InUse(e)
  <2>1. eng \in Engines /\ InUse(eng)
    BY DEF TInv, TypeOK
  <2> QED BY <2>1, ReadingsAssumption DEF Engines, InUse
<1>9. m \in Inputs
  BY <1>2 DEF Messages, Inputs, Reports
<1>10. ActorStep(e, m, <<CheckReach>>, <<>>)
  BY <1>7
<1> HIDE DEF e
<1>11. \/ Rests(e, m, eng') /\ work' = work
       \/ (\E w : Asks(e, eng', w)) /\ work' # <<>>
  BY <1>2, <1>8, <1>9, <1>10, ActorStepSeen
<1>12. Course = "rest" /\ Claimed = NoTunnel
  BY <1>6, CourseIs DEF AtRest
<1>13. Life = "open" /\ Life' = "open" /\ tunnel' = tunnel /\ exec' = exec
  BY <1>2, LifeOfMessage
<1>14. CASE Rests(e, m, eng') /\ work' = work
  <2>1. eng'.phase \in AtRest
    BY <1>2, <1>6, <1>8, <1>14 DEF Rests
  <2>2. Course' = "rest" /\ Claimed' = NoTunnel
    BY <2>1, NextCourseIs DEF AtRest
  <2>3. WorkLeft' = WorkLeft
    BY <1>13, <1>14, QueuedIsLeft
  <2> QED BY <1>5, <1>12, <1>13, <2>2, <2>3 DEF Connection!Begin
<1>15. CASE (\E w : Asks(e, eng', w)) /\ work' # <<>>
  <2>1. eng'.phase \in Racing \cup {"Starting"}
    BY <1>6, <1>8, <1>15, AsksPhases
  <2>2. Course' = "seeking" /\ Claimed' = NoTunnel
    BY <2>1, NextCourseIs DEF Racing
  <2>3. WorkLeft' = TRUE
    BY <1>13, <1>15, QueuedIsLeft
  <2> QED BY <1>5, <1>12, <1>13, <2>2, <2>3 DEF Connection!Begin
<1> QED BY <1>11, <1>14, <1>15

\* A shutdown ends it, whatever the phase.
LEMMA ShutdownIsEnd ==
    ASSUME TInv, TInv', AInv, TakeMessage, TakeShutdown(Head(mailbox))
    PROVE  Connection!End
<1>1. mailbox # <<>> /\ mailbox' = Tail(mailbox)
  BY DEF TakeMessage
<1>2. /\ Head(mailbox).kind = "Shutdown" /\ actor' = "publishLast"
      /\ ActorStep(eng, DisconnectMsg, <<>>, <<Barrier>>)
  BY DEF TakeShutdown
<1>3. Awaited' = Awaited
  BY <1>1, <1>2, OtherTaken
<1>4. DisconnectMsg \in Inputs /\ DisconnectMsg.kind = "Disconnect"
  BY DEF DisconnectMsg, Inputs
<1>5. eng \in Engines /\ InUse(eng)
  BY DEF TInv, TypeOK
<1>6. work' # <<>> /\ eng'.phase = "Idle"
  BY <1>2, <1>4, <1>5, ActorStepSeen
<1>7. Course' = "rest" /\ Claimed' = NoTunnel
  BY <1>6, NextCourseIs DEF AtRest
<1>8. Life = "open" /\ Life' = "ending" /\ tunnel' = tunnel /\ exec' = exec
  BY <1>2, LifeOfMessage
<1>9. WorkLeft' = TRUE
  BY <1>6, <1>8, QueuedIsLeft
<1> QED BY <1>3, <1>7, <1>8, <1>9 DEF Connection!End

\* A step of an engine that is not at rest, to rest or to another attempt.
LEMMA StepAway ==
    ASSUME TInv, TInv', tunnel' = tunnel, exec' = exec, Life' = Life, Awaited' = Awaited,
           eng.phase \notin AtRest, NEW w, Asks(eng, eng', w), work' # <<>>
    PROVE  Connection!GiveUp \/ Connection!SeekAgain
<1>1. WorkLeft' = TRUE
  BY QueuedIsLeft
<1>2. Course # "rest"
  BY CourseIs
<1>3. eng'.phase \in AtRest \cup Racing \cup {"Starting"}
  BY AsksPhases
<1>4. Claimed' = NoTunnel
  BY <1>3, NextCourseIs DEF AtRest, Racing
<1>5. CASE eng'.phase \in AtRest
  <2>1. Course' = "rest"
    BY <1>5, NextCourseIs
  <2> QED BY <1>1, <1>2, <1>4, <2>1 DEF Connection!GiveUp
<1>6. CASE eng'.phase \in Racing \cup {"Starting"}
  <2>1. Course' = "seeking"
    BY <1>6, NextCourseIs
  <2> QED BY <1>1, <1>2, <1>4, <2>1 DEF Connection!SeekAgain
<1> QED BY <1>3, <1>5, <1>6

\* A step that changes nothing of what is shown of a connection.
LEMMA StepNotSeen ==
    ASSUME TInv, TInv', tunnel' = tunnel, exec' = exec, Life' = Life, Awaited' = Awaited,
           work' = work,
           \/ eng.phase \in AtRest /\ eng'.phase \in AtRest
           \/ /\ eng'.phase = eng.phase /\ eng'.profile = eng.profile /\ eng'.active = eng.active
    PROVE  UNCHANGED Connection!connectionVars
<1>1. WorkLeft' = WorkLeft
  BY QueuedIsLeft
<1>2. Course' = Course /\ Claimed' = Claimed
  <2>1. CASE eng.phase \in AtRest /\ eng'.phase \in AtRest
    <3>1. eng.phase # "Connected" /\ eng'.phase # "Connected"
      BY <2>1 DEF AtRest
    <3> QED BY <2>1, <3>1, CourseIs, NextCourseIs
  <2>2. CASE eng'.phase = eng.phase /\ eng'.profile = eng.profile /\ eng'.active = eng.active
    BY <2>2 DEF Course, Claimed, Tunnel, NoTunnel
  <2> QED BY <2>1, <2>2
<1> QED BY <1>1, <1>2, NotSeen

\* A disconnect gives it up, or finds nothing to give up.
LEMMA DisconnectIsGiveUp ==
    ASSUME TInv, TInv', AInv, TakeMessage, TakeDisconnect(Head(mailbox))
    PROVE  Connection!ConnectionNext \/ UNCHANGED Connection!connectionVars
<1> DEFINE m == Head(mailbox)
<1>1. mailbox \in Seq(Messages) /\ mailbox # <<>> /\ mailbox' = Tail(mailbox)
  BY DEF TInv, TypeOK, TakeMessage
<1>2. /\ m \in Messages /\ m.kind = "Disconnect" /\ actor' = "publish"
      /\ ActorStep(eng, m, <<>>, <<>>)
  BY <1>1, HeadTailType DEF TakeDisconnect
<1>3. Awaited' = Awaited
  BY <1>1, <1>2, OtherTaken
<1> HIDE DEF m
<1>4. m \in Inputs
  BY <1>2 DEF Messages, Inputs, Reports
<1>5. eng \in Engines /\ InUse(eng)
  BY DEF TInv, TypeOK
<1>6. /\ eng'.phase = "Idle"
      /\ \/ Rests(eng, m, eng') /\ work' = work
         \/ (\E w : Asks(eng, eng', w)) /\ work' # <<>>
  BY <1>2, <1>4, <1>5, ActorStepSeen
<1>7. Life' = Life /\ tunnel' = tunnel /\ exec' = exec
  BY <1>2, LifeOfMessage
<1>8. CASE Rests(eng, m, eng') /\ work' = work
  <2>1. eng.phase \in AtRest /\ eng'.phase \in AtRest
    BY <1>2, <1>6, <1>8 DEF Rests, AtRest
  <2> QED BY <1>3, <1>7, <1>8, <2>1, StepNotSeen
<1>9. ASSUME NEW w, Asks(eng, eng', w), work' # <<>>
      PROVE  Connection!ConnectionNext
  <2>1. eng.phase \notin AtRest
    BY <1>6, <1>9, AsksPhases DEF Racing, AtRest
  <2> QED BY <1>3, <1>7, <1>9, <2>1, StepAway DEF Connection!ConnectionNext
<1> QED BY <1>6, <1>8, <1>9

\* A report of the current attempt establishes it, loses it, gives it up or
\* tells nothing new; a report of an earlier one is dropped (Actor::step).
LEMMA ReportIsSeen ==
    ASSUME TInv, TInv', AInv, TakeMessage, TakeReport(Head(mailbox))
    PROVE  Connection!ConnectionNext \/ UNCHANGED Connection!connectionVars
<1> DEFINE m == Head(mailbox)
<1>1. mailbox \in Seq(Messages) /\ mailbox # <<>> /\ mailbox' = Tail(mailbox)
  BY DEF TInv, TypeOK, TakeMessage
<1>2. m \in Messages /\ m.kind = "Report" /\ actor' = "publish"
  BY <1>1, HeadTailType DEF TakeReport
<1>3. Awaited' = Awaited
  BY <1>1, <1>2, OtherTaken
<1>4. m = Head(mailbox) /\ TakeReport(m)
  OBVIOUS
<1> HIDE DEF m
<1>5. m.input \in News /\ m.input \in Inputs
  BY <1>2 DEF Messages, Reports, News
<1>6. eng \in Engines /\ InUse(eng)
  BY DEF TInv, TypeOK
<1>7. Life' = Life /\ tunnel' = tunnel /\ exec' = exec
  BY <1>2, LifeOfMessage
<1>8. CASE ~Fresh(m)
  <2>1. eng' = eng /\ work' = work
    BY <1>4, <1>8 DEF TakeReport
  <2> QED BY <1>3, <1>7, <2>1, StepNotSeen
<1>9. CASE Fresh(m)
  <2>1. m.attempt = attempt /\ ActorStep(eng, m.input, <<>>, <<>>)
    BY <1>4, <1>9 DEF TakeReport, Fresh
  <2>2. \/ Rests(eng, m.input, eng') /\ work' = work
        \/ (\E w : Asks(eng, eng', w)) /\ work' # <<>>
    BY <1>5, <1>6, <2>1, ActorStepSeen
  <2>3. eng.phase \in AtRest => eng'.phase \in AtRest
    BY <1>5, <2>1, ActorStepRests
  <2>4. ASSUME NEW w, Asks(eng, eng', w), work' # <<>> PROVE Connection!ConnectionNext
    <3>1. eng.phase \notin AtRest
      BY <2>3, <2>4, AsksPhases DEF Racing, AtRest
    <3> QED BY <1>3, <1>7, <2>4, <3>1, StepAway DEF Connection!ConnectionNext
  <2>5. ASSUME eng'.phase = eng.phase, eng'.profile = eng.profile, eng'.active = eng.active,
               work' = work
        PROVE  UNCHANGED Connection!connectionVars
    BY <1>3, <1>7, <2>5, StepNotSeen
  <2>6. ASSUME eng.phase \in AtRest, eng'.phase \in AtRest, work' = work
        PROVE  UNCHANGED Connection!connectionVars
    BY <1>3, <1>7, <2>6, StepNotSeen
  <2>7. ASSUME m.input.kind = "TunnelUp", eng.phase = "Starting", eng'.phase = "Connected",
               eng'.profile = eng.profile, eng'.active = eng.active, work' = work
        PROVE  Connection!Establish
    <3>1. UpAndDone
      BY <1>1, <1>2, <1>4, <2>1, <2>7, FreshReport
    <3>2. eng.profile \in Profiles /\ tunnel = Tunnel(eng.profile, eng.active)
      BY <1>6, <2>7, <3>1 DEF InUse, UpAndDone, Carried, Using
    <3>3. tunnel # NoTunnel
      BY <3>2, ProfilesAssumption DEF Tunnel, NoTunnel
    <3>4. Claimed' = tunnel
      BY <2>7, <3>2 DEF Claimed, Tunnel
    <3>5. (WorkLeft' = WorkLeft) /\ ~WorkLeft
      BY <1>7, <2>7, <3>1, QueuedIsLeft DEF WorkLeft, UpAndDone
    <3>6. Course = "seeking" /\ Course' = "on"
      BY <2>7, CourseIs, NextCourseIs
    <3> QED BY <1>3, <1>7, <3>3, <3>4, <3>5, <3>6 DEF Connection!Establish
  <2>8. ASSUME m.input.kind = "RaceFinished", eng.phase \in Racing, eng'.phase \in AtRest,
               work' = work
        PROVE  Connection!GiveUp
    <3>1. RacingAndDone
      BY <1>1, <1>2, <1>4, <2>1, <2>8, FreshReport
    <3>2. tunnel = NoTunnel
      BY <3>1 DEF RacingAndDone
    <3>3. (WorkLeft' = WorkLeft) /\ WorkLeft' \in BOOLEAN
      BY <1>7, <2>8, QueuedIsLeft DEF WorkLeft
    <3>4. Course # "rest" /\ Course' = "rest" /\ Claimed' = NoTunnel
      <4>1. eng.phase \notin AtRest /\ eng'.phase # "Connected"
        BY <2>8 DEF Racing, AtRest
      <4> QED BY <2>8, <4>1, CourseIs, NextCourseIs
    <3> QED BY <1>3, <1>7, <3>2, <3>3, <3>4 DEF Connection!GiveUp
  <2> QED BY <2>2, <2>4, <2>5, <2>6, <2>7, <2>8 DEF Rests, Connection!ConnectionNext
<1> QED BY <1>8, <1>9

\* The tunnel that is up has a profile and an endpoint.
WholeTunnel == tunnel \in [profile: Profiles, endpoint: Endpoints] \cup {NoTunnel}

\* Only the executor changes it, and to what its item says.
LEMMA NextWhole == TInv /\ WholeTunnel /\ [Next]_vars => WholeTunnel'
<1> SUFFICES ASSUME TInv, WholeTunnel, [Next]_vars PROVE WholeTunnel'
  OBVIOUS
<1>1. NoTunnel' = NoTunnel
  BY DEF NoTunnel
<1>2. ASSUME tunnel' = tunnel \/ tunnel' = NoTunnel PROVE WholeTunnel'
  BY <1>1, <1>2 DEF WholeTunnel
<1>3. ASSUME exec.item.kind \in Bringing, tunnel' = Tunnel(exec.item.profile, exec.item.endpoint)
      PROVE  WholeTunnel'
  <2>1. exec.item \in WorkItems
    BY DEF TInv, TypeOK
  <2>2. exec.item.profile \in Profiles /\ exec.item.endpoint \in Endpoints
    BY <1>3, <2>1 DEF WorkItems, Bringing
  <2> QED BY <1>3, <2>2 DEF WholeTunnel, Tunnel
<1>4. CASE StartSucceeds
  BY <1>3, <1>4 DEF StartSucceeds, Bringing
<1>5. CASE MoveTried
  <2>1. exec.item.kind \in Bringing
    BY <1>5 DEF MoveTried, Bringing
  <2>2. tunnel' = Tunnel(exec.item.profile, exec.item.endpoint) \/ tunnel' = NoTunnel
    BY <1>5 DEF MoveTried
  <2> QED BY <1>2, <1>3, <2>1, <2>2
<1>6. CASE StartFails \/ StopDone
  BY <1>2, <1>6 DEF StartFails, StopDone
<1>7. CASE TakeWork \/ ReachDone \/ SendReport
  BY <1>2, <1>7 DEF TakeWork, ReachDone, SendReport
<1>8. CASE Act
  BY <1>2, <1>8 DEF Act, TakeMessage, Publish, ClearConnecting, execVars
<1>9. CASE Request \/ Serve
  BY <1>2, <1>9 DEF Request, Serve, AskConnect, AskDisconnect, AskShutdown, JudgeConnect,
                    SendConnect, AnswerDisconnect, execVars
<1>10. CASE RunRace \/ Watch
  BY <1>2, <1>10 DEF RunRace, Watch, RaceDone, RaceReports, MonitorChecks, MonitorLooks,
                     MonitorSends, execVars
<1>11. CASE UNCHANGED vars
  BY <1>2, <1>11 DEF vars, execVars
<1> QED BY <1>4, <1>5, <1>6, <1>7, <1>8, <1>9, <1>10, <1>11 DEF Next, Execute

\* Steps of the handle and of the tasks that put no connect in the mailbox.
LEMMA MailNotSeen ==
    ASSUME Awaited' = Awaited, eng' = eng, work' = work, exec'.item = exec.item,
           tunnel' = tunnel, Life' = Life
    PROVE  UNCHANGED Connection!connectionVars
BY SameUnlessAsked, NotSeen

\* A connect that was judged at rest and got into the mailbox is the asking.
LEMMA SendConnectIsAsk ==
    ASSUME TInv, CInv, SendConnect
    PROVE  Connection!Ask \/ UNCHANGED Connection!connectionVars
<1>1. /\ eng' = eng /\ work' = work /\ exec' = exec /\ tunnel' = tunnel
      /\ actor' = actor /\ stopping' = stopping /\ client.pc = "judged"
  BY DEF SendConnect, actorVars, execVars
<1>2. Life' = Life
  BY <1>1, SameLife
<1>3. Course' = Course /\ Claimed' = Claimed /\ (WorkLeft' = WorkLeft)
  BY <1>1, SameUnlessAsked
<1>4. CASE mailbox' = mailbox
  <2>1. Awaited' = Awaited
    BY <1>4, SameAwaited
  <2> QED BY <1>1, <1>2, <1>3, <2>1, NotSeen
<1>5. CASE mailbox' = Append(mailbox, ConnectMsg(client.profile))
  <2>1. ConnectMsg(client.profile) \in Messages /\ ConnectMsg(client.profile).kind = "Connect"
    BY DEF ConnectMsg, Messages, TInv, TypeOK, Clients
  <2>2. mailbox \in Seq(Messages)
    BY DEF TInv, TypeOK
  <2>3. ConnectAt(mailbox') = ConnectAt(mailbox) \cup {Len(mailbox) + 1}
    BY <1>5, <2>1, <2>2, AppendConnect
  <2>4. Awaited'
    BY <2>3, AwaitedIs
  <2>5. ~Awaited /\ eng.phase \in AtRest
    BY <1>1, AwaitedIs DEF CInv, OneOwner, Claiming, Sent, RestWhenJudged
  <2>6. Course = "rest"
    BY <2>5 DEF Course
  <2>7. Awaited' = TRUE
    BY <2>4 DEF Awaited
  <2> QED BY <1>1, <1>2, <1>3, <2>5, <2>6, <2>7 DEF Connection!Ask
<1> QED BY <1>4, <1>5 DEF SendConnect

\* The other steps of a request: at most a message that is not a connect.
LEMMA RequestNotSeen ==
    ASSUME TInv, Request \/ JudgeConnect \/ AnswerDisconnect
    PROVE  UNCHANGED Connection!connectionVars
<1>1. /\ eng' = eng /\ work' = work /\ exec' = exec /\ tunnel' = tunnel /\ actor' = actor
      /\ stopping' = stopping \/ (stopping = "no" /\ stopping' = "asked")
  BY DEF Request, AskConnect, AskDisconnect, AskShutdown, JudgeConnect, AnswerDisconnect,
         actorVars, execVars
<1>2. Life' = Life
  BY <1>1 DEF Life
<1>3. DisconnectMsg \in Messages /\ DisconnectMsg.kind # "Connect"
      /\ ShutdownMsg \in Messages /\ ShutdownMsg.kind # "Connect"
  BY DEF DisconnectMsg, ShutdownMsg, Messages
<1>4. \/ mailbox' = mailbox \/ mailbox' = Append(mailbox, DisconnectMsg)
      \/ mailbox' = Append(mailbox, ShutdownMsg)
  BY DEF Request, AskConnect, AskDisconnect, AskShutdown, JudgeConnect, AnswerDisconnect
<1>5. Awaited' = Awaited
  BY <1>3, <1>4, OtherMail
<1> QED BY <1>1, <1>2, <1>5, MailNotSeen

\* With the actor the mailbox goes, and a connect that was in it.
LEMMA PublishIsDrop ==
    ASSUME Publish
    PROVE  Connection!Drop \/ UNCHANGED Connection!connectionVars
<1>1. /\ eng' = eng /\ work' = work /\ exec' = exec /\ tunnel' = tunnel /\ stopping' = stopping
      /\ mailbox' = mailbox \/ (actor = "publishLast" /\ mailbox' = <<>>)
  BY DEF Publish, execVars
<1>2. Life' = Life
  BY <1>1 DEF Publish, AfterPublish, Life
<1>3. Course' = Course /\ Claimed' = Claimed /\ (WorkLeft' = WorkLeft)
  BY <1>1, SameUnlessAsked
<1>4. CASE mailbox' = mailbox
  <2>1. Awaited' = Awaited
    BY <1>4, SameAwaited
  <2> QED BY <1>1, <1>2, <1>3, <2>1, NotSeen
<1>5. CASE actor = "publishLast" /\ mailbox' = <<>>
  <2>1. ~Awaited'
    BY <1>5 DEF Awaited
  <2>2. (Awaited' = FALSE) /\ (~Awaited => Awaited' = Awaited)
    BY <2>1 DEF Awaited
  <2>3. Life # "open"
    BY <1>5 DEF Life
  <2>4. CASE Awaited
    BY <1>1, <1>2, <1>3, <2>2, <2>3, <2>4 DEF Connection!Drop
  <2>5. CASE ~Awaited
    BY <1>1, <1>2, <1>3, <2>2, <2>5, NotSeen
  <2> QED BY <2>4, <2>5
<1> QED BY <1>1, <1>4, <1>5

\* Reports on their way to the actor, and what the races and monitors do.
LEMMA TasksNotSeen ==
    ASSUME TInv, ClearConnecting \/ SendReport \/ RunRace \/ Watch
    PROVE  UNCHANGED Connection!connectionVars
<1>1. ASSUME eng' = eng, work' = work, exec'.item = exec.item, tunnel' = tunnel,
             Life' = Life, NEW m \in Reports, mailbox' = mailbox \/ mailbox' = Append(mailbox, m)
      PROVE  UNCHANGED Connection!connectionVars
  <2>1. m \in Messages /\ m.kind # "Connect"
    BY DEF Reports, Messages
  <2>2. Awaited' = Awaited
    BY <1>1, <2>1, OtherMail
  <2> QED BY <1>1, <2>2, MailNotSeen
<1>2. ASSUME eng' = eng, work' = work, exec'.item = exec.item, tunnel' = tunnel,
             Life' = Life, mailbox' = mailbox
      PROVE  UNCHANGED Connection!connectionVars
  BY <1>2, SameAwaited, MailNotSeen
<1>3. CASE ClearConnecting
  <2>1. /\ eng' = eng /\ work' = work /\ exec' = exec /\ tunnel' = tunnel
        /\ stopping' = stopping /\ mailbox' = mailbox /\ actor = "clear" /\ actor' = "recv"
    BY <1>3 DEF ClearConnecting, execVars
  <2>2. Life' = Life
    BY <2>1 DEF Life
  <2> QED BY <1>2, <2>1, <2>2
<1>4. CASE SendReport
  <2>1. exec.out \in Seq(Reports) /\ exec.out # <<>>
        /\ exec \in [item: WorkItems, for: Nat, out: Seq(Reports)]
    BY <1>4 DEF SendReport, TInv, TypeOK
  <2>2. Head(exec.out) \in Reports
    BY <2>1, HeadTailType
  <2>3. /\ eng' = eng /\ work' = work /\ tunnel' = tunnel /\ actor' = actor
        /\ stopping' = stopping /\ exec'.item = exec.item
    BY <1>4, <2>1 DEF SendReport, actorVars
  <2>4. mailbox' = mailbox \/ mailbox' = Append(mailbox, Head(exec.out))
    BY <1>4 DEF SendReport, Deliver
  <2> QED BY <1>1, <2>2, <2>3, <2>4, SameLife
<1>5. ASSUME NEW r \in races, RaceReports(r) PROVE UNCHANGED Connection!connectionVars
  <2>1. r.report \in Reports
    BY <1>5 DEF RaceReports, Running, TInv, TypeOK, RaceTasks
  <2>2. /\ eng' = eng /\ work' = work /\ tunnel' = tunnel /\ actor' = actor
        /\ stopping' = stopping /\ exec' = exec
        /\ mailbox' = mailbox \/ mailbox' = Append(mailbox, r.report)
    BY <1>5 DEF RaceReports, Deliver, actorVars, execVars
  <2> QED BY <1>1, <2>1, <2>2, SameLife
<1>6. ASSUME NEW m \in monitors, MonitorSends(m) PROVE UNCHANGED Connection!connectionVars
  <2>1. m.queue \in Seq(News) /\ m.queue # <<>> /\ m.attempt \in Nat
    BY <1>6 DEF MonitorSends, TInv, TypeOK, HasReport, MonitorTasks
  <2>2. Report(m.attempt, Head(m.queue)) \in Reports
    BY <2>1, HeadTailType, ReportType
  <2>3. /\ eng' = eng /\ work' = work /\ tunnel' = tunnel /\ actor' = actor
        /\ stopping' = stopping /\ exec' = exec
        /\ mailbox' = mailbox \/ mailbox' = Append(mailbox, Report(m.attempt, Head(m.queue)))
    BY <1>6 DEF MonitorSends, Deliver, actorVars, execVars
  <2> QED BY <1>1, <2>2, <2>3, SameLife
<1>7. ASSUME NEW r \in races, RaceDone(r) PROVE UNCHANGED Connection!connectionVars
  <2>1. UNCHANGED <<eng, work, exec, tunnel, actor, stopping, mailbox>>
    BY <1>7 DEF RaceDone, handleVars, actorVars, execVars
  <2> QED BY <1>2, <2>1, SameLife
<1>8. ASSUME NEW m \in monitors, MonitorChecks(m) \/ MonitorLooks(m)
      PROVE  UNCHANGED Connection!connectionVars
  <2>1. UNCHANGED <<eng, work, exec, tunnel, actor, stopping, mailbox>>
    BY <1>8 DEF MonitorChecks, MonitorLooks, handleVars, actorVars, execVars
  <2> QED BY <1>2, <2>1, SameLife
<1> QED BY <1>3, <1>4, <1>5, <1>6, <1>7, <1>8 DEF RunRace, Watch

\* A step of the executor's work: never while connected, and nothing is left
\* up behind the last one of an engine at rest.
LEMMA StepOfWork ==
    ASSUME TInv, AInv, AInv', WholeTunnel', WorkLeft,
           UNCHANGED <<eng, mailbox, actor, stopping>>
    PROVE  Connection!Work
<1>1. eng.phase # "Connected"
  BY DEF AInv, PhaseInv, UpAndDone, WorkLeft
<1>2. Course # "on" /\ Course' = Course /\ Claimed' = Claimed
  BY <1>1, CourseIs DEF Course, Claimed, Tunnel, NoTunnel
<1>3. Awaited' = Awaited
  BY SameAwaited
<1>4. Life' = Life
  BY SameLife
<1>5. tunnel' \in [profile: Profiles, endpoint: Endpoints] \cup {NoTunnel}
  BY DEF WholeTunnel, NoTunnel
<1>6. ASSUME ~WorkLeft', Course = "rest" PROVE tunnel' = NoTunnel
  <2>1. work' = <<>> /\ exec'.item = NoWork
    BY <1>6 DEF WorkLeft, NoWork
  <2>2. eng'.phase \notin Using
    BY <1>6 DEF Course, AtRest, Using
  <2>3. ComesDown'
    BY <2>2 DEF AInv, PhaseInv
  <2>4. Len(work') = 0 /\ exec'.item.kind = "none" /\ NoTunnel' = NoTunnel
    BY <2>1 DEF NoWork, NoTunnel
  <2> QED BY <2>3, <2>4 DEF ComesDown
<1>7. WorkLeft' \in BOOLEAN
  BY DEF WorkLeft
<1> QED BY <1>2, <1>3, <1>4, <1>5, <1>6, <1>7 DEF Connection!Work

\* The executor takes up an item; the barrier is the end of a shutdown.
LEMMA TakeWorkIsSeen ==
    ASSUME TInv, AInv, AInv', WholeTunnel', TakeWork
    PROVE  Connection!Work \/ Connection!Over
<1> DEFINE w == Head(work).do
<1>1. /\ UNCHANGED <<eng, mailbox, actor, tunnel>> /\ exec.item = NoWork /\ work # <<>>
      /\ work' = Tail(work) /\ stopping' = IF w.kind = "Barrier" THEN "done" ELSE stopping
  BY DEF TakeWork, Idle, handleVars, actorVars
<1>2. WorkLeft /\ (WorkLeft = TRUE)
  <2>1. WorkLeft
    BY <1>1 DEF WorkLeft
  <2> QED BY <2>1 DEF WorkLeft
<1>3. CASE w.kind # "Barrier"
  BY <1>1, <1>2, <1>3, StepOfWork
<1>4. CASE w.kind = "Barrier"
  <2>1. stopping' = "done"
    BY <1>1, <1>4
  <2>2. /\ Ending' /\ work' = <<>> /\ Idle' /\ stopping # "done"
    BY <1>1, <2>1 DEF AInv, PhaseInv
  <2>3. /\ eng'.phase = "Idle" /\ exec'.item = NoWork
        /\ actor' \in {"publishLast", "ended"}
    BY <2>2 DEF Ending, Idle, NoWork
  <2>4. ComesDown'
    BY <2>3 DEF AInv, PhaseInv, Using
  <2>5. Len(work') = 0 /\ exec'.item.kind = "none" /\ NoTunnel' = NoTunnel
    BY <2>2, <2>3 DEF NoWork, NoTunnel
  <2>6. tunnel = NoTunnel
    <3>1. tunnel' = NoTunnel
      BY <2>4, <2>5 DEF ComesDown
    <3> QED BY <1>1, <3>1
  <2>7. WorkLeft' = FALSE
    <3>1. ~WorkLeft'
      BY <2>2, <2>3 DEF WorkLeft, NoWork
    <3> QED BY <3>1 DEF WorkLeft
  <2>8. Life = "ending" /\ Life' = "over"
    BY <1>1, <2>1, <2>2, <2>3 DEF Life
  <2>9. Course' = Course /\ Claimed' = Claimed
    BY <1>1 DEF Course, Claimed, Tunnel, NoTunnel
  <2>10. Awaited' = Awaited
    BY <1>1, SameAwaited
  <2> QED BY <1>1, <1>2, <2>6, <2>7, <2>8, <2>9, <2>10 DEF Connection!Over
<1> QED BY <1>3, <1>4

\* Carrying out an item is work, whatever comes of it.
LEMMA ItemIsWork ==
    ASSUME TInv, AInv, AInv', WholeTunnel',
           ReachDone \/ StartSucceeds \/ StartFails \/ MoveTried \/ StopDone
    PROVE  Connection!Work
<1>1. exec.item # NoWork
  <2>1. NoWork.kind = "none"
    BY DEF NoWork
  <2> QED BY <2>1 DEF ReachDone, StartSucceeds, StartFails, MoveTried, StopDone
<1>2. UNCHANGED <<eng, mailbox, actor, stopping>>
  BY DEF ReachDone, StartSucceeds, StartFails, MoveTried, StopDone, handleVars, actorVars
<1> QED BY <1>1, <1>2, StepOfWork DEF WorkLeft

\* No connection before the first connect (spawn).
LEMMA InitIsRest == Init => Connection!ConnectionInit
<1> SUFFICES ASSUME Init PROVE Connection!ConnectionInit
  OBVIOUS
<1>1. /\ eng.phase = "Idle" /\ mailbox = <<>> /\ work = <<>> /\ exec.item = NoWork
      /\ tunnel = NoTunnel /\ stopping = "no" /\ actor = "recv"
  BY DEF Init, NewEngine
<1>2. ~Awaited /\ ~WorkLeft
  BY <1>1 DEF Awaited, WorkLeft
<1>3. Course = "rest" /\ Claimed = NoTunnel /\ Life = "open"
  BY <1>1 DEF Course, Claimed, Life, AtRest
<1> QED BY <1>1, <1>2, <1>3 DEF Connection!ConnectionInit

\* Every step of the orchestrator is one of a connection, or is not seen.
LEMMA NextIsPromised ==
    ASSUME TInv, TInv', CInv, AInv, AInv', WholeTunnel', [Next]_vars
    PROVE  [Connection!ConnectionNext]_(Connection!connectionVars)
<1> SUFFICES Connection!ConnectionNext \/ UNCHANGED Connection!connectionVars
  OBVIOUS
<1>1. CASE UNCHANGED vars
  <2>1. UNCHANGED <<eng, work, exec, tunnel, actor, stopping, mailbox>>
    BY <1>1 DEF vars, handleVars, actorVars, execVars
  <2> QED BY <2>1, SameAwaited, SameLife, MailNotSeen
<1>2. CASE TakeMessage
  <2>1. CASE TakeConnect(Head(mailbox))
    BY <1>2, <2>1, ConnectIsBegin DEF Connection!ConnectionNext
  <2>2. CASE TakeShutdown(Head(mailbox))
    BY <1>2, <2>2, ShutdownIsEnd DEF Connection!ConnectionNext
  <2>3. CASE TakeDisconnect(Head(mailbox))
    BY <1>2, <2>3, DisconnectIsGiveUp
  <2>4. CASE TakeReport(Head(mailbox))
    BY <1>2, <2>4, ReportIsSeen
  <2> QED BY <1>2, <2>1, <2>2, <2>3, <2>4 DEF TakeMessage
<1>3. CASE SendConnect
  BY <1>3, SendConnectIsAsk DEF Connection!ConnectionNext
<1>4. CASE Request \/ JudgeConnect \/ AnswerDisconnect
  BY <1>4, RequestNotSeen
<1>5. CASE Publish
  BY <1>5, PublishIsDrop DEF Connection!ConnectionNext
<1>6. CASE ClearConnecting \/ SendReport \/ RunRace \/ Watch
  BY <1>6, TasksNotSeen
<1>7. CASE TakeWork
  BY <1>7, TakeWorkIsSeen DEF Connection!ConnectionNext
<1>8. CASE ReachDone \/ StartSucceeds \/ StartFails \/ MoveTried \/ StopDone
  BY <1>8, ItemIsWork DEF Connection!ConnectionNext
<1> QED BY <1>1, <1>2, <1>3, <1>4, <1>5, <1>6, <1>7, <1>8 DEF Next, Serve, Act, Execute

\* The actor, the executor, the races and the monitors, however they interleave
\* and however late their reports come, are together one connection: sought
\* only when asked for, carried by the tunnel it names for as long as it is said
\* to be on, taken down when it is given up, and over once the service has
\* stopped (orchestrator.rs:24, orchestrator.rs:431).
THEOREM ConnectionIsAsPromised == Spec => ConnectsAsPromised
<1>1. Init => WholeTunnel
  BY DEF Init, WholeTunnel
<1> QED BY <1>1, InitTInv, NextTInv, InitCInv, NextCInv, InitAInv, NextAInv, NextWhole,
           InitIsRest, NextIsPromised, PTL
    DEF Spec, ConnectsAsPromised, Connection!ConnectionSpec
-----------------------------------------------------------------------------
(* An orchestrator at rest that nobody asks to connect brings nothing up.  *)

\* Nothing is up and nothing is on its way up.
Bare ==
    /\ \A j \in 1..Len(work) : work[j].do.kind \notin Bringing
    /\ exec.item.kind \notin Bringing
    /\ tunnel = NoTunnel

\* What a step at rest puts behind the work there was: nothing, or the barrier
\* of a shutdown (Actor::step).
QueuesNothing ==
    /\ exec' = exec /\ tunnel' = tunnel
    /\ work' = work \/ (Len(work') = Len(work) + 1
                        /\ (\A i \in 1..Len(work) : i \in 1..Len(work') /\ work'[i] = work[i])
                        /\ work'[Len(work) + 1].do = Barrier)

\* With an engine that was at rest and rests afterwards no input asks for work.
LEMMA RestQueuesNothing ==
    ASSUME TInv, NEW in \in Inputs, NEW behind \in {<<>>, <<Barrier>>},
           ActorStep(eng, in, <<>>, behind), eng.phase \in AtRest, eng'.phase \in AtRest,
           exec' = exec, tunnel' = tunnel
    PROVE  QueuesNothing
<1>1. eng \in Engines /\ InUse(eng) /\ attempt \in Nat /\ work \in Seq(Queued)
  BY DEF TInv, TypeOK, Queued
<1>2. PICK r \in Step(eng, in) :
        LET asked == FoldMoves(r.work)
            n == IF asked = <<>> THEN attempt ELSE attempt + 1
            items == IF asked = <<>> THEN behind ELSE <<>> \o asked \o behind
        IN  eng' = r.eng /\ work' = work \o Tagged(n, items)
  BY DEF ActorStep
<1>3. r.work = <<>>
  <2>1. Shape(eng, in, r)
    BY <1>1, StepShape
  <2>2. ~Asks(eng, r.eng, r.work)
    BY <1>2, AsksPhases DEF AtRest, Racing
  <2> QED BY <2>1, <2>2 DEF Shape
<1>4. FoldMoves(r.work) = <<>>
  BY <1>3 DEF FoldMoves
<1>5. work' = work \o Tagged(attempt, behind)
  BY <1>2, <1>4
<1>6. behind \in Seq(WorkItems)
  <2>1. Barrier \in WorkItems
    BY DEF Barrier, WorkItems
  <2>2. <<Barrier>> \in Seq(WorkItems) /\ <<>> \in Seq(WorkItems)
    BY <2>1
  <2> QED BY <2>2
<1>7. Behind(work, work', attempt, behind)
  BY <1>1, <1>5, <1>6, WorkAppended
<1>8. CASE behind = <<>>
  <2>1. Tagged(attempt, behind) = <<>>
    BY <1>8 DEF Tagged
  <2>2. work' = work
    BY <1>1, <1>5, <2>1
  <2> QED BY <2>2 DEF QueuesNothing
<1>9. CASE behind = <<Barrier>>
  <2>1. Len(behind) = 1 /\ behind[1] = Barrier
    BY <1>9
  <2> QED BY <1>7, <2>1 DEF Behind, QueuesNothing
<1> QED BY <1>8, <1>9

\* The actor at rest (Actor::run).
LEMMA ActAtRest ==
    ASSUME TInv, eng.phase \in AtRest, ConnectAt(mailbox) = {}, Act
    PROVE  QueuesNothing
<1>1. eng'.phase \in AtRest
  BY RestsWithoutConnect
<1>2. CASE TakeMessage
  <2> DEFINE m == Head(mailbox)
  <2>0. mailbox \in Seq(Messages) /\ mailbox # <<>> /\ exec' = exec /\ tunnel' = tunnel
    BY <1>2 DEF TakeMessage, TInv, TypeOK
  <2>1. m \in Messages /\ m.kind # "Connect"
    BY <2>0, HeadTailType, TailPlaces
  <2> HIDE DEF m
  <2>2. CASE TakeDisconnect(m)
    <3>1. m \in Inputs
      BY <2>1, <2>2 DEF TakeDisconnect, Messages, Reports, Inputs
    <3> QED BY <1>1, <2>0, <2>2, <3>1, RestQueuesNothing DEF TakeDisconnect
  <2>3. CASE TakeShutdown(m)
    <3>1. DisconnectMsg \in Inputs
      BY DEF DisconnectMsg, Inputs
    <3> QED BY <1>1, <2>0, <2>3, <3>1, RestQueuesNothing DEF TakeShutdown
  <2>4. CASE TakeReport(m)
    <3>1. m.input \in Inputs
      BY <2>1, <2>4 DEF TakeReport, Messages, Reports, News
    <3>2. CASE Fresh(m)
      BY <1>1, <2>0, <2>4, <3>1, <3>2, RestQueuesNothing DEF TakeReport
    <3>3. CASE ~Fresh(m)
      BY <2>0, <2>4, <3>3 DEF TakeReport, QueuesNothing
    <3> QED BY <3>2, <3>3
  <2> QED BY <1>2, <2>1, <2>2, <2>3, <2>4 DEF TakeMessage, TakeConnect, m
<1>3. CASE Publish \/ ClearConnecting
  BY <1>3 DEF Publish, ClearConnecting, execVars, QueuesNothing
<1> QED BY <1>2, <1>3 DEF Act

\* What is queued at rest changes nothing of what is to come.
LEMMA QueuesNothingKeeps ==
    ASSUME TInv, QueuesNothing
    PROVE  (Bare => Bare') /\ (ComesDown => ComesDown')
<1>0. Len(work) \in Nat /\ NoTunnel' = NoTunnel /\ exec' = exec /\ tunnel' = tunnel
  BY DEF TInv, TypeOK, QueuesNothing, NoTunnel
<1>1. CASE work' = work
  BY <1>0, <1>1 DEF Bare, ComesDown
<1>2. CASE work' # work
  <2>1. /\ Len(work') = Len(work) + 1
        /\ \A i \in 1..Len(work) : i \in 1..Len(work') /\ work'[i] = work[i]
        /\ work'[Len(work) + 1].do.kind = "Barrier"
    BY <1>2 DEF QueuesNothing, Barrier
  <2>2. \A j \in 1..Len(work') : j \in 1..Len(work) \/ j = Len(work) + 1
    BY <1>0, <2>1
  <2>3. ASSUME NEW j \in 1..Len(work'), j \notin 1..Len(work)
        PROVE  work'[j].do.kind \notin Bringing
    BY <2>1, <2>2, <2>3 DEF Bringing
  <2>4. Bare => Bare'
    BY <1>0, <2>1, <2>3 DEF Bare
  <2>5. ComesDown => ComesDown'
    <3>1. CASE \E i \in 1..Len(work) :
                  /\ work[i].do.kind = "StopTunnel"
                  /\ \A j \in 1..Len(work) : j > i => work[j].do.kind \notin Bringing
      <4>1. PICK i \in 1..Len(work) :
                  /\ work[i].do.kind = "StopTunnel"
                  /\ \A j \in 1..Len(work) : j > i => work[j].do.kind \notin Bringing
        BY <3>1
      <4>2. i \in 1..Len(work') /\ work'[i].do.kind = "StopTunnel"
        BY <2>1, <4>1
      <4>3. \A j \in 1..Len(work') : j > i => work'[j].do.kind \notin Bringing
        BY <2>1, <2>3, <4>1
      <4> QED BY <4>2, <4>3 DEF ComesDown
    <3>2. CASE /\ \A j \in 1..Len(work) : work[j].do.kind \notin Bringing
               /\ \/ exec.item.kind = "StopTunnel"
                  \/ exec.item.kind \notin Bringing /\ tunnel = NoTunnel
      <4>1. \A j \in 1..Len(work') : work'[j].do.kind \notin Bringing
        BY <2>1, <2>3, <3>2
      <4> QED BY <1>0, <3>2, <4>1 DEF ComesDown
    <3> QED BY <3>1, <3>2 DEF ComesDown
  <2> QED BY <2>4, <2>5
<1> QED BY <1>1, <1>2

\* The executor only carries out what is queued (execute).
LEMMA ExecuteKeepsDown ==
    ASSUME TInv, Execute
    PROVE  (Bare => Bare') /\ (ComesDown => ComesDown')
<1>0. /\ work \in Seq(Queued) /\ Len(work) \in Nat /\ NoTunnel' = NoTunnel
      /\ exec.item \in WorkItems
      /\ exec \in [item: WorkItems, for: Nat, out: Seq(Reports)]
  BY DEF TInv, TypeOK, NoTunnel, Queued
<1>1. CASE TakeWork
  <2>1. work # <<>> /\ work' = Tail(work) /\ tunnel' = tunnel /\ exec.item = NoWork
    BY <1>1 DEF TakeWork, Idle
  <2>2. /\ Len(work) > 0 /\ Len(work') = Len(work) - 1 /\ Head(work) = work[1]
        /\ \A i \in 1..Len(work') : work'[i] = work[i + 1]
    BY <1>0, <2>1
  <2>3. exec'.item = work[1].do \/ exec'.item = exec.item
    BY <1>0, <1>1, <2>2 DEF TakeWork
  <2>4. work[1].do.kind = "StopTunnel" => exec'.item.kind = "StopTunnel"
    BY <1>1, <2>2 DEF TakeWork
  <2>5. exec.item.kind = "none"
    BY <2>1 DEF NoWork
  <2>6. \A i \in 1..Len(work') : i + 1 \in 1..Len(work)
    BY <1>0, <2>2
  <2>7. Bare => Bare'
    BY <1>0, <2>1, <2>2, <2>3, <2>6 DEF Bare
  <2>8. ComesDown => ComesDown'
    <3>1. CASE \E i \in 1..Len(work) :
                  /\ work[i].do.kind = "StopTunnel"
                  /\ \A j \in 1..Len(work) : j > i => work[j].do.kind \notin Bringing
      <4>1. PICK i \in 1..Len(work) :
                  /\ work[i].do.kind = "StopTunnel"
                  /\ \A j \in 1..Len(work) : j > i => work[j].do.kind \notin Bringing
        BY <3>1
      <4>2. CASE i = 1
        <5>1. \A j \in 1..Len(work') : work'[j].do.kind \notin Bringing
          <6> TAKE j \in 1..Len(work')
          <6>1. j + 1 \in 1..Len(work) /\ j + 1 > i /\ work'[j] = work[j + 1]
            BY <1>0, <2>2, <2>6, <4>2
          <6> QED BY <4>1, <6>1
        <5> QED BY <2>4, <4>1, <4>2, <5>1 DEF ComesDown
      <4>3. CASE i # 1
        <5>1. i - 1 \in 1..Len(work') /\ work'[i - 1].do.kind = "StopTunnel"
          BY <1>0, <2>2, <4>1, <4>3
        <5>2. \A j \in 1..Len(work') : j > i - 1 => work'[j].do.kind \notin Bringing
          BY <1>0, <2>2, <2>6, <4>1
        <5> QED BY <5>1, <5>2 DEF ComesDown
      <4> QED BY <4>2, <4>3
    <3>2. CASE /\ \A j \in 1..Len(work) : work[j].do.kind \notin Bringing
               /\ \/ exec.item.kind = "StopTunnel"
                  \/ exec.item.kind \notin Bringing /\ tunnel = NoTunnel
      <4>1. Bare'
        BY <2>5, <2>7, <3>2 DEF Bare
      <4> QED BY <4>1 DEF Bare, ComesDown
    <3> QED BY <3>1, <3>2 DEF ComesDown
  <2> QED BY <2>7, <2>8
<1>2. ASSUME work' = work, exec.item.kind \in Bringing PROVE (Bare => Bare') /\ (ComesDown => ComesDown')
  BY <1>2 DEF Bare, ComesDown, Bringing
<1>3. CASE StartSucceeds \/ StartFails \/ MoveTried
  BY <1>2, <1>3 DEF StartSucceeds, StartFails, MoveTried, Bringing
<1>4. CASE ReachDone \/ SendReport
  <2>1. work' = work /\ tunnel' = tunnel
    BY <1>4 DEF ReachDone, SendReport
  <2>2. exec'.item = exec.item \/ (exec'.item = NoWork /\ exec.item.kind = "Reach")
    BY <1>0, <1>4 DEF ReachDone, SendReport, Done
  <2> QED BY <1>0, <2>1, <2>2 DEF Bare, ComesDown, Bringing, NoWork
<1>5. CASE StopDone
  <2>1. work' = work /\ tunnel' = NoTunnel /\ exec'.item = NoWork
    BY <1>0, <1>5 DEF StopDone, Done
  <2> QED BY <1>0, <2>1 DEF Bare, ComesDown, Bringing, NoWork
<1> QED BY <1>1, <1>3, <1>4, <1>5 DEF Execute

\* So whatever still runs of an orchestrator at rest brings no tunnel up, and
\* takes down the one that is up (Actor::run, execute).
LEMMA RestsDown ==
    ASSUME TInv, eng.phase \in AtRest, ConnectAt(mailbox) = {},
           Act \/ Execute \/ RunRace \/ Watch
    PROVE  (Bare => Bare') /\ (ComesDown => ComesDown')
<1>1. CASE RunRace \/ Watch
  <2>1. work' = work /\ exec' = exec /\ tunnel' = tunnel /\ NoTunnel' = NoTunnel
    BY <1>1 DEF RunRace, Watch, RaceDone, RaceReports, MonitorChecks, MonitorLooks,
                MonitorSends, execVars, NoTunnel
  <2> QED BY <2>1 DEF Bare, ComesDown
<1> QED BY <1>1, ActAtRest, QueuesNothingKeeps, ExecuteKeepsDown

-----------------------------------------------------------------------------
(* NotConnected.  A disconnect reads what is shown and then the flag; a    *)
(* connect that is published in between shows in neither (the run          *)
(* orch_snapshot).  That is the only way to be answered wrongly.           *)

\* What is shown as disconnected is, except between taking a connect and
\* publishing what came of it.
ShownIdle == shown.status = "Disconnected" /\ actor # "publishConnect" => eng.phase = "Idle"

\* What the actor takes up (Actor::run).
LEMMA TakeMessageIdle ==
    ASSUME TInv, ShownIdle, TakeMessage
    PROVE  ShownIdle'
<1> DEFINE m == Head(mailbox)
<1>0. /\ mailbox \in Seq(Messages) /\ mailbox # <<>> /\ shown' = shown
      /\ actor = "recv" /\ eng \in Engines
  BY DEF TakeMessage, TInv, TypeOK
<1>1. m \in Messages
  BY <1>0, HeadTailType
<1> HIDE DEF m
<1>2. CASE TakeConnect(m)
  BY <1>2 DEF TakeConnect, ShownIdle
<1>3. ASSUME NEW in, NEW behind, in.kind = "Disconnect", ActorStep(eng, in, <<>>, behind)
      PROVE  eng'.phase = "Idle"
  <2>1. PICK r \in Step(eng, in) : eng' = r.eng
    BY <1>3 DEF ActorStep
  <2>2. r = Disconnect(eng)
    BY <1>3, <2>1 DEF Step
  <2> QED BY <1>0, <2>1, <2>2, DisconnectShape
<1>4. CASE TakeDisconnect(m)
  BY <1>3, <1>4 DEF TakeDisconnect, ShownIdle
<1>5. CASE TakeShutdown(m)
  <2>1. DisconnectMsg.kind = "Disconnect"
    BY DEF DisconnectMsg
  <2> QED BY <1>3, <1>5, <2>1 DEF TakeShutdown, ShownIdle
<1>6. CASE TakeReport(m)
  <2>1. m.input \in News
    BY <1>1, <1>6 DEF TakeReport, Messages, Reports
  <2>2. CASE shown.status = "Disconnected" /\ Fresh(m)
    <3>1. eng.phase = "Idle" /\ eng.phase \in AtRest
      BY <1>0, <2>2 DEF ShownIdle, AtRest
    <3>2. PICK r \in Step(eng, m.input) : eng' = r.eng
      BY <1>6, <2>2 DEF TakeReport, ActorStep
    <3>3. r.eng.phase = eng.phase
      BY <1>0, <2>1, <3>1, <3>2, RestKept
    <3> QED BY <3>1, <3>2, <3>3 DEF ShownIdle
  <2>3. CASE ~(shown.status = "Disconnected" /\ Fresh(m))
    BY <1>0, <1>6, <2>3 DEF TakeReport, ShownIdle
  <2> QED BY <2>2, <2>3
<1> QED BY <1>2, <1>4, <1>5, <1>6 DEF TakeMessage, m

\* Nobody else shows a state or moves the engine.
LEMMA NextIdle == TInv /\ ShownIdle /\ [Next]_vars => ShownIdle'
<1> SUFFICES ASSUME TInv, ShownIdle, [Next]_vars PROVE ShownIdle'
  OBVIOUS
<1>1. CASE UNCHANGED <<shown, actor, eng>>
  BY <1>1 DEF ShownIdle
<1>2. CASE Publish
  <2>1. shown'.status = Status(eng) /\ eng' = eng
    BY <1>2 DEF Publish, SnapshotOf
  <2> QED BY <2>1 DEF Status, ShownIdle
<1>3. CASE ClearConnecting
  BY <1>3 DEF ClearConnecting, ShownIdle
<1>4. CASE Request \/ Serve
  BY <1>1, <1>4 DEF Request, Serve, AskConnect, AskDisconnect, AskShutdown, JudgeConnect,
                    SendConnect, AnswerDisconnect, actorVars
<1>5. CASE Execute
  BY <1>1, <1>5 DEF Execute, TakeWork, ReachDone, StartSucceeds, StartFails, MoveTried, StopDone,
                    SendReport, handleVars, actorVars
<1>6. CASE RunRace \/ Watch
  BY <1>1, <1>6 DEF RunRace, Watch, RaceDone, RaceReports, MonitorChecks, MonitorLooks,
                    MonitorSends, handleVars, actorVars
<1>7. CASE UNCHANGED vars
  BY <1>1, <1>7 DEF vars, handleVars, actorVars
<1> QED BY <1>2, <1>3, <1>4, <1>5, <1>6, <1>7, TakeMessageIdle DEF Next, Act

\* A disconnect whose first read still stands when it reads the flag is
\* answered NotConnected only while nothing is connected or being connected
\* (orchestrator.rs:288, :328).
THEOREM NotConnectedUnlessPublished ==
    Spec /\ [][client.pc = "looked" /\ client'.pc = "free" => client.seen = shown.status]_vars
        => NotConnectedIsTrue
<1>1. ASSUME CInv, ShownIdle,
             [client.pc = "looked" /\ client'.pc = "free" => client.seen = shown.status]_vars
      PROVE  [client.pc = "looked" /\ client'.pc = "free"
                /\ Look(client.seen, connecting) = "Disconnected" =>
                   /\ eng.phase = "Idle"
                   /\ \A i \in 1..Len(mailbox) : mailbox[i].kind # "Connect"]_vars
  <2> SUFFICES ASSUME client.seen = shown.status, Look(client.seen, connecting) = "Disconnected"
               PROVE  /\ eng.phase = "Idle"
                      /\ \A i \in 1..Len(mailbox) : mailbox[i].kind # "Connect"
    BY <1>1
  <2>1. ~connecting /\ shown.status = "Disconnected"
    BY DEF Look
  <2>2. ~Sent /\ ~Taking
    BY <1>1, <2>1 DEF CInv, OneOwner
  <2> QED BY <1>1, <2>1, <2>2 DEF ShownIdle, Sent, Taking, ConnectAt
<1>2. Init => ShownIdle
  BY DEF Init, NewEngine, ShownIdle
<1> QED BY <1>1, <1>2, InitTInv, NextTInv, InitCInv, NextCInv, NextIdle, PTL
    DEF Spec, NotConnectedIsTrue
=============================================================================

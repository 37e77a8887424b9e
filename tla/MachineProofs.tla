--------------------------- MODULE MachineProofs ---------------------------
(***************************************************************************)
(* Proofs about what a tunnel does to the machine (MachineLife), for any   *)
(* addresses, gateways and number of records, and a crash at any step: the *)
(* journal's invariant holds here too, a peer never sends without its host *)
(* routes, a take-down leaves only what could not be removed, and the      *)
(* service connects only on a machine that was restored.                   *)
(***************************************************************************)
EXTENDS MachineLife, UndoJournalProofs, FiniteSetTheorems

-----------------------------------------------------------------------------
(* Steps in a sequence.                                                    *)

\* Steps of a take-down, of a start once it has something to take down, and of
\* a move to another gateway.
Downs == {"stopPeer", "remove", "undo", "kill", "replay"}
Ups == {"reap", "spawn", "adapter", "discard", "touch", "install", "check", "record", "peer"}
Moves == {"install", "check", "record", "remove", "undo", "moved"}

Names == Downs \cup Ups \cup Moves \cup {"prepare", "open", "verdict"}
Words == Cores \cup {"start", "stop", "down", "journal", "none"}
StepArgs == Words \cup Gateways \cup Routes \cup (BOOLEAN \X Gateways) \cup Entries
AllSteps == [do : Names, arg : StepArgs]

\* The names of any two steps, in the order in which they come, are a pair of R.
Follows(q, R) == \A i, j \in DOMAIN q : i < j => <<q[i].do, q[j].do>> \in R

LEMMA RestFacts ==
    ASSUME NEW S, NEW q \in Seq(S), q # <<>>
    PROVE  /\ Tail(q) \in Seq(S) /\ Head(q) \in S /\ Head(q) \in Range(q)
           /\ Range(q) = {Head(q)} \cup Range(Tail(q))
           /\ \A R : Follows(q, R) =>
                 Follows(Tail(q), R) /\ \A s \in Range(Tail(q)) : <<Head(q).do, s.do>> \in R
<1>1. Tail(q) \in Seq(S) /\ Head(q) = q[1] /\ Len(q) \in Nat \ {0} /\ DOMAIN q = 1 .. Len(q)
      /\ Len(Tail(q)) = Len(q) - 1 /\ \A i \in 1 .. Len(q) - 1 : Tail(q)[i] = q[i + 1]
  OBVIOUS
<1>2. \A i \in DOMAIN q : i = 1 \/ (i - 1 \in 1 .. Len(q) - 1 /\ Tail(q)[i - 1] = q[i])
  BY <1>1
<1>3. \A i \in DOMAIN Tail(q) : i + 1 \in DOMAIN q /\ 1 < i + 1 /\ Tail(q)[i] = q[i + 1]
  BY <1>1
<1>4. 1 \in DOMAIN q /\ DOMAIN Tail(q) = 1 .. Len(q) - 1
  BY <1>1
<1>5. Range(q) = {Head(q)} \cup Range(Tail(q))
  BY <1>1, <1>2, <1>3, <1>4 DEF Range
<1>6. ASSUME NEW R, Follows(q, R)
      PROVE  Follows(Tail(q), R) /\ \A s \in Range(Tail(q)) : <<Head(q).do, s.do>> \in R
  <2>1. ASSUME NEW i \in DOMAIN Tail(q), NEW j \in DOMAIN Tail(q), i < j
        PROVE  <<Tail(q)[i].do, Tail(q)[j].do>> \in R
    <3>1. i + 1 \in DOMAIN q /\ j + 1 \in DOMAIN q /\ i + 1 < j + 1
      BY <1>1, <1>3, <1>4, <2>1
    <3>2. <<q[i + 1].do, q[j + 1].do>> \in R
      BY <1>6, <3>1 DEF Follows
    <3> QED BY <1>3, <3>2
  <2>2. ASSUME NEW i \in DOMAIN Tail(q)
        PROVE  <<Head(q).do, Tail(q)[i].do>> \in R
    <3>1. <<q[1].do, q[i + 1].do>> \in R
      BY <1>3, <1>4, <1>6 DEF Follows
    <3> QED BY <1>1, <1>3, <3>1
  <2> QED BY <2>1, <2>2 DEF Follows, Range
<1> QED BY <1>1, <1>4, <1>5, <1>6 DEF Range

LEMMA ConcatFacts ==
    ASSUME NEW S, NEW p \in Seq(S), NEW q \in Seq(S)
    PROVE  /\ p \o q \in Seq(S) /\ Range(p \o q) = Range(p) \cup Range(q)
           /\ \A R : /\ Follows(p, R) /\ Follows(q, R)
                     /\ \A s \in Range(p), t \in Range(q) : <<s.do, t.do>> \in R
                     => Follows(p \o q, R)
<1>1. /\ p \o q \in Seq(S) /\ Len(p) \in Nat /\ Len(q) \in Nat
      /\ DOMAIN (p \o q) = 1 .. Len(p) + Len(q) /\ DOMAIN p = 1 .. Len(p) /\ DOMAIN q = 1 .. Len(q)
  OBVIOUS
<1>2. \A k \in 1 .. Len(p) : k \in 1 .. Len(p) + Len(q) /\ (p \o q)[k] = p[k]
  BY <1>1
<1>3. \A k \in 1 .. Len(q) :
          Len(p) + k \in 1 .. Len(p) + Len(q) /\ (p \o q)[Len(p) + k] = q[k]
  BY <1>1
<1>4. \A k \in 1 .. Len(p) + Len(q) :
          k \in 1 .. Len(p) \/ (k - Len(p) \in 1 .. Len(q) /\ (p \o q)[k] = q[k - Len(p)])
  BY <1>1
<1>5. Range(p \o q) = Range(p) \cup Range(q)
  BY <1>1, <1>2, <1>3, <1>4 DEF Range
<1>6. ASSUME NEW R, Follows(p, R), Follows(q, R),
             \A s \in Range(p), t \in Range(q) : <<s.do, t.do>> \in R
      PROVE  Follows(p \o q, R)
  <2>1. SUFFICES ASSUME NEW i \in 1 .. Len(p) + Len(q), NEW j \in 1 .. Len(p) + Len(q), i < j
                 PROVE  <<(p \o q)[i].do, (p \o q)[j].do>> \in R
    BY <1>1 DEF Follows
  <2>2. CASE j \in 1 .. Len(p)
    <3>1. i \in 1 .. Len(p)
      BY <1>1, <2>1, <2>2
    <3>2. <<p[i].do, p[j].do>> \in R
      BY <1>1, <1>6, <2>1, <2>2, <3>1 DEF Follows
    <3> QED BY <1>2, <2>2, <3>1, <3>2
  <2>3. CASE i \in 1 .. Len(p) /\ j \notin 1 .. Len(p)
    <3>1. j - Len(p) \in 1 .. Len(q) /\ (p \o q)[j] = q[j - Len(p)] /\ (p \o q)[i] = p[i]
      BY <1>2, <1>4, <2>3
    <3>2. p[i] \in Range(p) /\ q[j - Len(p)] \in Range(q)
      BY <1>1, <2>3, <3>1 DEF Range
    <3> QED BY <1>6, <3>1, <3>2
  <2>4. CASE i \notin 1 .. Len(p)
    <3>1. j \notin 1 .. Len(p)
      BY <1>1, <2>1, <2>4
    <3>2. /\ j - Len(p) \in 1 .. Len(q) /\ (p \o q)[j] = q[j - Len(p)]
          /\ i - Len(p) \in 1 .. Len(q) /\ (p \o q)[i] = q[i - Len(p)]
      BY <1>4, <2>4, <3>1
    <3>3. i - Len(p) < j - Len(p)
      BY <1>1, <2>1
    <3>4. <<q[i - Len(p)].do, q[j - Len(p)].do>> \in R
      BY <1>1, <1>6, <3>2, <3>3 DEF Follows
    <3> QED BY <3>2, <3>4
  <2> QED BY <2>2, <2>3, <2>4
<1> QED BY <1>1, <1>5, <1>6

LEMMA NoneFacts ==
    ASSUME NEW S
    PROVE  <<>> \in Seq(S) /\ Range(<<>>) = {} /\ \A R : Follows(<<>>, R)
BY DEF Range, Follows

LEMMA OneFacts ==
    ASSUME NEW S, NEW s \in S
    PROVE  <<s>> \in Seq(S) /\ Range(<<s>>) = {s} /\ \A R : Follows(<<s>>, R)
<1>1. DOMAIN <<s>> = {1} /\ <<s>>[1] = s /\ <<s>> \in Seq(S)
  OBVIOUS
<1> QED BY <1>1 DEF Range, Follows

LEMMA TwoFacts ==
    ASSUME NEW S, NEW s \in S, NEW t \in S
    PROVE  /\ <<s, t>> \in Seq(S) /\ Range(<<s, t>>) = {s, t}
           /\ \A R : <<s.do, t.do>> \in R => Follows(<<s, t>>, R)
<1>1. DOMAIN <<s, t>> = {1, 2} /\ <<s, t>>[1] = s /\ <<s, t>>[2] = t /\ <<s, t>> \in Seq(S)
  OBVIOUS
<1> QED BY <1>1 DEF Range, Follows

LEMMA ThreeFacts ==
    ASSUME NEW S, NEW s \in S, NEW t \in S, NEW u \in S
    PROVE  /\ <<s, t, u>> \in Seq(S) /\ Range(<<s, t, u>>) = {s, t, u}
           /\ \A R : {<<s.do, t.do>>, <<s.do, u.do>>, <<t.do, u.do>>} \subseteq R
                     => Follows(<<s, t, u>>, R)
<1>1. /\ DOMAIN <<s, t, u>> = {1, 2, 3} /\ <<s, t, u>> \in Seq(S)
      /\ <<s, t, u>>[1] = s /\ <<s, t, u>>[2] = t /\ <<s, t, u>>[3] = u
  OBVIOUS
<1> QED BY <1>1 DEF Range, Follows

\* A loop over a finite set: one step for each member, and no other.
LEMMA EachFacts ==
    ASSUME NEW name \in Names, NEW args \in SUBSET StepArgs, IsFiniteSet(args)
    PROVE  /\ Each(name, args) \in Seq(AllSteps)
           /\ Range(Each(name, args)) = {Step(name, x) : x \in args}
           /\ \A R : <<name, name>> \in R => Follows(Each(name, args), R)
<1> DEFINE T == {Step(name, x) : x \in args}
           n == Cardinality(T)
<1>1. T \subseteq AllSteps
  BY DEF AllSteps, Step
<1>2. IsFiniteSet(T)
  <2>1. [x \in args |-> Step(name, x)] \in Surjection(args, T)
    BY DEF Surjection
  <2> QED BY <2>1, FS_Surjection
<1>3. n \in Nat /\ ExistsBijection(1 .. n, T)
  BY <1>2, FS_CardinalityType
<1> DEFINE f == SetToSeq(T)
<1>4. f \in [1 .. n -> T] /\ IsInjective(f)
  <2>1. \E g \in [1 .. n -> T] : IsInjective(g)
    BY <1>3 DEF ExistsBijection, Bijection, Injection
  <2> QED BY <2>1 DEF SetToSeq
<1>5. f \in Injection(1 .. n, T)
  BY <1>4 DEF Injection
<1>6. IsFiniteSet(1 .. n) /\ Cardinality(1 .. n) = n
  BY <1>3, FS_Interval
<1>7. f \in Surjection(1 .. n, T)
  BY <1>2, <1>5, <1>6, FS_Injection
<1>8. Each(name, args) = f
  BY DEF Each
<1> HIDE DEF T, n, f
<1>9. f \in Seq(T) /\ DOMAIN f = 1 .. n
  BY <1>3, <1>4
<1>10. f \in Seq(AllSteps)
  BY <1>1, <1>3, <1>4
<1>11. Range(f) = T
  BY <1>7 DEF Range, Surjection
<1>12. \A i \in DOMAIN f : f[i].do = name
  BY <1>4 DEF T, Step
<1> QED BY <1>8, <1>10, <1>11, <1>12 DEF Follows, T

-----------------------------------------------------------------------------
(* The inductive invariant.                                                *)

Has(name) == \E s \in Range(todo) : s.do = name

ArgIsRight(s) ==
    /\ s.do \in {"check", "record"} => s.arg \in Routes
    /\ s.do \in {"install", "peer", "moved"} => s.arg \in Gateways
    /\ s.do = "prepare" => s.arg \in BOOLEAN \X Gateways
    /\ s.do \in {"kill", "spawn"} => s.arg \in Cores
    /\ s.do = "undo" => s.arg \in Entries

Runs ==
    [up : BOOLEAN, peered : BOOLEAN, gw : Gateways \cup {"none"}, touched : BOOLEAN,
     owned : SUBSET Entries]

TodoTyped == todo \in Seq(AllSteps) /\ \A s \in Range(todo) : ArgIsRight(s)
RunTyped == run \in Runs /\ IsFiniteSet(run.owned)
CoresTyped == cores \in [Cores -> {"off", "on", "stray"}]

MachineTyped ==
    /\ svc \in {"down", "recovering", "ready", "refusing"}
    /\ TodoTyped /\ RunTyped /\ CoresTyped
    /\ peer \in BOOLEAN

\* What may come after what: a take-down before the start it makes room for, the
\* peer first in a take-down and last in a start; and in a move the routes
\* through the old gateway last.
MayFollow(x, y) ==
    /\ y = "prepare" => x \in Downs
    /\ x = "prepare" => y \in Ups
    /\ y = "stopPeer" => x = "discard"
    /\ x # "peer"
Orderly == {p \in Names \X Names : MayFollow(p[1], p[2])}
OldLast == {p \in Names \X Names : p[1] \in {"remove", "undo"} => p[2] \in {"undo", "moved"}}

\* A start that has a tunnel of its own; and the states in which the machine is
\* being cleared, or is clear.
Starting == doing = "start" /\ ~Has("prepare")
Clearing == doing = "down" \/ (doing = "start" /\ Has("prepare")) \/ (doing = "idle" /\ ~run.up)

\* A move: to another gateway, and of the old routes only those of the old one.
Moving ==
    /\ Has("moved") /\ Follows(todo, OldLast)
    /\ \A s \in Range(todo) :
          /\ s.do \in Moves
          /\ s.do = "moved" => s.arg # run.gw
          /\ s.do = "remove" => s.arg = run.gw
          /\ s.do = "undo" => s.arg.route[2] = run.gw

\* A start that has still to prepare the tunnel it is about to bring up.
Unprepared ==
    /\ doing = "start" /\ Has("discard")
    /\ Has("peer") => Has("install") /\ Has("touch")
    /\ \A s \in Range(todo) : s.do \in Downs \cup Ups \cup {"prepare"}

\* What an operation has still to do.
Shaped ==
    /\ doing \in {"idle", "start", "down", "carry"}
    /\ doing = "idle" => todo = <<>>
    /\ doing = "down" => \A s \in Range(todo) : s.do \in Downs \cup {"discard"}
    /\ Starting => run.up /\ \A s \in Range(todo) : s.do \in Ups
    /\ doing = "carry" => run.up /\ Moving
    /\ Has("prepare") => Unprepared
    /\ Follows(todo, Orderly)
    /\ \A s, t \in Range(todo) : s.do = "install" /\ t.do \in {"peer", "moved"} => s.arg = t.arg
    /\ Has("peer") => Has("touch") \/ run.touched

\* Which step a call of the journal belongs to.
CallsInPlace ==
    /\ op.do = "replay" => todo # <<>> /\ Head(todo).do = "replay"
    /\ op.do = "forget" => todo # <<>> /\ Head(todo).do = "undo"
    /\ op.do \in {"create", "withdraw"} => Starting \/ doing = "carry"
    /\ doing = "idle" => op = NoOp

\* What the replay under way, or one still to come, will look at.
ToReplay ==
    IF op.do = "replay" THEN {e.route : e \in op.left} ELSE IF Has("replay") THEN Routes ELSE {}

\* Everything that is left of a tunnel that is being cleared away will be looked
\* at, or could not be removed.
StraysKnown == \A c \in Cores : cores[c] = "stray" => Thing(c) \in stuck
ConfigKnown == config => Thing("config") \in stuck \/ (Has("discard") /\ ~Has("prepare"))
CoresCleared == Clearing => \A c \in Cores : cores[c] = "on" => Step("kill", c) \in Range(todo)
RoutesCleared == Clearing => Ours \subseteq stuck \cup ToReplay
Cleared == StraysKnown /\ ConfigKnown /\ CoresCleared /\ RoutesCleared

\* An address has its route through the gateway, or it is about to be made, or
\* the operation is about to fail.
Covered(a, g) ==
    \/ table[<<a, g>>] # "none"
    \/ Step("check", <<a, g>>) \in Range(todo) \/ Step("record", <<a, g>>) \in Range(todo)
    \/ op.do = "create" /\ op.entry.route = <<a, g>>
    \/ op.do = "withdraw" /\ op.err

RoutesFirst ==
    ~Has("install") =>
        \A s \in Range(todo), a \in Addresses : s.do \in {"peer", "moved"} => Covered(a, s.arg)

\* A peer goes before its routes do, unless it could not be removed.
Peered == peer /\ Thing("peer") \notin stuck
PeerHandled ==
    Peered => /\ Clearing => Has("stopPeer")
              /\ ~Clearing => run.touched
              /\ Starting => todo = <<>>

ReadyInv == Shaped /\ CallsInPlace /\ Cleared /\ RoutesFirst /\ PeerHandled

\* Between two lives, and after a recovery that failed.
AtRest == todo = <<>> /\ doing = "idle" /\ op = NoOp

\* What a crash leaves of the cores: alive, and held by nobody.
OnlyStrays ==
    (\A c \in Cores : cores[c] # "on") /\ (peer => cores["amneziawg"] = "stray")
AllOff == (\A c \in Cores : cores[c] = "off") /\ ~peer

\* The recovery: the cores first, then the journal, then the verdict.
Recovering ==
    /\ doing = "recover" /\ run = NoRun
    /\ \/ todo = RecoverSteps /\ op = NoOp /\ ~err /\ OnlyStrays
       \/ todo = Tail(RecoverSteps) /\ op = NoOp /\ ~err /\ AllOff
       \/ /\ todo = Tail(Tail(RecoverSteps)) /\ AllOff /\ open /\ mem = disk
          /\ \/ op = NoOp /\ ~err
             \/ op.do = "replay" /\ (err \/ \A e \in mem.entries : e \in op.left \/ e.id \in op.restored)
       \/ /\ todo = Tail(Tail(Tail(RecoverSteps))) /\ AllOff /\ op = NoOp
          /\ err \/ disk.entries = {}

LifeInv ==
    /\ MachineTyped /\ PeerIsGuarded
    /\ svc = "down" => AtRest /\ run = NoRun /\ ~err /\ OnlyStrays
    /\ svc = "refusing" => AtRest
    /\ svc = "recovering" => Recovering
    /\ svc = "ready" => ReadyInv

MachineInv == JournalInv /\ LifeInv

-----------------------------------------------------------------------------
(* The sequences the operations consist of.                                *)

LEMMA OrderIs ==
    ASSUME NEW x \in Names, NEW y \in Names
    PROVE  /\ <<x, y>> \in Orderly <=> MayFollow(x, y)
           /\ <<x, y>> \in OldLast <=> (x \in {"remove", "undo"} => y \in {"undo", "moved"})
BY DEF Orderly, OldLast

LEMMA NameFacts ==
    /\ "stopPeer" \in Names /\ "remove" \in Names /\ "undo" \in Names /\ "kill" \in Names /\ "replay" \in Names
    /\ "reap" \in Names /\ "spawn" \in Names /\ "adapter" \in Names /\ "discard" \in Names /\ "touch" \in Names
    /\ "install" \in Names /\ "check" \in Names /\ "record" \in Names /\ "peer" \in Names /\ "moved" \in Names
    /\ "prepare" \in Names /\ "open" \in Names /\ "verdict" \in Names
    /\ Ups \subseteq Names /\ Downs \subseteq Names /\ Moves \subseteq Names
BY DEF Names, Ups, Downs, Moves

LEMMA StepFacts ==
    ASSUME NEW name \in Names, NEW x \in StepArgs
    PROVE  Step(name, x) \in AllSteps /\ Step(name, x).do = name /\ Step(name, x).arg = x
BY DEF Step, AllSteps

LEMMA ThingFacts ==
    /\ \A x \in Cores \cup {"peer", "config"} : Thing(x) \notin Routes
    /\ \A x, y \in Cores \cup {"peer", "config"} : Thing(x) = Thing(y) => x = y
    /\ Cores = {"primary", "amneziawg"}
BY CrashesAssumption DEF Thing, Cores

LEMMA TakeDownFacts ==
    ASSUME NEW r \in Runs
    PROVE  /\ TakeDown(r) \in Seq(AllSteps) /\ Follows(TakeDown(r), Orderly)
           /\ Range(TakeDown(r)) =
                {Step("kill", "primary"), Step("kill", "amneziawg"), Step("replay", "down")}
                \cup (IF r.touched THEN {Step("stopPeer", r.gw), Step("remove", r.gw)} ELSE {})
           /\ \A s \in Range(TakeDown(r)) : ArgIsRight(s) /\ s.do \in Downs
<1> DEFINE top == IF r.touched THEN TearDown(r) ELSE <<>>
           topRange == IF r.touched THEN {Step("stopPeer", r.gw), Step("remove", r.gw)} ELSE {}
           downRange == {Step("kill", "primary"), Step("kill", "amneziawg"), Step("replay", "down")}
<1>1. /\ r.gw \in StepArgs /\ "primary" \in StepArgs /\ "amneziawg" \in StepArgs /\ "down" \in StepArgs
      /\ r.touched \in BOOLEAN
  BY DEF Runs, StepArgs, Words, Cores
<1>2. top \in Seq(AllSteps) /\ Range(top) = topRange /\ Follows(top, Orderly)
  <2>1. CASE r.touched
    <3>1. <<"stopPeer", "remove">> \in Orderly
      BY OrderIs, NameFacts DEF MayFollow, Downs
    <3> QED BY <1>1, <2>1, <3>1, StepFacts, NameFacts, TwoFacts DEF TearDown
  <2>2. CASE ~r.touched
    BY <2>2, NoneFacts
  <2> QED BY <2>1, <2>2
<1>3. ShutdownAll \in Seq(AllSteps) /\ Range(ShutdownAll) = downRange /\ Follows(ShutdownAll, Orderly)
  <2>1. {<<"kill", "kill">>, <<"kill", "replay">>} \subseteq Orderly
    BY OrderIs, NameFacts DEF MayFollow, Downs
  <2> DEFINE a == Step("kill", "primary") b == Step("kill", "amneziawg") c == Step("replay", "down")
  <2>2. a \in AllSteps /\ b \in AllSteps /\ c \in AllSteps
    BY <1>1, StepFacts, NameFacts
  <2>3. a.do = "kill" /\ b.do = "kill" /\ c.do = "replay"
    BY DEF Step
  <2>4. ShutdownAll = <<a, b, c>>
    BY DEF ShutdownAll
  <2> HIDE DEF a, b, c
  <2>5. /\ <<a, b, c>> \in Seq(AllSteps) /\ Range(<<a, b, c>>) = {a, b, c}
        /\ Follows(<<a, b, c>>, Orderly)
    BY <2>1, <2>2, <2>3, ThreeFacts
  <2> QED BY <2>4, <2>5 DEF a, b, c
<1>4. \A s \in topRange, t \in downRange : <<s.do, t.do>> \in Orderly
  <2>1. \A x \in {"stopPeer", "remove"}, y \in {"kill", "replay"} : <<x, y>> \in Orderly
    BY OrderIs, NameFacts DEF MayFollow, Downs
  <2>2. \A s \in topRange : s.do \in {"stopPeer", "remove"}
    BY DEF Step
  <2>3. \A s \in downRange : s.do \in {"kill", "replay"}
    BY DEF Step
  <2> QED BY <2>1, <2>2, <2>3
<1>5. TakeDown(r) = top \o ShutdownAll
  BY DEF TakeDown
<1>6. \A s \in topRange \cup downRange : ArgIsRight(s) /\ s.do \in Downs
  BY <1>1, StepFacts, NameFacts DEF ArgIsRight, Downs, Cores
<1> HIDE DEF top, topRange, downRange
<1>7. /\ top \o ShutdownAll \in Seq(AllSteps) /\ Range(top \o ShutdownAll) = topRange \cup downRange
      /\ Follows(top \o ShutdownAll, Orderly)
  BY <1>2, <1>3, <1>4, ConcatFacts
<1> QED BY <1>5, <1>6, <1>7, Zenon DEF topRange, downRange

LEMMA StartFacts ==
    ASSUME NEW peered \in BOOLEAN, NEW g \in Gateways
    PROVE  /\ StartSteps(peered, g) \in Seq(AllSteps) /\ Follows(StartSteps(peered, g), Orderly)
           /\ Range(StartSteps(peered, g)) =
                {Step("prepare", <<peered, g>>), Step("reap", "start"), Step("spawn", "primary"),
                 Step("discard", "start")}
                \cup (IF peered THEN {Step("spawn", "amneziawg"), Step("adapter", "amneziawg"),
                                      Step("touch", g), Step("install", g), Step("peer", g)} ELSE {})
           /\ \A s \in Range(StartSteps(peered, g)) : ArgIsRight(s) /\ s.do \in Ups \cup {"prepare"}
<1>1. /\ g \in StepArgs /\ "primary" \in StepArgs /\ "amneziawg" \in StepArgs /\ "start" \in StepArgs
      /\ <<peered, g>> \in StepArgs
  BY DEF StepArgs, Words, Cores
<1> DEFINE a == <<Step("prepare", <<peered, g>>)>>
           b == <<Step("reap", "start")>>
           c == IF peered THEN <<Step("spawn", "amneziawg"), Step("adapter", "amneziawg")>> ELSE <<>>
           d == <<Step("spawn", "primary")>>
           e == <<Step("discard", "start")>>
           f == IF peered THEN BringUp(g) ELSE <<>>
           cR == IF peered THEN {Step("spawn", "amneziawg"), Step("adapter", "amneziawg")} ELSE {}
           fR == IF peered THEN {Step("touch", g), Step("install", g), Step("peer", g)} ELSE {}
<1>2. \A x \in Ups : x # "peer" => \A y \in Ups : <<x, y>> \in Orderly
  BY OrderIs, NameFacts DEF MayFollow, Ups
<1>3. \A y \in Ups : <<"prepare", y>> \in Orderly
  BY OrderIs, NameFacts DEF MayFollow, Ups
<1>4. /\ a \in Seq(AllSteps) /\ Range(a) = {Step("prepare", <<peered, g>>)} /\ Follows(a, Orderly)
      /\ \A s \in Range(a) : s.do \in {"prepare"}
  <2>1. Step("prepare", <<peered, g>>) \in AllSteps /\ Step("prepare", <<peered, g>>).do = "prepare"
    BY <1>1, StepFacts, NameFacts
  <2> QED BY <2>1, OneFacts
<1>5. /\ b \in Seq(AllSteps) /\ Range(b) = {Step("reap", "start")} /\ Follows(b, Orderly)
      /\ d \in Seq(AllSteps) /\ Range(d) = {Step("spawn", "primary")} /\ Follows(d, Orderly)
      /\ e \in Seq(AllSteps) /\ Range(e) = {Step("discard", "start")} /\ Follows(e, Orderly)
      /\ \A s \in Range(b) \cup Range(d) \cup Range(e) : s.do \in Ups \ {"peer"}
  BY <1>1, StepFacts, NameFacts, OneFacts DEF Ups
<1>6. /\ c \in Seq(AllSteps) /\ Range(c) = cR /\ Follows(c, Orderly)
      /\ \A s \in Range(c) : s.do \in Ups \ {"peer"}
  <2>1. CASE peered
    <3>1. <<"spawn", "adapter">> \in Orderly
      BY OrderIs, NameFacts DEF MayFollow, Downs
    <3>2. /\ Step("spawn", "amneziawg") \in AllSteps /\ Step("spawn", "amneziawg").do = "spawn"
          /\ Step("adapter", "amneziawg") \in AllSteps /\ Step("adapter", "amneziawg").do = "adapter"
      BY <1>1, StepFacts, NameFacts
    <3> QED BY <2>1, <3>1, <3>2, TwoFacts DEF Ups
  <2>2. CASE ~peered
    BY <2>2, NoneFacts
  <2> QED BY <2>1, <2>2
<1>7. /\ f \in Seq(AllSteps) /\ Range(f) = fR /\ Follows(f, Orderly)
      /\ \A s \in Range(f) : s.do \in Ups
  <2>1. CASE peered
    <3>1. {<<"touch", "install">>, <<"touch", "peer">>, <<"install", "peer">>} \subseteq Orderly
      BY OrderIs, NameFacts DEF MayFollow, Downs
    <3>2. /\ Step("touch", g) \in AllSteps /\ Step("touch", g).do = "touch"
          /\ Step("install", g) \in AllSteps /\ Step("install", g).do = "install"
          /\ Step("peer", g) \in AllSteps /\ Step("peer", g).do = "peer"
      BY <1>1, StepFacts, NameFacts
    <3> QED BY <2>1, <3>1, <3>2, ThreeFacts DEF Ups, BringUp
  <2>2. CASE ~peered
    BY <2>2, NoneFacts
  <2> QED BY <2>1, <2>2
<1>8. StartSteps(peered, g) = a \o ((b \o c) \o d) \o e \o f
  BY DEF StartSteps, StartCores
<1> HIDE DEF a, b, c, d, e, f, cR, fR
<1> DEFINE W == Ups \ {"peer"}
<1> HIDE DEF W
<1>9. /\ \A x \in W, y \in W : <<x, y>> \in Orderly
      /\ \A x \in {"prepare"}, y \in W : <<x, y>> \in Orderly
      /\ \A x \in {"prepare"} \cup W, y \in W : <<x, y>> \in Orderly
      /\ \A x \in {"prepare"} \cup W, y \in Ups : <<x, y>> \in Orderly
  BY <1>2, <1>3 DEF W
<1>10. /\ \A s \in Range(b) : s.do \in W
       /\ \A s \in Range(c) : s.do \in W
       /\ \A s \in Range(d) : s.do \in W
       /\ \A s \in Range(e) : s.do \in W
  BY <1>5, <1>6 DEF W
<1> DEFINE bc == b \o c
           bd == bc \o d
           ad == a \o bd
           ae == ad \o e
           af == ae \o f
<1>11. bc \in Seq(AllSteps) /\ Follows(bc, Orderly) /\ Range(bc) = Range(b) \cup Range(c)
      /\ \A s \in Range(bc) : s.do \in W
  <2>1. \A s \in Range(b), t \in Range(c) : <<s.do, t.do>> \in Orderly
    BY <1>4, <1>7, <1>9, <1>10
  <2>2. Range(bc) = Range(b) \cup Range(c)
    BY <1>4, <1>5, <1>6, <1>7, ConcatFacts
  <2>3. bc \in Seq(AllSteps) /\ Follows(bc, Orderly)
    BY <1>4, <1>5, <1>6, <1>7, <2>1, ConcatFacts
  <2> HIDE DEF bc
  <2> QED BY <1>4, <1>7, <1>10, <2>2, <2>3 DEF W
<1> HIDE DEF bc
<1>12. bd \in Seq(AllSteps) /\ Follows(bd, Orderly) /\ Range(bd) = Range(bc) \cup Range(d)
      /\ \A s \in Range(bd) : s.do \in W
  <2>1. \A s \in Range(bc), t \in Range(d) : <<s.do, t.do>> \in Orderly
    BY <1>4, <1>7, <1>9, <1>10, <1>11
  <2>2. Range(bd) = Range(bc) \cup Range(d)
    BY <1>4, <1>5, <1>6, <1>7, <1>11, ConcatFacts
  <2>3. bd \in Seq(AllSteps) /\ Follows(bd, Orderly)
    BY <1>4, <1>5, <1>6, <1>7, <1>11, <2>1, ConcatFacts
  <2> HIDE DEF bd
  <2> QED BY <1>4, <1>7, <1>10, <1>11, <2>2, <2>3 DEF W
<1> HIDE DEF bd
<1>13. ad \in Seq(AllSteps) /\ Follows(ad, Orderly) /\ Range(ad) = Range(a) \cup Range(bd)
      /\ \A s \in Range(ad) : s.do \in {"prepare"} \cup W
  <2>1. \A s \in Range(a), t \in Range(bd) : <<s.do, t.do>> \in Orderly
    BY <1>4, <1>7, <1>9, <1>10, <1>12
  <2>2. Range(ad) = Range(a) \cup Range(bd)
    BY <1>4, <1>12, ConcatFacts
  <2>3. ad \in Seq(AllSteps) /\ Follows(ad, Orderly)
    BY <1>4, <1>5, <1>6, <1>7, <1>12, <2>1, ConcatFacts
  <2> HIDE DEF ad
  <2> QED BY <1>4, <1>7, <1>10, <1>12, <2>2, <2>3 DEF W
<1> HIDE DEF ad
<1>14. ae \in Seq(AllSteps) /\ Follows(ae, Orderly) /\ Range(ae) = Range(ad) \cup Range(e)
      /\ \A s \in Range(ae) : s.do \in {"prepare"} \cup W
  <2>1. \A s \in Range(ad), t \in Range(e) : <<s.do, t.do>> \in Orderly
    BY <1>4, <1>7, <1>9, <1>10, <1>13
  <2>2. Range(ae) = Range(ad) \cup Range(e)
    BY <1>5, <1>13, ConcatFacts
  <2>3. ae \in Seq(AllSteps) /\ Follows(ae, Orderly)
    BY <1>4, <1>5, <1>6, <1>7, <1>13, <2>1, ConcatFacts
  <2> HIDE DEF ae
  <2> QED BY <1>4, <1>7, <1>10, <1>13, <2>2, <2>3 DEF W
<1> HIDE DEF ae
<1>15. af \in Seq(AllSteps) /\ Follows(af, Orderly) /\ Range(af) = Range(ae) \cup Range(f)
      /\ \A s \in Range(af) : s.do \in {"prepare"} \cup Ups
  <2>1. \A s \in Range(ae), t \in Range(f) : <<s.do, t.do>> \in Orderly
    BY <1>4, <1>7, <1>9, <1>10, <1>14
  <2>2. Range(af) = Range(ae) \cup Range(f)
    BY <1>4, <1>5, <1>6, <1>7, <1>14, ConcatFacts
  <2>3. af \in Seq(AllSteps) /\ Follows(af, Orderly)
    BY <1>4, <1>5, <1>6, <1>7, <1>14, <2>1, ConcatFacts
  <2> HIDE DEF af
  <2> QED BY <1>4, <1>7, <1>10, <1>14, <2>2, <2>3 DEF W
<1>16. StartSteps(peered, g) = af
  BY <1>8 DEF bc, bd, ad, ae
<1> HIDE DEF af
<1>17. Range(af) =
          {Step("prepare", <<peered, g>>), Step("reap", "start"), Step("spawn", "primary"),
           Step("discard", "start")}
          \cup (IF peered THEN {Step("spawn", "amneziawg"), Step("adapter", "amneziawg"),
                                Step("touch", g), Step("install", g), Step("peer", g)} ELSE {})
  <2>1. Range(af) = Range(a) \cup Range(b) \cup Range(c) \cup Range(d) \cup Range(e) \cup Range(f)
    BY <1>11, <1>12, <1>13, <1>14, <1>15
  <2> QED BY <1>4, <1>5, <1>6, <1>7, <2>1 DEF cR, fR
<1>18. \A s \in Range(af) : ArgIsRight(s)
  <2>1. ArgIsRight(Step("prepare", <<peered, g>>))
    BY DEF ArgIsRight, Step
  <2>2. ArgIsRight(Step("reap", "start")) /\ ArgIsRight(Step("discard", "start"))
        /\ ArgIsRight(Step("adapter", "amneziawg")) /\ ArgIsRight(Step("touch", g))
    BY DEF ArgIsRight, Step
  <2>3. ArgIsRight(Step("spawn", "primary")) /\ ArgIsRight(Step("spawn", "amneziawg"))
    BY DEF ArgIsRight, Step, Cores
  <2>4. ArgIsRight(Step("install", g)) /\ ArgIsRight(Step("peer", g))
    BY DEF ArgIsRight, Step
  <2> QED BY <1>17, <2>1, <2>2, <2>3, <2>4
<1>19. \A s \in Range(af) : s.do \in Ups \cup {"prepare"}
  BY <1>15 DEF W
<1> QED BY <1>15, <1>16, <1>17, <1>18, <1>19, Zenon

LEMMA RecoverFacts ==
    /\ RecoverSteps \in Seq(AllSteps) /\ RecoverSteps # <<>> /\ Head(RecoverSteps).do = "reap"
    /\ Tail(RecoverSteps) # <<>> /\ Head(Tail(RecoverSteps)).do = "open"
    /\ Tail(Tail(RecoverSteps)) # <<>> /\ Head(Tail(Tail(RecoverSteps))).do = "replay"
    /\ Tail(Tail(Tail(RecoverSteps))) # <<>> /\ Head(Tail(Tail(Tail(RecoverSteps)))).do = "verdict"
    /\ \A s \in Range(RecoverSteps) : ArgIsRight(s)
<1> DEFINE a == Step("reap", "start") b == Step("open", "journal")
           c == Step("replay", "start") d == Step("verdict", "start")
<1>1. /\ a \in AllSteps /\ b \in AllSteps /\ c \in AllSteps /\ d \in AllSteps
      /\ a.do = "reap" /\ b.do = "open" /\ c.do = "replay" /\ d.do = "verdict"
  <2>1. "start" \in StepArgs /\ "journal" \in StepArgs
    BY DEF StepArgs, Words
  <2> QED BY <2>1, StepFacts, NameFacts
<1>2. RecoverSteps = <<a, b, c, d>>
  BY DEF RecoverSteps
<1> HIDE DEF a, b, c, d
<1>3. <<a, b, c, d>> \in Seq(AllSteps) /\ Len(<<a, b, c, d>>) = 4
  BY <1>1
<1>4. /\ Head(<<a, b, c, d>>) = a /\ <<a, b, c, d>> # <<>>
      /\ Tail(<<a, b, c, d>>) = <<b, c, d>> /\ Tail(<<b, c, d>>) = <<c, d>> /\ Tail(<<c, d>>) = <<d>>
      /\ Head(<<b, c, d>>) = b /\ <<b, c, d>> # <<>>
      /\ Head(<<c, d>>) = c /\ <<c, d>> # <<>>
      /\ Head(<<d>>) = d /\ <<d>> # <<>>
  OBVIOUS
<1>5. DOMAIN <<a, b, c, d>> = {1, 2, 3, 4}
  OBVIOUS
<1>6. Range(<<a, b, c, d>>) = {a, b, c, d}
  BY <1>5 DEF Range
<1>7. \A s \in {a, b, c, d} : ArgIsRight(s)
  BY <1>1 DEF ArgIsRight
<1> QED BY <1>1, <1>2, <1>3, <1>4, <1>6, <1>7

-----------------------------------------------------------------------------
(* What an operation has to do, from one step to the next.                 *)

LEMMA HeadFacts ==
    ASSUME TodoTyped, todo # <<>>
    PROVE  /\ Tail(todo) \in Seq(AllSteps) /\ Head(todo) \in AllSteps /\ Head(todo) \in Range(todo)
           /\ Range(todo) = {Head(todo)} \cup Range(Tail(todo))
           /\ ArgIsRight(Head(todo)) /\ Head(todo).do \in Names
           /\ \A s \in Range(todo) : s.do \in Names
<1>1. todo \in Seq(AllSteps) /\ \A s \in Range(todo) : ArgIsRight(s)
  BY DEF TodoTyped
<1>2. /\ Tail(todo) \in Seq(AllSteps) /\ Head(todo) \in AllSteps /\ Head(todo) \in Range(todo)
      /\ Range(todo) = {Head(todo)} \cup Range(Tail(todo))
  BY <1>1, RestFacts
<1>3. \A s \in Range(todo) : s \in AllSteps
  BY <1>1 DEF Range
<1> QED BY <1>1, <1>2, <1>3 DEF AllSteps

\* What follows the step under way.
LEMMA TailOrder ==
    ASSUME Shaped, TodoTyped, todo # <<>>
    PROVE  /\ Follows(Tail(todo), Orderly)
           /\ \A s \in Range(Tail(todo)) : MayFollow(Head(todo).do, s.do)
           /\ doing = "carry" =>
                 /\ Follows(Tail(todo), OldLast)
                 /\ Head(todo).do \in {"remove", "undo"} =>
                       \A s \in Range(Tail(todo)) : s.do \in {"undo", "moved"}
<1>1. todo \in Seq(AllSteps) /\ Follows(todo, Orderly) /\ (doing = "carry" => Follows(todo, OldLast))
  BY DEF TodoTyped, Shaped, Moving
<1>2. Head(todo).do \in Names /\ \A s \in Range(Tail(todo)) : s.do \in Names
  BY HeadFacts
<1>3. /\ Follows(Tail(todo), Orderly)
      /\ \A s \in Range(Tail(todo)) : <<Head(todo).do, s.do>> \in Orderly
  BY <1>1, RestFacts
<1>4. doing = "carry" =>
        /\ Follows(Tail(todo), OldLast)
        /\ \A s \in Range(Tail(todo)) : <<Head(todo).do, s.do>> \in OldLast
  BY <1>1, RestFacts
<1> QED BY <1>2, <1>3, <1>4, OrderIs

\* Whose step is under way.
LEMMA WhoseStep ==
    ASSUME Shaped, TodoTyped, todo # <<>>
    PROVE  /\ Head(todo).do \in {"reap", "spawn", "adapter", "touch", "peer"} => Starting
           /\ Head(todo).do \in {"install", "check", "record"} => Starting \/ doing = "carry"
           /\ Head(todo).do = "discard" => Starting \/ (doing = "down" /\ ~Has("prepare"))
           /\ Head(todo).do \in {"stopPeer", "kill", "replay"} => Clearing
           /\ Head(todo).do \in {"remove", "undo"} => Clearing \/ doing = "carry"
           /\ Head(todo).do = "moved" => doing = "carry"
           /\ Head(todo).do = "prepare" => doing = "start" /\ Has("prepare")
           /\ Head(todo).do \notin {"open", "verdict"}
           /\ Head(todo).do # "prepare" /\ Has("prepare") => Head(todo).do \in Downs
           /\ doing # "idle"
<1>1. Head(todo).do \in Names /\ Head(todo) \in Range(todo) /\ doing # "idle"
      /\ doing \in {"start", "down", "carry"}
  BY HeadFacts DEF Shaped
<1>2. Head(todo).do # "prepare" /\ Has("prepare") => Head(todo).do \in Downs
  BY HeadFacts, TailOrder DEF Has, MayFollow
<1>3. CASE doing = "down"
  <2>1. Head(todo).do \in Downs \cup {"discard"} /\ ~Has("prepare")
    BY <1>1, <1>3 DEF Shaped, Has, Downs
  <2> QED BY <1>1, <1>2, <1>3, <2>1 DEF Downs, Clearing
<1>4. CASE doing = "carry"
  <2>1. Head(todo).do \in Moves /\ ~Has("prepare")
    BY <1>1, <1>4 DEF Shaped, Moving, Has, Moves
  <2> QED BY <1>1, <1>2, <1>4, <2>1 DEF Moves
<1>5. CASE Starting
  <2>1. Head(todo).do \in Ups
    BY <1>1, <1>5 DEF Shaped
  <2> QED BY <1>1, <1>2, <1>5, <2>1 DEF Ups, Starting, Has
<1>6. CASE doing = "start" /\ Has("prepare")
  <2>1. Head(todo).do \in Downs \cup {"prepare"} /\ Clearing
    BY <1>2, <1>6 DEF Clearing
  <2> QED BY <1>1, <1>2, <1>6, <2>1 DEF Downs
<1> QED BY <1>1, <1>3, <1>4, <1>5, <1>6 DEF Starting

\* While something is being cleared away, no peer is set before its routes are.
LEMMA NothingYet ==
    ASSUME Shaped, Clearing
    PROVE  \A s \in Range(todo) : s.do \in {"peer", "moved"} => Has("install")
<1>1. CASE doing = "down"
  BY <1>1 DEF Shaped, Downs
<1>2. CASE doing = "idle"
  BY <1>2, NoneFacts DEF Shaped
<1>3. CASE doing = "start" /\ Has("prepare")
  BY <1>3 DEF Shaped, Unprepared, Has, Downs, Ups
<1> QED BY <1>1, <1>2, <1>3 DEF Clearing

\* Going on to the next step.
LEMMA OnwardShape ==
    ASSUME Shaped, TodoTyped, todo # <<>>, Head(todo).do \notin {"prepare", "moved"},
           todo' = Tail(todo), doing' = doing, run'.up = run.up, run'.gw = run.gw,
           run.touched \/ Head(todo).do = "touch" => run'.touched
    PROVE  /\ Shaped' /\ TodoTyped' /\ Range(todo) = {Head(todo)} \cup Range(todo')
           /\ Starting' <=> Starting
           /\ Clearing' <=> Clearing
           /\ \A n : n # Head(todo).do => (Has(n)' <=> Has(n))
<1>1. /\ Range(todo) = {Head(todo)} \cup Range(todo') /\ TodoTyped' /\ Head(todo) \in Range(todo)
      /\ Head(todo).do \in Names
  BY HeadFacts DEF TodoTyped
<1>2. \A n : n # Head(todo).do => (Has(n)' <=> Has(n))
  BY <1>1 DEF Has
<1>3. Has("prepare")' <=> Has("prepare")
  BY <1>2
<1>4. (Starting' <=> Starting) /\ (Clearing' <=> Clearing)
  BY <1>3 DEF Starting, Clearing
<1>5. Follows(todo', Orderly) /\ (doing = "carry" => Follows(todo', OldLast))
  BY TailOrder
<1>6. doing' = "carry" => run'.up /\ Moving'
  <2> SUFFICES ASSUME doing = "carry" PROVE run'.up /\ Moving'
    OBVIOUS
  <2>1. run.up /\ Moving
    BY DEF Shaped
  <2>2. Has("moved")'
    BY <1>2, <2>1 DEF Moving
  <2> QED BY <1>1, <1>5, <2>1, <2>2 DEF Moving
<1>7. Has("prepare")' => Unprepared'
  <2> SUFFICES ASSUME Has("prepare") PROVE Unprepared'
    BY <1>3
  <2>1. Unprepared /\ Head(todo).do \in Downs
    BY WhoseStep DEF Shaped
  <2>2. /\ Has("discard")' <=> Has("discard")
        /\ Has("peer")' <=> Has("peer")
        /\ Has("install")' <=> Has("install")
        /\ Has("touch")' <=> Has("touch")
    BY <1>2, <2>1 DEF Downs
  <2> QED BY <1>1, <2>1, <2>2 DEF Unprepared
<1>8. Has("peer")' => Has("touch")' \/ run'.touched
  <2>1. Has("peer")' => Has("peer")
    BY <1>1 DEF Has
  <2>2. Has("touch") => Has("touch")' \/ Head(todo).do = "touch"
    BY <1>2
  <2> QED BY <2>1, <2>2 DEF Shaped
<1>9. \A s, t \in Range(todo') : s.do = "install" /\ t.do \in {"peer", "moved"} => s.arg = t.arg
  BY <1>1 DEF Shaped
<1>10. doing' # "idle" /\ doing \in {"idle", "start", "down", "carry"}
  BY WhoseStep DEF Shaped
<1>11. Starting' => run'.up /\ \A s \in Range(todo') : s.do \in Ups
  BY <1>1, <1>4 DEF Shaped
<1>12. doing' = "down" => \A s \in Range(todo') : s.do \in Downs \cup {"discard"}
  BY <1>1 DEF Shaped
<1>13. Shaped'
  BY <1>5, <1>6, <1>7, <1>8, <1>9, <1>10, <1>11, <1>12 DEF Shaped
<1> QED BY <1>1, <1>2, <1>4, <1>13

\* A step that is replaced by those it consists of.
LEMMA IntoShape ==
    ASSUME Shaped, TodoTyped, todo # <<>>, NEW n \in Names, NEW steps \in Seq(AllSteps),
           <<Head(todo).do, n>> \in {<<"install", "check">>, <<"check", "record">>, <<"remove", "undo">>},
           \A s \in Range(steps) : s.do = n /\ ArgIsRight(s),
           \A R : <<n, n>> \in R => Follows(steps, R),
           n = "undo" /\ doing = "carry" => \A s \in Range(steps) : s.arg.route[2] = run.gw,
           todo' = steps \o Tail(todo), doing' = doing, run' = run
    PROVE  /\ Shaped' /\ TodoTyped' /\ Range(todo') = Range(steps) \cup Range(Tail(todo))
           /\ Starting' <=> Starting
           /\ Clearing' <=> Clearing
           /\ \A m : m \notin {Head(todo).do, n} => (Has(m)' <=> Has(m))
<1>1. /\ Range(todo) = {Head(todo)} \cup Range(Tail(todo)) /\ Tail(todo) \in Seq(AllSteps)
      /\ Head(todo) \in Range(todo) /\ Head(todo).do \in Names
      /\ \A s \in Range(todo) : s.do \in Names
  BY HeadFacts
<1>2. /\ Head(todo).do \in {"install", "check", "remove"} /\ n \in {"check", "record", "undo"}
      /\ Head(todo).do = "remove" <=> n = "undo"
  OBVIOUS
<1>3. Range(todo') = Range(steps) \cup Range(Tail(todo)) /\ todo' \in Seq(AllSteps)
  BY <1>1, ConcatFacts
<1>4. TodoTyped'
  BY <1>1, <1>3 DEF TodoTyped
<1>5. \A m : m \notin {Head(todo).do, n} => (Has(m)' <=> Has(m))
  BY <1>1, <1>3 DEF Has
<1>6. /\ Has("prepare")' <=> Has("prepare")
      /\ Has("discard")' <=> Has("discard")
      /\ Has("peer")' <=> Has("peer")
      /\ Has("moved")' <=> Has("moved")
      /\ Has("touch")' <=> Has("touch")
  BY <1>2, <1>5
<1>7. (Starting' <=> Starting) /\ (Clearing' <=> Clearing)
  BY <1>6 DEF Starting, Clearing
<1>8. ~Clearing => Starting \/ doing = "carry"
  BY WhoseStep, <1>2
<1>9. \A s \in Range(Tail(todo)) : s.do # "stopPeer" /\ (s.do = "prepare" => n = "undo")
  BY <1>2, TailOrder DEF MayFollow, Downs
<1>10. Follows(todo', Orderly)
  <2>1. \A s \in Range(steps), t \in Range(Tail(todo)) : <<s.do, t.do>> \in Orderly
    BY <1>1, <1>2, <1>9, OrderIs DEF MayFollow, Downs
  <2>2. <<n, n>> \in Orderly
    BY <1>2, OrderIs DEF MayFollow
  <2> QED BY <1>1, <2>1, <2>2, TailOrder, ConcatFacts
<1>11. doing' = "carry" => run'.up /\ Moving'
  <2> SUFFICES ASSUME doing = "carry" PROVE run'.up /\ Moving'
    OBVIOUS
  <2>1. run.up /\ Moving
    BY DEF Shaped
  <2>2. \A s \in Range(steps), t \in Range(Tail(todo)) : <<s.do, t.do>> \in OldLast
    BY <1>1, <1>2, TailOrder, OrderIs
  <2>3. <<n, n>> \in OldLast
    BY <1>2, OrderIs
  <2>4. Follows(todo', OldLast)
    BY <1>1, <2>2, <2>3, TailOrder, ConcatFacts
  <2>5. \A s \in Range(todo') :
          /\ s.do \in Moves
          /\ s.do = "moved" => s.arg # run.gw
          /\ s.do = "remove" => s.arg = run.gw
          /\ s.do = "undo" => s.arg.route[2] = run.gw
    BY <1>1, <1>2, <1>3, <2>1 DEF Moving, Moves
  <2> QED BY <1>6, <2>1, <2>4, <2>5 DEF Moving
<1>12. Has("prepare")' => Unprepared'
  <2> SUFFICES ASSUME Has("prepare") PROVE Unprepared'
    BY <1>6
  <2>1. Unprepared /\ Head(todo).do \in Downs
    BY <1>2, WhoseStep DEF Shaped
  <2>2. n = "undo" /\ (Has("install")' <=> Has("install"))
    BY <1>2, <1>5, <2>1 DEF Downs
  <2>3. \A s \in Range(todo') : s.do \in Downs \cup Ups \cup {"prepare"}
    BY <1>1, <1>3, <2>1, <2>2 DEF Unprepared, Downs
  <2> QED BY <1>6, <2>1, <2>2, <2>3 DEF Unprepared
<1>13. \A s, t \in Range(todo') : s.do = "install" /\ t.do \in {"peer", "moved"} => s.arg = t.arg
  BY <1>1, <1>2, <1>3 DEF Shaped
<1>14. doing' # "idle" /\ doing \in {"idle", "start", "down", "carry"}
  BY WhoseStep DEF Shaped
<1>15. Starting' => run'.up /\ \A s \in Range(todo') : s.do \in Ups
  <2> SUFFICES ASSUME Starting PROVE run'.up /\ \A s \in Range(todo') : s.do \in Ups
    BY <1>7
  <2>1. run.up /\ \A s \in Range(todo) : s.do \in Ups
    BY DEF Shaped
  <2>2. n \in {"check", "record"}
    BY <1>1, <1>2, <2>1 DEF Ups
  <2> QED BY <1>1, <1>3, <2>1, <2>2 DEF Ups
<1>16. doing' = "down" => \A s \in Range(todo') : s.do \in Downs \cup {"discard"}
  <2> SUFFICES ASSUME doing = "down" PROVE \A s \in Range(todo') : s.do \in Downs \cup {"discard"}
    OBVIOUS
  <2>1. \A s \in Range(todo) : s.do \in Downs \cup {"discard"}
    BY DEF Shaped
  <2>2. n = "undo"
    BY <1>1, <1>2, <2>1 DEF Downs
  <2> QED BY <1>1, <1>3, <2>1, <2>2 DEF Downs
<1>17. Has("peer")' => Has("touch")' \/ run'.touched
  BY <1>6 DEF Shaped
<1>18. Shaped'
  BY <1>10, <1>11, <1>12, <1>13, <1>14, <1>15, <1>16, <1>17 DEF Shaped
<1> QED BY <1>3, <1>4, <1>5, <1>7, <1>18

\* Nothing of what is to be done changes.
LEMMA SameShape ==
    ASSUME Shaped, TodoTyped, todo' = todo, doing' = doing, run'.up = run.up, run'.gw = run.gw,
           run'.touched = run.touched
    PROVE  /\ Shaped' /\ TodoTyped'
           /\ Starting' <=> Starting
           /\ Clearing' <=> Clearing
           /\ \A n : Has(n)' <=> Has(n)
<1>1. \A n : Has(n)' <=> Has(n)
  BY DEF Has
<1>2. (Starting' <=> Starting) /\ (Clearing' <=> Clearing) /\ TodoTyped'
  BY <1>1 DEF Starting, Clearing, TodoTyped
<1>3. (Moving' <=> Moving) /\ (Unprepared' <=> Unprepared)
  BY <1>1 DEF Moving, Unprepared
<1>4. Shaped'
  BY <1>1, <1>2, <1>3 DEF Shaped
<1> QED BY <1>1, <1>2, <1>4

LEMMA DiscardingFacts ==
    ASSUME TodoTyped
    PROVE  /\ Discarding \in Seq(AllSteps) /\ Follows(Discarding, Orderly)
           /\ Range(Discarding) = IF Has("discard") THEN {Step("discard", "start")} ELSE {}
           /\ \A s \in Range(Discarding) : ArgIsRight(s) /\ s.do = "discard"
<1>1. Has("discard") <=> \E i \in DOMAIN todo : todo[i].do = "discard"
  BY DEF Has, Range
<1>2. "start" \in StepArgs
  BY DEF StepArgs, Words
<1>3. Step("discard", "start") \in AllSteps /\ Step("discard", "start").do = "discard"
  BY <1>2, StepFacts, NameFacts
<1>4. ArgIsRight(Step("discard", "start"))
  BY <1>3 DEF ArgIsRight
<1>5. CASE Has("discard")
  BY <1>1, <1>3, <1>4, <1>5, OneFacts DEF Discarding
<1>6. CASE ~Has("discard")
  BY <1>1, <1>6, NoneFacts DEF Discarding
<1> QED BY <1>5, <1>6

\* A start or a move that fails, whatever else the failing step did: a start
\* takes down what it brought up, a move leaves the tunnel up.
LEMMA FailReady ==
    ASSUME TodoTyped, RunTyped, ReadyInv, Starting \/ doing = "carry", Fail,
           op' = NoOp, config' = config, StraysKnown', JournalTypeOK',
           Thing("config") \in stuck => Thing("config") \in stuck',
           Peered' => run.touched
    PROVE  ReadyInv' /\ TodoTyped' /\ RunTyped'
<1>1. Shaped /\ ConfigKnown /\ run' = run /\ run \in Runs /\ op'.do = "none"
  BY MadeOps DEF ReadyInv, Cleared, Fail, RunTyped
<1>2. RunTyped'
  BY <1>1 DEF RunTyped
<1>3. CASE doing = "carry"
  <2>1. todo' = <<>> /\ doing' = "idle" /\ run'.up
    BY <1>1, <1>3 DEF Fail, Shaped
  <2>2. Range(todo') = {} /\ Follows(todo', Orderly) /\ todo' \in Seq(AllSteps)
    BY <2>1, NoneFacts
  <2>3. \A n : ~Has(n)'
    BY <2>2 DEF Has
  <2>4. ~Clearing' /\ ~Starting'
    BY <2>1 DEF Clearing, Starting
  <2>5. ~Has("discard")
    BY <1>1, <1>3 DEF Shaped, Moving, Moves, Has
  <2>6. Shaped'
    BY <2>1, <2>2, <2>3, <2>4 DEF Shaped
  <2>7. Cleared'
    BY <1>1, <2>4, <2>5 DEF Cleared, ConfigKnown, CoresCleared, RoutesCleared
  <2>8. RoutesFirst' /\ CallsInPlace' /\ PeerHandled'
    BY <1>1, <2>2, <2>4 DEF RoutesFirst, CallsInPlace, PeerHandled
  <2> QED BY <1>2, <2>2, <2>6, <2>7, <2>8 DEF ReadyInv, TodoTyped
<1>4. CASE Starting
  <2>1. todo' = Discarding \o TakeDown(run) /\ doing' = "down"
    BY <1>4 DEF Fail, Starting
  <2>2. \A s \in Range(Discarding), t \in Range(TakeDown(run)) : <<s.do, t.do>> \in Orderly
    BY <1>1, DiscardingFacts, TakeDownFacts, NameFacts, OrderIs DEF MayFollow, Downs
  <2>3. todo' \in Seq(AllSteps) /\ Range(todo') = Range(Discarding) \cup Range(TakeDown(run))
        /\ Follows(todo', Orderly)
    BY <1>1, <2>1, <2>2, DiscardingFacts, TakeDownFacts, ConcatFacts
  <2>4. TodoTyped' /\ \A s \in Range(todo') : s.do \in Downs \cup {"discard"}
    BY <1>1, <2>3, DiscardingFacts, TakeDownFacts DEF TodoTyped
  <2>5. /\ ~Has("prepare")' /\ ~Has("peer")' /\ ~Has("moved")'
    BY <2>4 DEF Has, Downs
  <2>6. Shaped'
    BY <2>1, <2>3, <2>4, <2>5 DEF Shaped, Starting, Downs
  <2>7. /\ Step("kill", "primary") \in Range(todo') /\ Step("kill", "amneziawg") \in Range(todo')
        /\ Step("replay", "down") \in Range(todo')
        /\ run.touched => Step("stopPeer", run.gw) \in Range(todo')
        /\ Has("discard") => Step("discard", "start") \in Range(todo')
    BY <1>1, <2>3, DiscardingFacts, TakeDownFacts
  <2>8. Has("replay")' /\ (Has("discard") => Has("discard")') /\ (run.touched => Has("stopPeer")')
    BY <2>7 DEF Has, Step
  <2>9. RoutesCleared'
    <3>1. ToReplay' = Routes
      BY <1>1, <2>8 DEF ToReplay
    <3> QED BY <3>1 DEF RoutesCleared, Ours
  <2>10. ConfigKnown' /\ CoresCleared'
    BY <1>1, <2>5, <2>7, <2>8, ThingFacts DEF ConfigKnown, CoresCleared
  <2>11. RoutesFirst' /\ CallsInPlace'
    BY <1>1, <2>1, <2>4 DEF RoutesFirst, CallsInPlace, Downs
  <2>12. PeerHandled'
    BY <2>1, <2>8 DEF PeerHandled, Clearing, Starting
  <2> QED BY <1>2, <2>4, <2>6, <2>9, <2>10, <2>11, <2>12 DEF ReadyInv, Cleared
<1> QED BY <1>3, <1>4

\* A step that is done, and what it did.
LEMMA OnwardReady ==
    ASSUME TodoTyped, ReadyInv, JournalTypeOK, JournalTypeOK', todo # <<>>, table' = table,
           op.do \in {"none", "forget", "replay"},
           Head(todo).do \notin {"prepare", "moved", "install"},
           todo' = Tail(todo), doing' = doing, run'.up = run.up, run'.gw = run.gw,
           run.touched \/ Head(todo).do = "touch" => run'.touched,
           StraysKnown',
           \/ config' => Thing("config") \in stuck'
           \/ /\ Head(todo).do # "discard" /\ config' = config
              /\ Thing("config") \in stuck => Thing("config") \in stuck',
           Clearing => \A c \in Cores : cores'[c] = "on" =>
               cores[c] = "on" /\ Step("kill", c) # Head(todo),
           stuck \cap Routes \subseteq stuck',
           Head(todo).do = "replay" => Ours \subseteq stuck',
           Head(todo).do = "check" => table[Head(todo).arg] # "none",
           \/ Head(todo).do # "record" /\ op' = NoOp
           \/ Head(todo).do = "record" /\ op'.do = "create" /\ op'.entry.route = Head(todo).arg
    PROVE  /\ TodoTyped' /\ Shaped' /\ CallsInPlace' /\ Cleared' /\ RoutesFirst'
           /\ (Peered' => Peered /\ Head(todo).do # "stopPeer") => PeerHandled'
<1>1. Shaped /\ CallsInPlace /\ Cleared /\ RoutesFirst /\ PeerHandled /\ NoOp.do = "none"
  BY MadeOps DEF ReadyInv
<1>2. /\ Shaped' /\ TodoTyped' /\ Range(todo) = {Head(todo)} \cup Range(todo')
      /\ Starting' <=> Starting
      /\ Clearing' <=> Clearing
      /\ \A n : n # Head(todo).do => (Has(n)' <=> Has(n))
  BY <1>1, OnwardShape
<1>3. doing # "idle"
  BY <1>1, WhoseStep
<1>4. CallsInPlace'
  <2>1. CASE op' = NoOp
    BY <1>1, <2>1 DEF CallsInPlace
  <2>2. CASE Head(todo).do = "record" /\ op'.do = "create"
    BY <1>1, <1>2, <1>3, <2>2, WhoseStep DEF CallsInPlace
  <2> QED BY <2>1, <2>2
<1>5. ConfigKnown'
  <2>1. CASE config' => Thing("config") \in stuck'
    BY <2>1 DEF ConfigKnown
  <2>2. CASE /\ Head(todo).do # "discard" /\ config' = config
             /\ Thing("config") \in stuck => Thing("config") \in stuck'
    BY <1>1, <1>2, <2>2 DEF ConfigKnown, Cleared
  <2> QED BY <2>1, <2>2
<1>6. CoresCleared'
  BY <1>1, <1>2 DEF CoresCleared, Cleared
<1>7. RoutesCleared'
  <2> SUFFICES ASSUME Clearing PROVE Ours' \subseteq stuck' \cup ToReplay'
    BY <1>2 DEF RoutesCleared
  <2>1. Ours' = Ours /\ Ours \subseteq Routes
    BY DEF Ours
  <2>2. CASE Head(todo).do = "replay"
    BY <2>1, <2>2
  <2>3. CASE Head(todo).do # "replay"
    <3>1. op.do # "replay" /\ op'.do # "replay"
      BY <1>1, <2>3 DEF CallsInPlace
    <3>2. ToReplay' = ToReplay
      BY <1>2, <2>3, <3>1 DEF ToReplay
    <3> QED BY <1>1, <2>1, <3>2 DEF Cleared, RoutesCleared
  <2> QED BY <2>2, <2>3
<1>8. RoutesFirst'
  <2> SUFFICES ASSUME ~Has("install")', NEW s \in Range(todo'), NEW a \in Addresses,
                      s.do \in {"peer", "moved"}
               PROVE  Covered(a, s.arg)'
    BY DEF RoutesFirst
  <2>1. Covered(a, s.arg)
    BY <1>1, <1>2 DEF RoutesFirst
  <2>2. CASE table[<<a, s.arg>>] # "none"
    BY <2>2 DEF Covered
  <2>3. CASE Step("check", <<a, s.arg>>) \in Range(todo)
    BY <1>2, <2>3 DEF Covered, Step
  <2>4. CASE Step("record", <<a, s.arg>>) \in Range(todo)
    BY <1>2, <2>4 DEF Covered, Step
  <2> QED BY <2>1, <2>2, <2>3, <2>4 DEF Covered
<1>9. ASSUME Peered' => Peered /\ Head(todo).do # "stopPeer"
      PROVE  PeerHandled'
  <2> SUFFICES ASSUME Peered' PROVE PeerHandled'
    BY DEF PeerHandled
  <2>1. Peered /\ (Has("stopPeer")' <=> Has("stopPeer"))
    BY <1>2, <1>9
  <2>2. ~Starting /\ (Clearing => Has("stopPeer")) /\ (~Clearing => run.touched)
    BY <1>1, <2>1 DEF PeerHandled
  <2> QED BY <1>2, <2>1, <2>2 DEF PeerHandled
<1> QED BY <1>2, <1>4, <1>5, <1>6, <1>7, <1>8, <1>9 DEF Cleared

\* A call of the journal that is not the end of its step.
LEMMA CallReady ==
    ASSUME TodoTyped, ReadyInv, JournalTypeOK, JournalTypeOK',
           todo' = todo, doing' = doing, run'.up = run.up, run'.gw = run.gw,
           run'.touched = run.touched, UNCHANGED <<cores, config, peer>>,
           \A c \in Cores \cup {"peer", "config"} : Thing(c) \in stuck <=> Thing(c) \in stuck',
           CallsInPlace', RoutesFirst', Clearing => Ours' \subseteq stuck' \cup ToReplay'
    PROVE  TodoTyped' /\ ReadyInv'
<1>1. /\ Shaped' /\ TodoTyped'
      /\ Starting' <=> Starting
      /\ Clearing' <=> Clearing
      /\ \A n : Has(n)' <=> Has(n)
  BY SameShape DEF ReadyInv
<1>2. StraysKnown' /\ ConfigKnown' /\ CoresCleared'
  BY <1>1 DEF ReadyInv, Cleared, StraysKnown, ConfigKnown, CoresCleared
<1>3. RoutesCleared'
  BY <1>1 DEF RoutesCleared
<1>4. PeerHandled'
  BY <1>1 DEF ReadyInv, PeerHandled, Peered
<1> QED BY <1>1, <1>2, <1>3, <1>4 DEF ReadyInv, Cleared

-----------------------------------------------------------------------------
(* In which life of the service a step is taken.                           *)

LEMMA Facts ==
    ASSUME MachineInv
    PROVE  /\ TodoTyped /\ RunTyped /\ CoresTyped /\ peer \in BOOLEAN /\ run \in Runs
           /\ JournalTypeOK /\ PeerIsGuarded /\ svc \in {"down", "recovering", "ready", "refusing"}
           /\ svc = "ready" => ReadyInv
           /\ svc = "recovering" => Recovering
           /\ NoOp.do = "none"
BY MadeOps DEF MachineInv, LifeInv, MachineTyped, RunTyped, JournalInv

LEMMA RecoveringHead ==
    ASSUME Recovering
    PROVE  /\ todo # <<>> /\ Head(todo).do \in {"reap", "open", "replay", "verdict"}
           /\ op.do \in {"none", "replay"} /\ doing = "recover" /\ run = NoRun
           /\ Head(todo).do = "reap" => todo = RecoverSteps /\ op = NoOp /\ ~err /\ OnlyStrays
           /\ Head(todo).do = "open" => todo = Tail(RecoverSteps) /\ op = NoOp /\ ~err /\ AllOff
           /\ Head(todo).do = "replay" =>
                 /\ todo = Tail(Tail(RecoverSteps)) /\ AllOff /\ open /\ mem = disk
                 /\ \/ op = NoOp /\ ~err
                    \/ /\ op.do = "replay"
                       /\ err \/ \A e \in mem.entries : e \in op.left \/ e.id \in op.restored
           /\ Head(todo).do = "verdict" =>
                 /\ todo = Tail(Tail(Tail(RecoverSteps))) /\ AllOff /\ op = NoOp
                 /\ err \/ disk.entries = {}
<1>1. NoOp.do = "none"
  BY MadeOps
<1>2. CASE todo = RecoverSteps /\ op = NoOp /\ ~err /\ OnlyStrays
  BY <1>1, <1>2, RecoverFacts DEF Recovering
<1>3. CASE todo = Tail(RecoverSteps) /\ op = NoOp /\ ~err /\ AllOff
  BY <1>1, <1>3, RecoverFacts DEF Recovering
<1>4. CASE /\ todo = Tail(Tail(RecoverSteps)) /\ AllOff /\ open /\ mem = disk
           /\ \/ op = NoOp /\ ~err
              \/ /\ op.do = "replay"
                 /\ err \/ \A e \in mem.entries : e \in op.left \/ e.id \in op.restored
  BY <1>1, <1>4, RecoverFacts DEF Recovering
<1>5. CASE todo = Tail(Tail(Tail(RecoverSteps))) /\ AllOff /\ op = NoOp /\ (err \/ disk.entries = {})
  BY <1>1, <1>5, RecoverFacts DEF Recovering
<1> QED BY <1>2, <1>3, <1>4, <1>5, Zenon DEF Recovering

LEMMA ReadySteps ==
    ASSUME MachineInv
    PROVE  /\ todo # <<>> => svc \in {"ready", "recovering"}
           /\ todo # <<>> /\ Head(todo).do \notin {"reap", "open", "replay", "verdict"} => svc = "ready"
           /\ todo # <<>> /\ Head(todo).do \in {"open", "verdict"} => svc = "recovering"
           /\ op.do \in {"create", "withdraw", "forget"} => svc = "ready"
           /\ op # NoOp => svc \in {"ready", "recovering"}
           /\ doing # "idle" /\ todo = <<>> => svc = "ready"
<1>1. svc = "ready" /\ todo # <<>> => Head(todo).do \notin {"open", "verdict"}
  BY Facts, WhoseStep DEF ReadyInv
<1>2. svc \in {"down", "refusing"} => todo = <<>> /\ op = NoOp /\ doing = "idle"
  BY DEF MachineInv, LifeInv, AtRest
<1>3. svc = "recovering" => /\ todo # <<>> /\ Head(todo).do \in {"reap", "open", "replay", "verdict"}
                            /\ op.do \in {"none", "replay"}
  BY Facts, RecoveringHead
<1> QED BY <1>1, <1>2, <1>3, Facts

LEMMA StaysReady ==
    ASSUME svc' = "ready", ReadyInv', TodoTyped', RunTyped', CoresTyped', peer' \in BOOLEAN,
           PeerIsGuarded'
    PROVE  LifeInv'
BY DEF LifeInv, MachineTyped

LEMMA GuardKept ==
    ASSUME PeerIsGuarded, table' = table, Peered' => Peered
    PROVE  PeerIsGuarded'
BY DEF PeerIsGuarded, Peered, Guarded

-----------------------------------------------------------------------------
(* One lemma per action: the operations.                                   *)

LEMMA StartKeeps ==
    ASSUME MachineInv, JournalInv', NEW peered \in BOOLEAN, NEW g \in Gateways, Start(peered, g)
    PROVE  LifeInv'
<1>1. /\ svc = "ready" /\ doing = "idle" /\ ReadyInv /\ run \in Runs /\ run.up \in BOOLEAN
      /\ UNCHANGED <<table, op, svc, run, cores, peer, config, stuck>>
      /\ doing' = "start" /\ JournalTypeOK
  BY Facts DEF Start, Idle, journalVars, Runs
<1>2. todo = <<>> /\ op = NoOp /\ NoOp.do = "none"
  BY <1>1, Facts DEF ReadyInv, Shaped, CallsInPlace
<1>3. Range(todo) = {} /\ \A n : ~Has(n)
  BY <1>2, NoneFacts DEF Has
<1> DEFINE first == IF run.up THEN TakeDown(run) ELSE <<>>
           firstRange == IF run.up THEN Range(TakeDown(run)) ELSE {}
<1>4. /\ first \in Seq(AllSteps) /\ Range(first) = firstRange /\ Follows(first, Orderly)
      /\ \A s \in Range(first) : ArgIsRight(s) /\ s.do \in Downs
  BY <1>1, TakeDownFacts, NoneFacts
<1>5. todo' = first \o StartSteps(peered, g)
  BY DEF Start
<1> HIDE DEF first
<1>6. \A s \in Range(first), t \in Range(StartSteps(peered, g)) : <<s.do, t.do>> \in Orderly
  <2>1. \A x \in Downs, y \in Ups \cup {"prepare"} : <<x, y>> \in Orderly
    <3>1. \A x \in Downs : x \in Names /\ x # "peer" /\ x # "prepare"
      BY DEF Names, Downs
    <3>2. \A y \in Ups \cup {"prepare"} : y \in Names /\ y # "stopPeer"
      BY DEF Names, Ups
    <3> QED BY <3>1, <3>2, OrderIs DEF MayFollow
  <2> QED BY <1>4, <2>1, StartFacts
<1>7. /\ todo' \in Seq(AllSteps) /\ Range(todo') = firstRange \cup Range(StartSteps(peered, g))
      /\ Follows(todo', Orderly)
  <2>1. StartSteps(peered, g) \in Seq(AllSteps) /\ Follows(StartSteps(peered, g), Orderly)
    BY StartFacts
  <2>2. todo' \in Seq(AllSteps) /\ Range(todo') = Range(first) \cup Range(StartSteps(peered, g))
    BY <1>4, <1>5, <2>1, ConcatFacts
  <2>3. Follows(todo', Orderly)
    BY <1>4, <1>5, <1>6, <2>1, ConcatFacts
  <2> QED BY <1>4, <2>2, <2>3
<1>8. TodoTyped' /\ \A s \in Range(todo') : s.do \in Downs \cup Ups \cup {"prepare"}
  BY <1>4, <1>7, StartFacts DEF TodoTyped
<1>9. /\ Step("prepare", <<peered, g>>) \in Range(todo') /\ Step("discard", "start") \in Range(todo')
      /\ peered => Step("install", g) \in Range(todo') /\ Step("touch", g) \in Range(todo')
      /\ \A s \in Range(todo') : s.do \in {"install", "peer"} => peered /\ s.arg = g
      /\ \A s \in Range(todo') : s.do # "moved"
  <2>1. \A s \in Range(StartSteps(peered, g)) : s.do \in {"install", "peer"} => peered /\ s.arg = g
    BY StartFacts DEF Step
  <2>2. \A s \in firstRange : s.do \in Downs
    BY <1>4
  <2> HIDE DEF firstRange
  <2>3. \A s \in Range(todo') : s.do \in {"install", "peer"} => peered /\ s.arg = g
    BY <1>7, <2>1, <2>2 DEF Downs
  <2> QED BY <1>7, <1>8, <2>3, StartFacts DEF Downs, Ups
<1>10. /\ Has("prepare")' /\ Has("discard")'
       /\ Has("peer")' => Has("install")' /\ Has("touch")'
  BY <1>9 DEF Has, Step
<1>11. Shaped'
  BY <1>1, <1>7, <1>8, <1>9, <1>10 DEF Shaped, Unprepared, Starting
<1>12. Clearing' /\ ~Starting'
  BY <1>1, <1>10 DEF Clearing, Starting
<1>13. run.up => /\ Step("kill", "primary") \in Range(todo') /\ Step("kill", "amneziawg") \in Range(todo')
                 /\ Step("replay", "down") \in Range(todo')
                 /\ run.touched => Step("stopPeer", run.gw) \in Range(todo')
  BY <1>1, <1>7, TakeDownFacts
<1>14. ~run.up => Clearing
  BY <1>1 DEF Clearing
<1>15. CoresCleared'
  BY <1>1, <1>3, <1>13, <1>14, ThingFacts DEF ReadyInv, Cleared, CoresCleared
<1>16. RoutesCleared'
  <2>1. CASE run.up
    <3>1. Has("replay")'
      BY <1>13, <2>1 DEF Has, Step
    <3>2. ToReplay' = Routes
      BY <1>1, <1>2, <3>1 DEF ToReplay
    <3> QED BY <3>2 DEF RoutesCleared, Ours
  <2>2. CASE ~run.up
    <3>1. ToReplay = {}
      BY <1>2, <1>3 DEF ToReplay
    <3> QED BY <1>1, <1>14, <2>2, <3>1 DEF ReadyInv, Cleared, RoutesCleared, Ours
  <2> QED BY <2>1, <2>2
<1>17. StraysKnown' /\ ConfigKnown'
  BY <1>1, <1>3 DEF ReadyInv, Cleared, StraysKnown, ConfigKnown
<1>18. PeerHandled'
  <2> SUFFICES ASSUME Peered' PROVE Has("stopPeer")'
    BY <1>12 DEF PeerHandled
  <2>1. ~Clearing /\ run.touched
    BY <1>1, <1>3 DEF ReadyInv, PeerHandled, Peered
  <2> QED BY <1>13, <1>14, <2>1 DEF Has, Step
<1>19. CallsInPlace' /\ RoutesFirst'
  BY <1>1, <1>2, <1>9, <1>10 DEF CallsInPlace, RoutesFirst, Has
<1>20. ReadyInv'
  BY <1>11, <1>15, <1>16, <1>17, <1>18, <1>19 DEF ReadyInv, Cleared
<1>21. RunTyped' /\ CoresTyped' /\ peer' \in BOOLEAN /\ PeerIsGuarded'
  BY <1>1, Facts DEF RunTyped, CoresTyped, PeerIsGuarded, Guarded
<1> QED BY <1>1, <1>8, <1>20, <1>21, StaysReady

LEMMA StopKeeps ==
    ASSUME MachineInv, JournalInv', Stop
    PROVE  LifeInv'
<1>1. /\ svc = "ready" /\ doing = "idle" /\ run.up /\ ReadyInv /\ run \in Runs
      /\ UNCHANGED <<table, op, svc, run, cores, peer, config, stuck>>
      /\ doing' = "down" /\ todo' = TakeDown(run) \o <<Step("discard", "stop")>>
  BY Facts DEF Stop, Idle, journalVars
<1>2. todo = <<>> /\ op = NoOp /\ NoOp.do = "none"
  BY <1>1, Facts DEF ReadyInv, Shaped, CallsInPlace
<1>3. Range(todo) = {} /\ \A n : ~Has(n)
  BY <1>2, NoneFacts DEF Has
<1>4. /\ Step("discard", "stop") \in AllSteps /\ Step("discard", "stop").do = "discard"
      /\ ArgIsRight(Step("discard", "stop"))
  <2>1. "stop" \in StepArgs
    BY DEF StepArgs, Words
  <2>2. Step("discard", "stop") \in AllSteps /\ Step("discard", "stop").do = "discard"
    BY <2>1, StepFacts, NameFacts
  <2> QED BY <2>2 DEF ArgIsRight
<1>5. \A s \in Range(TakeDown(run)), t \in {Step("discard", "stop")} : <<s.do, t.do>> \in Orderly
  <2>1. \A x \in Downs : <<x, "discard">> \in Orderly
    BY OrderIs, NameFacts DEF MayFollow, Downs
  <2> QED BY <1>1, <1>4, <2>1, TakeDownFacts
<1>6. /\ todo' \in Seq(AllSteps) /\ Follows(todo', Orderly)
      /\ Range(todo') = Range(TakeDown(run)) \cup {Step("discard", "stop")}
  <2> DEFINE last == <<Step("discard", "stop")>>
  <2>1. last \in Seq(AllSteps) /\ Range(last) = {Step("discard", "stop")} /\ Follows(last, Orderly)
    BY <1>4, OneFacts
  <2>2. TakeDown(run) \in Seq(AllSteps) /\ Follows(TakeDown(run), Orderly)
    BY <1>1, TakeDownFacts
  <2>3. todo' = TakeDown(run) \o last
    BY <1>1
  <2> HIDE DEF last
  <2>4. todo' \in Seq(AllSteps) /\ Range(todo') = Range(TakeDown(run)) \cup Range(last)
    BY <2>1, <2>2, <2>3, ConcatFacts
  <2>5. Follows(todo', Orderly)
    BY <1>5, <2>1, <2>2, <2>3, ConcatFacts
  <2> QED BY <2>1, <2>4, <2>5
<1>7. TodoTyped' /\ \A s \in Range(todo') : s.do \in Downs \cup {"discard"}
  BY <1>1, <1>4, <1>6, TakeDownFacts DEF TodoTyped
<1>8. /\ Step("kill", "primary") \in Range(todo') /\ Step("kill", "amneziawg") \in Range(todo')
      /\ Step("replay", "down") \in Range(todo')
      /\ run.touched => Step("stopPeer", run.gw) \in Range(todo')
  BY <1>1, <1>6, TakeDownFacts
<1>9. Has("replay")' /\ ~Has("prepare")' /\ ~Has("peer")' /\ (run.touched => Has("stopPeer")')
  BY <1>7, <1>8 DEF Has, Step, Downs
<1>10. Shaped'
  BY <1>1, <1>6, <1>7, <1>9 DEF Shaped, Starting, Downs
<1>11. RoutesCleared'
  <2>1. ToReplay' = Routes
    BY <1>1, <1>2, <1>9 DEF ToReplay
  <2> QED BY <2>1 DEF RoutesCleared, Ours
<1>12. StraysKnown' /\ ConfigKnown' /\ CoresCleared'
  BY <1>1, <1>3, <1>8, ThingFacts DEF ReadyInv, Cleared, StraysKnown, ConfigKnown, CoresCleared
<1>13. PeerHandled'
  BY <1>1, <1>9 DEF ReadyInv, PeerHandled, Peered, Clearing, Starting
<1>14. CallsInPlace' /\ RoutesFirst'
  BY <1>1, <1>2, <1>7 DEF CallsInPlace, RoutesFirst, Downs
<1>15. ReadyInv'
  BY <1>10, <1>11, <1>12, <1>13, <1>14 DEF ReadyInv, Cleared
<1>16. RunTyped' /\ CoresTyped' /\ peer' \in BOOLEAN /\ PeerIsGuarded'
  BY <1>1, Facts DEF RunTyped, CoresTyped, PeerIsGuarded, Guarded
<1> QED BY <1>1, <1>7, <1>15, <1>16, StaysReady

LEMMA CarryOverKeeps ==
    ASSUME MachineInv, JournalInv', NEW g \in Gateways, CarryOver(g)
    PROVE  LifeInv'
<1> DEFINE a == Step("install", g) b == Step("remove", run.gw) c == Step("moved", g)
<1>1. /\ svc = "ready" /\ doing = "idle" /\ run.up /\ g # run.gw /\ ReadyInv /\ run \in Runs
      /\ UNCHANGED <<table, op, svc, run, cores, peer, config, stuck>>
      /\ doing' = "carry" /\ todo' = <<a, b, c>>
  BY Facts DEF CarryOver, Idle, journalVars
<1>2. todo = <<>> /\ op = NoOp /\ NoOp.do = "none"
  BY <1>1, Facts DEF ReadyInv, Shaped, CallsInPlace
<1>3. Range(todo) = {} /\ \A n : ~Has(n)
  BY <1>2, NoneFacts DEF Has
<1>4. /\ a \in AllSteps /\ b \in AllSteps /\ c \in AllSteps
      /\ a.do = "install" /\ b.do = "remove" /\ c.do = "moved"
      /\ a.arg = g /\ b.arg = run.gw /\ c.arg = g
  <2>1. g \in StepArgs /\ run.gw \in StepArgs
    BY <1>1 DEF StepArgs, Words, Runs
  <2> QED BY <2>1, StepFacts, NameFacts
<1> HIDE DEF a, b, c
<1>5. {<<"install", "remove">>, <<"install", "moved">>, <<"remove", "moved">>} \subseteq Orderly \cap OldLast
  BY OrderIs, NameFacts DEF MayFollow
<1>6. /\ todo' \in Seq(AllSteps) /\ Range(todo') = {a, b, c}
      /\ Follows(todo', Orderly) /\ Follows(todo', OldLast)
  BY <1>1, <1>4, <1>5, ThreeFacts
<1>7. TodoTyped'
  BY <1>4, <1>6 DEF TodoTyped, ArgIsRight
<1>8. Has("moved")' /\ Has("install")' /\ ~Has("prepare")' /\ ~Has("peer")'
  BY <1>4, <1>6 DEF Has
<1>9. Shaped'
  BY <1>1, <1>4, <1>6, <1>8 DEF Shaped, Moving, Moves, Starting
<1>10. ~Clearing' /\ ~Starting' /\ ~Clearing
  BY <1>1 DEF Clearing, Starting
<1>11. Cleared'
  BY <1>1, <1>3, <1>10 DEF ReadyInv, Cleared, StraysKnown, ConfigKnown, CoresCleared, RoutesCleared
<1>12. PeerHandled'
  BY <1>1, <1>10 DEF ReadyInv, PeerHandled, Peered
<1>13. CallsInPlace' /\ RoutesFirst'
  BY <1>1, <1>2, <1>8 DEF CallsInPlace, RoutesFirst
<1>14. ReadyInv'
  BY <1>9, <1>11, <1>12, <1>13 DEF ReadyInv
<1>15. RunTyped' /\ CoresTyped' /\ peer' \in BOOLEAN /\ PeerIsGuarded'
  BY <1>1, Facts DEF RunTyped, CoresTyped, PeerIsGuarded, Guarded
<1> QED BY <1>1, <1>7, <1>14, <1>15, StaysReady

LEMMA MovedKeeps ==
    ASSUME MachineInv, JournalInv', Moved
    PROVE  LifeInv'
<1>1. /\ todo # <<>> /\ Head(todo).do = "moved" /\ todo' = <<>> /\ doing' = "idle"
      /\ UNCHANGED <<table, op, svc, cores, peer, config, stuck>> /\ op = NoOp
  BY DEF Moved, Now, journalVars
<1>2. svc = "ready" /\ ReadyInv /\ run \in Runs /\ RunTyped /\ TodoTyped /\ NoOp.do = "none"
  BY <1>1, Facts, ReadySteps
<1>3. doing = "carry" /\ Shaped /\ run.up
  BY <1>1, <1>2, WhoseStep DEF ReadyInv, Shaped
<1>4. Head(todo).arg \in Gateways
  BY <1>1, <1>2, HeadFacts DEF ArgIsRight
<1>5. /\ run' \in Runs /\ run'.up /\ run'.touched = run.touched /\ run'.owned = run.owned
  <2>1. run' = run \/ run' = [run EXCEPT !.gw = Head(todo).arg]
    BY DEF Moved, Arg
  <2> QED BY <1>2, <1>3, <1>4, <2>1 DEF Runs
<1>6. Range(todo') = {} /\ Follows(todo', Orderly) /\ todo' \in Seq(AllSteps)
  BY <1>1, NoneFacts
<1>7. \A n : ~Has(n)'
  BY <1>6 DEF Has
<1>8. ~Clearing' /\ ~Starting' /\ ~Clearing
  BY <1>1, <1>3, <1>5 DEF Clearing, Starting
<1>9. ~Has("discard")
  BY <1>3 DEF Shaped, Moving, Moves, Has
<1>10. Shaped'
  BY <1>1, <1>6, <1>7, <1>8 DEF Shaped
<1>11. Cleared'
  BY <1>1, <1>2, <1>8, <1>9 DEF ReadyInv, Cleared, StraysKnown, ConfigKnown, CoresCleared, RoutesCleared
<1>12. RoutesFirst' /\ CallsInPlace' /\ PeerHandled'
  BY <1>1, <1>2, <1>5, <1>6, <1>8 DEF ReadyInv, RoutesFirst, CallsInPlace, PeerHandled, Peered
<1>13. ReadyInv'
  BY <1>10, <1>11, <1>12 DEF ReadyInv
<1>14. RunTyped' /\ CoresTyped' /\ peer' \in BOOLEAN /\ PeerIsGuarded' /\ TodoTyped'
  BY <1>1, <1>2, <1>5, <1>6, Facts DEF RunTyped, CoresTyped, PeerIsGuarded, Guarded, TodoTyped
<1> QED BY <1>1, <1>2, <1>13, <1>14, StaysReady

LEMMA NoRunFacts == NoRun \in Runs /\ NoRun.up = FALSE /\ NoRun.touched = FALSE /\ IsFiniteSet(NoRun.owned)
<1>1. NoRun.owned = {} /\ NoRun.up = FALSE /\ NoRun.touched = FALSE
  BY DEF NoRun
<1>2. NoRun \in Runs
  BY DEF NoRun, Runs
<1> QED BY <1>1, <1>2, FS_EmptySet

\* An operation that ends with nothing of the tunnel left to clear away.
LEMMA EndsCleared ==
    ASSUME todo' = <<>>, doing' = "idle", run' = NoRun, op' = NoOp, JournalTypeOK',
           StraysKnown', config' => Thing("config") \in stuck',
           \A c \in Cores : cores'[c] # "on", Ours' \subseteq stuck', ~Peered'
    PROVE  ReadyInv' /\ TodoTyped' /\ RunTyped'
<1>1. Range(todo') = {} /\ Follows(todo', Orderly) /\ todo' \in Seq(AllSteps)
  BY NoneFacts
<1>2. (\A n : ~Has(n)') /\ ~Starting' /\ op'.do = "none"
  BY <1>1, MadeOps DEF Has, Starting
<1>3. Shaped'
  BY <1>1, <1>2 DEF Shaped
<1>4. Cleared'
  BY DEF Cleared, ConfigKnown, CoresCleared, RoutesCleared
<1>5. RoutesFirst' /\ CallsInPlace' /\ PeerHandled'
  BY <1>1, <1>2 DEF RoutesFirst, CallsInPlace, PeerHandled
<1> QED BY <1>1, <1>3, <1>4, <1>5, NoRunFacts DEF ReadyInv, TodoTyped, RunTyped

LEMMA FinishKeeps ==
    ASSUME MachineInv, JournalInv', Finish
    PROVE  LifeInv'
<1>1. /\ doing # "idle" /\ todo = <<>> /\ op = NoOp /\ doing' = "idle"
      /\ UNCHANGED <<table, op, svc, todo, cores, peer, config, stuck>>
      /\ run' = IF doing = "down" THEN NoRun ELSE run
  BY DEF Finish, journalVars
<1>2. svc = "ready" /\ ReadyInv /\ RunTyped /\ TodoTyped /\ NoOp.do = "none"
  BY <1>1, Facts, ReadySteps
<1>3. Range(todo) = {} /\ \A n : ~Has(n)
  BY <1>1, NoneFacts DEF Has
<1>4. CASE doing = "down"
  <2>1. run' = NoRun /\ Clearing
    BY <1>1, <1>4 DEF Clearing
  <2>2. ToReplay = {}
    BY <1>1, <1>2, <1>3 DEF ToReplay
  <2>3. /\ StraysKnown' /\ (config' => Thing("config") \in stuck')
        /\ (\A c \in Cores : cores'[c] # "on") /\ Ours' \subseteq stuck' /\ ~Peered'
    BY <1>1, <1>2, <1>3, <2>1, <2>2
       DEF ReadyInv, Cleared, StraysKnown, ConfigKnown, CoresCleared, RoutesCleared, Ours,
           PeerHandled, Peered
  <2>4. ReadyInv' /\ TodoTyped' /\ RunTyped'
    BY <1>1, <2>1, <2>3, EndsCleared DEF JournalInv
  <2>5. CoresTyped' /\ peer' \in BOOLEAN /\ PeerIsGuarded'
    BY <1>1, Facts DEF CoresTyped, PeerIsGuarded, Guarded
  <2> QED BY <1>1, <1>2, <2>4, <2>5, StaysReady
<1>5. CASE doing # "down"
  <2>1. run' = run /\ doing = "start" /\ Starting /\ run.up
    BY <1>1, <1>2, <1>3, <1>5 DEF ReadyInv, Shaped, Moving, Starting
  <2>2. ~Clearing' /\ ~Starting' /\ ~Clearing /\ (\A n : ~Has(n)')
    BY <1>1, <1>3, <2>1 DEF Clearing, Starting, Has
  <2>3. Shaped'
    BY <1>1, <1>2, <2>2 DEF ReadyInv, Shaped
  <2>4. Cleared'
    BY <1>1, <1>2, <1>3, <2>2
       DEF ReadyInv, Cleared, StraysKnown, ConfigKnown, CoresCleared, RoutesCleared
  <2>5. RoutesFirst' /\ CallsInPlace' /\ PeerHandled'
    BY <1>1, <1>2, <1>3, <2>1, <2>2 DEF ReadyInv, RoutesFirst, CallsInPlace, PeerHandled, Peered
  <2>6. ReadyInv'
    BY <2>3, <2>4, <2>5 DEF ReadyInv
  <2>7. RunTyped' /\ TodoTyped' /\ CoresTyped' /\ peer' \in BOOLEAN /\ PeerIsGuarded'
    BY <1>1, <2>1, Facts DEF RunTyped, TodoTyped, CoresTyped, PeerIsGuarded, Guarded
  <2> QED BY <1>1, <1>2, <2>6, <2>7, StaysReady
<1> QED BY <1>4, <1>5

-----------------------------------------------------------------------------
(* The steps on processes and files.                                       *)

LEMMA PrepareKeeps ==
    ASSUME MachineInv, JournalInv', Prepare
    PROVE  LifeInv'
<1>1. /\ todo # <<>> /\ Head(todo).do = "prepare" /\ op = NoOp
      /\ UNCHANGED <<table, op, svc, cores, peer>>
  BY DEF Prepare, Now, journalVars
<1>2. svc = "ready" /\ ReadyInv /\ RunTyped /\ TodoTyped /\ NoOp.do = "none"
  BY <1>1, Facts, ReadySteps
<1>3. /\ doing = "start" /\ Has("prepare") /\ Shaped /\ Unprepared /\ Clearing
      /\ Head(todo).arg \in BOOLEAN \X Gateways
  BY <1>1, <1>2, HeadFacts, WhoseStep DEF ReadyInv, Shaped, Clearing, ArgIsRight
<1>4. /\ Range(todo) = {Head(todo)} \cup Range(Tail(todo)) /\ Tail(todo) \in Seq(AllSteps)
      /\ Follows(Tail(todo), Orderly) /\ \A s \in Range(Tail(todo)) : s.do \in Ups
  BY <1>1, <1>2, <1>3, HeadFacts, TailOrder DEF MayFollow
<1>5. /\ ~Has("stopPeer") /\ ~Has("replay") /\ ~Has("moved") /\ ~Has("kill")
      /\ \A c \in Cores : Step("kill", c) \notin Range(todo)
  BY <1>1, <1>4 DEF Has, Ups, Step
<1>6. /\ \A c \in Cores : cores[c] # "on"
      /\ Ours \subseteq stuck /\ ~Peered /\ (config => Thing("config") \in stuck) /\ StraysKnown
  <2>1. ToReplay = {}
    BY <1>1, <1>2, <1>5 DEF ToReplay
  <2> QED BY <1>2, <1>3, <1>5, <2>1
          DEF ReadyInv, Cleared, CoresCleared, RoutesCleared, ConfigKnown, PeerHandled
<1>7. CoresTyped' /\ peer' \in BOOLEAN
  BY <1>1, Facts DEF CoresTyped
<1>8. CASE /\ todo' = Tail(todo) /\ run' = NewRun(Arg[1], Arg[2]) /\ config' = TRUE
           /\ UNCHANGED <<doing, svc, stuck>>
  <2>1. /\ run' \in Runs /\ run'.up /\ run'.owned = {}
    BY <1>3, <1>8 DEF NewRun, Runs, Arg
  <2>2. RunTyped'
    BY <2>1, FS_EmptySet DEF RunTyped
  <2>3. TodoTyped'
    BY <1>2, <1>4, <1>8 DEF TodoTyped
  <2>4. /\ ~Has("prepare")' /\ ~Has("moved")' /\ Has("discard")'
        /\ Has("peer")' => Has("install")' /\ Has("touch")'
    BY <1>1, <1>3, <1>4, <1>8 DEF Has, Ups, Unprepared
  <2>5. Starting' /\ ~Clearing'
    BY <1>3, <1>8, <2>4 DEF Starting, Clearing
  <2>6. Shaped'
    BY <1>3, <1>4, <1>8, <2>1, <2>4, <2>5 DEF Shaped
  <2>7. Cleared'
    BY <1>1, <1>6, <1>8, <2>4, <2>5
       DEF Cleared, StraysKnown, ConfigKnown, CoresCleared, RoutesCleared
  <2>8. CallsInPlace' /\ RoutesFirst'
    BY <1>1, <1>2, <1>3, <1>8, <2>4 DEF CallsInPlace, RoutesFirst, Has
  <2>9. ~Peered'
    BY <1>1, <1>6, <1>8 DEF Peered
  <2>10. ReadyInv'
    BY <2>6, <2>7, <2>8, <2>9 DEF ReadyInv, PeerHandled
  <2>11. PeerIsGuarded'
    BY <2>9 DEF PeerIsGuarded, Peered
  <2> QED BY <1>1, <1>2, <1>7, <2>2, <2>3, <2>10, <2>11, StaysReady
<1>9. CASE /\ todo' = <<>> /\ doing' = "idle" /\ run' = NoRun
           /\ \/ UNCHANGED <<config, stuck>>
              \/ config' = TRUE /\ stuck' = stuck \cup {Thing("config")}
  <2>1. stuck \subseteq stuck' /\ (config' => Thing("config") \in stuck')
    BY <1>6, <1>9
  <2>2. StraysKnown' /\ Ours' \subseteq stuck' /\ ~Peered' /\ \A c \in Cores : cores'[c] # "on"
    BY <1>1, <1>6, <2>1 DEF StraysKnown, Ours, Peered
  <2>3. ReadyInv' /\ TodoTyped' /\ RunTyped'
    BY <1>1, <1>9, <2>1, <2>2, EndsCleared DEF JournalInv
  <2>4. PeerIsGuarded'
    BY <2>2 DEF PeerIsGuarded, Peered
  <2> QED BY <1>1, <1>2, <1>7, <2>3, <2>4, StaysReady
<1> QED BY <1>8, <1>9 DEF Prepare

LEMMA DiscardKeeps ==
    ASSUME MachineInv, JournalInv', Discard
    PROVE  LifeInv'
<1>1. /\ todo # <<>> /\ Head(todo).do = "discard" /\ op = NoOp /\ todo' = Tail(todo)
      /\ UNCHANGED <<table, op, svc, doing, run, cores, peer>>
      /\ (config' => Thing("config") \in stuck')
      /\ \/ stuck' = stuck \ {Thing("config")}
         \/ stuck' = stuck \cup {Thing("config")}
  BY DEF Discard, Now, Onward, journalVars
<1>2. svc = "ready" /\ ReadyInv /\ TodoTyped /\ JournalTypeOK /\ NoOp.do = "none" /\ PeerIsGuarded
  BY <1>1, Facts, ReadySteps
<1>3. /\ StraysKnown' /\ stuck \cap Routes \subseteq stuck' /\ (Peered' => Peered)
  BY <1>1, <1>2, ThingFacts DEF ReadyInv, Cleared, StraysKnown, Peered
<1>4. \A c \in Cores : Step("kill", c) # Head(todo)
  BY <1>1 DEF Step
<1>5. ReadyInv' /\ TodoTyped'
  BY <1>1, <1>2, <1>3, <1>4, OnwardReady DEF ReadyInv, JournalInv
<1>6. RunTyped' /\ CoresTyped' /\ peer' \in BOOLEAN /\ PeerIsGuarded'
  BY <1>1, <1>2, <1>3, Facts, GuardKept DEF RunTyped, CoresTyped
<1> QED BY <1>1, <1>2, <1>5, <1>6, StaysReady

LEMMA StaysRecovering ==
    ASSUME svc' = "recovering", Recovering', TodoTyped', RunTyped', CoresTyped', peer' \in BOOLEAN,
           PeerIsGuarded'
    PROVE  LifeInv'
BY DEF LifeInv, MachineTyped

\* A recovery that fails.
LEMMA Refuses ==
    ASSUME MachineInv, doing = "recover", Fail, op' = NoOp, CoresTyped', peer' \in BOOLEAN,
           table' = table, Peered' => Peered
    PROVE  LifeInv'
<1>1. svc' = "refusing" /\ todo' = <<>> /\ doing' = "idle" /\ run' = run
  BY DEF Fail
<1>2. TodoTyped'
  BY <1>1, NoneFacts DEF TodoTyped
<1>3. RunTyped' /\ PeerIsGuarded'
  BY <1>1, Facts, GuardKept DEF RunTyped
<1> QED BY <1>1, <1>2, <1>3 DEF LifeInv, MachineTyped, AtRest

\* A start or a move that fails at a step which leaves the routes as they are.
LEMMA FailKeeps ==
    ASSUME MachineInv, JournalInv', svc = "ready", Starting \/ doing = "carry", Fail,
           op' = NoOp, config' = config, StraysKnown', CoresTyped', peer' \in BOOLEAN,
           Thing("config") \in stuck => Thing("config") \in stuck',
           Peered' => run.touched, PeerIsGuarded'
    PROVE  LifeInv'
<1>1. ReadyInv' /\ TodoTyped' /\ RunTyped'
  BY Facts, FailReady DEF JournalInv
<1>2. svc' = "ready"
  BY DEF Fail, Starting
<1> QED BY <1>1, <1>2, StaysReady

\* A peer that is set stays behind only if taking it down is known to be due.
LEMMA TouchedIfPeered ==
    ASSUME ReadyInv, Starting \/ doing = "carry", Peered
    PROVE  run.touched
<1>1. ~Clearing
  BY DEF Clearing, Starting
<1> QED BY <1>1 DEF ReadyInv, PeerHandled

LEMMA ReapKeeps ==
    ASSUME MachineInv, JournalInv', Reap
    PROVE  LifeInv'
<1>1. PICK killed \in SUBSET Strays :
          /\ Kill(killed) /\ stuck' = stuck \ {Thing(c) : c \in killed}
          /\ IF killed = Strays THEN Onward ELSE Fail
  BY DEF Reap
<1>2. /\ todo # <<>> /\ Head(todo).do = "reap" /\ op = NoOp /\ NoOp.do = "none"
      /\ UNCHANGED <<table, op, config, err, mem, disk, open>>
  BY Facts DEF Reap, Now, journalVars
<1>3. /\ CoresTyped /\ TodoTyped /\ RunTyped /\ PeerIsGuarded /\ JournalTypeOK /\ peer \in BOOLEAN
      /\ svc \in {"ready", "recovering"} /\ killed \subseteq Cores
      /\ \A c \in Cores : cores[c] = "stray" <=> c \in Strays
  BY <1>2, Facts, ReadySteps DEF Strays
<1>4. /\ CoresTyped' /\ peer' \in BOOLEAN
      /\ \A c \in Cores : cores'[c] = IF c \in killed THEN "off" ELSE cores[c]
      /\ peer' = (peer /\ "amneziawg" \notin killed)
  BY <1>1, <1>3 DEF Kill, CoresTyped
<1>5. /\ Thing("config") \in stuck => Thing("config") \in stuck'
      /\ stuck \cap Routes \subseteq stuck'
      /\ Thing("peer") \in stuck => Thing("peer") \in stuck'
      /\ \A c \in Cores : Thing(c) \in stuck /\ c \notin killed => Thing(c) \in stuck'
  <2>1. {"config", "peer"} \cap Cores = {}
    BY DEF Cores
  <2> QED BY <1>1, <1>3, <2>1, ThingFacts
<1>6. Peered' => Peered
  BY <1>4, <1>5 DEF Peered
<1>7. PeerIsGuarded'
  BY <1>2, <1>3, <1>6, GuardKept
<1>8. CASE svc = "ready"
  <2>1. ReadyInv /\ Starting
    BY <1>2, <1>3, <1>8, Facts, WhoseStep DEF ReadyInv
  <2>2. StraysKnown'
    BY <1>4, <1>5, <2>1 DEF ReadyInv, Cleared, StraysKnown
  <2>3. CASE killed = Strays
    <3>1. todo' = Tail(todo) /\ UNCHANGED <<doing, run, svc>>
      BY <1>1, <2>3 DEF Onward
    <3>2. \A c \in Cores : Step("kill", c) # Head(todo)
      BY <1>2 DEF Step
    <3>3. \A c \in Cores : cores'[c] = "on" => cores[c] = "on"
      BY <1>4
    <3>4. ReadyInv' /\ TodoTyped'
      BY <1>2, <1>3, <1>5, <1>6, <2>1, <2>2, <3>1, <3>2, <3>3, OnwardReady DEF ReadyInv, JournalInv
    <3> QED BY <1>3, <1>4, <1>7, <1>8, <3>1, <3>4, StaysReady DEF RunTyped
  <2>4. CASE killed # Strays
    <3>1. Fail /\ op' = NoOp
      BY <1>1, <1>2, <2>4
    <3>2. Peered' => run.touched
      BY <1>6, <2>1, TouchedIfPeered
    <3> QED BY <1>2, <1>4, <1>5, <1>7, <1>8, <2>1, <2>2, <3>1, <3>2, FailKeeps
  <2> QED BY <2>3, <2>4
<1>9. CASE svc = "recovering"
  <2>1. Recovering /\ doing = "recover" /\ run = NoRun /\ todo = RecoverSteps /\ ~err /\ OnlyStrays
    BY <1>2, <1>9, Facts, RecoveringHead
  <2>2. CASE killed = Strays
    <3>1. todo' = Tail(todo) /\ UNCHANGED <<doing, run, svc>>
      BY <1>1, <2>2 DEF Onward
    <3>2. "amneziawg" \in Cores /\ \A c \in Cores : cores[c] \in {"off", "on", "stray"}
      BY <1>3 DEF Cores, CoresTyped
    <3>3. AllOff'
      BY <1>3, <1>4, <2>1, <2>2, <3>2 DEF OnlyStrays, AllOff
    <3>4. Recovering'
      BY <1>2, <2>1, <3>1, <3>3 DEF Recovering
    <3>5. TodoTyped' /\ RunTyped'
      BY <1>2, <1>3, <3>1, HeadFacts DEF TodoTyped, RunTyped
    <3> QED BY <1>4, <1>7, <1>9, <3>1, <3>4, <3>5, StaysRecovering
  <2>3. CASE killed # Strays
    BY <1>1, <1>2, <1>4, <1>6, <2>1, <2>3, Refuses
  <2> QED BY <2>2, <2>3
<1> QED BY <1>3, <1>8, <1>9

LEMMA SpawnKeeps ==
    ASSUME MachineInv, JournalInv', Spawn
    PROVE  LifeInv'
<1>1. /\ todo # <<>> /\ Head(todo).do = "spawn" /\ op = NoOp
      /\ UNCHANGED <<table, op, peer, config, stuck>>
  BY DEF Spawn, Now, journalVars
<1>2. /\ svc = "ready" /\ ReadyInv /\ TodoTyped /\ JournalTypeOK /\ NoOp.do = "none" /\ PeerIsGuarded
      /\ CoresTyped /\ RunTyped /\ peer \in BOOLEAN
  BY <1>1, Facts, ReadySteps
<1>3. Starting /\ ~Clearing /\ Head(todo).arg \in Cores
  BY <1>1, <1>2, WhoseStep, HeadFacts DEF ReadyInv, Clearing, Starting, ArgIsRight
<1>4. PeerIsGuarded' /\ (Peered' => Peered)
  BY <1>1, <1>2, GuardKept DEF Peered
<1>5. CASE Onward /\ cores' = [cores EXCEPT ![Arg] = "on"]
  <2>1. todo' = Tail(todo) /\ UNCHANGED <<doing, run, svc>>
    BY <1>5 DEF Onward
  <2>2. CoresTyped' /\ StraysKnown'
    BY <1>1, <1>2, <1>3, <1>5 DEF CoresTyped, Arg, ReadyInv, Cleared, StraysKnown
  <2>3. ReadyInv' /\ TodoTyped'
    BY <1>1, <1>2, <1>3, <1>4, <2>1, <2>2, OnwardReady DEF ReadyInv, JournalInv
  <2> QED BY <1>1, <1>2, <1>4, <2>1, <2>2, <2>3, StaysReady DEF RunTyped
<1>6. CASE Fail /\ UNCHANGED cores
  <2>1. StraysKnown' /\ CoresTyped' /\ peer' \in BOOLEAN
    BY <1>1, <1>2, <1>6 DEF ReadyInv, Cleared, StraysKnown, CoresTyped
  <2>2. Peered' => run.touched
    BY <1>2, <1>3, <1>4, TouchedIfPeered
  <2> QED BY <1>1, <1>2, <1>3, <1>4, <1>6, <2>1, <2>2, FailKeeps
<1> QED BY <1>5, <1>6 DEF Spawn

LEMMA AwaitAdapterKeeps ==
    ASSUME MachineInv, JournalInv', AwaitAdapter
    PROVE  LifeInv'
<1>1. /\ todo # <<>> /\ Head(todo).do = "adapter" /\ op = NoOp
      /\ UNCHANGED <<table, op, peer, config, stuck, cores>>
  BY DEF AwaitAdapter, Now, journalVars
<1>2. /\ svc = "ready" /\ ReadyInv /\ TodoTyped /\ JournalTypeOK /\ NoOp.do = "none" /\ PeerIsGuarded
      /\ CoresTyped /\ RunTyped /\ peer \in BOOLEAN
  BY <1>1, Facts, ReadySteps
<1>3. Starting /\ ~Clearing
  BY <1>1, <1>2, WhoseStep DEF ReadyInv, Clearing, Starting
<1>4. PeerIsGuarded' /\ (Peered' => Peered) /\ CoresTyped' /\ StraysKnown'
  BY <1>1, <1>2, GuardKept DEF Peered, CoresTyped, ReadyInv, Cleared, StraysKnown
<1>5. CASE Onward
  <2>1. todo' = Tail(todo) /\ UNCHANGED <<doing, run, svc>>
    BY <1>5 DEF Onward
  <2>2. ReadyInv' /\ TodoTyped'
    BY <1>1, <1>2, <1>3, <1>4, <2>1, OnwardReady DEF ReadyInv, JournalInv
  <2> QED BY <1>1, <1>2, <1>4, <2>1, <2>2, StaysReady DEF RunTyped
<1>6. CASE Fail
  <2>1. Peered' => run.touched
    BY <1>2, <1>3, <1>4, TouchedIfPeered
  <2> QED BY <1>1, <1>2, <1>3, <1>4, <1>6, <2>1, FailKeeps
<1> QED BY <1>5, <1>6 DEF AwaitAdapter

LEMMA KillCoreKeeps ==
    ASSUME MachineInv, JournalInv', KillCore
    PROVE  LifeInv'
<1> DEFINE c0 == Head(todo).arg
<1>1. /\ todo # <<>> /\ Head(todo).do = "kill" /\ op = NoOp
      /\ UNCHANGED <<table, op, config, svc, doing, run>> /\ todo' = Tail(todo)
  BY DEF KillCore, Now, Onward, journalVars
<1>2. /\ svc = "ready" /\ ReadyInv /\ TodoTyped /\ JournalTypeOK /\ NoOp.do = "none" /\ PeerIsGuarded
      /\ CoresTyped /\ RunTyped /\ peer \in BOOLEAN
  BY <1>1, Facts, ReadySteps
<1>3. c0 \in Cores
  BY <1>1, <1>2, HeadFacts DEF ArgIsRight
<1>4. /\ cores' \in [Cores -> {"off", "on", "stray"}] /\ peer' \in BOOLEAN /\ (peer' => peer)
      /\ cores'[c0] # "on" /\ (cores'[c0] = "stray" => cores[c0] = "stray" \/ Thing(c0) \in stuck')
      /\ (\A c \in Cores : c # c0 => cores'[c] = cores[c]) /\ stuck \subseteq stuck'
  <2>1. CASE cores[Arg] # "on" /\ UNCHANGED <<cores, peer, stuck, err>>
    BY <1>2, <2>1 DEF Arg, CoresTyped
  <2>2. CASE cores[Arg] = "on" /\ Kill({Arg}) /\ UNCHANGED <<stuck, err>>
    BY <1>2, <1>3, <2>2 DEF Arg, CoresTyped, Kill
  <2>3. CASE /\ cores[Arg] = "on" /\ cores' = [cores EXCEPT ![Arg] = "stray"]
             /\ stuck' = stuck \cup {Thing(Arg)} /\ err' = TRUE /\ UNCHANGED peer
    BY <1>2, <1>3, <2>3 DEF Arg, CoresTyped
  <2> QED BY <2>1, <2>2, <2>3 DEF KillCore
<1>5. StraysKnown' /\ (Peered' => Peered)
  BY <1>2, <1>4 DEF ReadyInv, Cleared, StraysKnown, Peered
<1>6. \A c \in Cores : cores'[c] = "on" => cores[c] = "on" /\ Step("kill", c) # Head(todo)
  BY <1>4 DEF Step
<1>7. ReadyInv' /\ TodoTyped'
  BY <1>1, <1>2, <1>4, <1>5, <1>6, OnwardReady DEF ReadyInv, JournalInv
<1>8. PeerIsGuarded' /\ RunTyped' /\ CoresTyped'
  BY <1>1, <1>2, <1>4, <1>5, GuardKept DEF RunTyped, CoresTyped
<1> QED BY <1>1, <1>2, <1>4, <1>7, <1>8, StaysReady

-----------------------------------------------------------------------------
(* The steps on the peer.                                                  *)

LEMMA TouchKeeps ==
    ASSUME MachineInv, JournalInv', Touch
    PROVE  LifeInv'
<1>1. /\ todo # <<>> /\ Head(todo).do = "touch" /\ op = NoOp /\ todo' = Tail(todo)
      /\ UNCHANGED <<table, op, peer, config, stuck, cores, svc, doing>>
      /\ run' = [run EXCEPT !.touched = TRUE]
  BY DEF Touch, Now, journalVars
<1>2. /\ svc = "ready" /\ ReadyInv /\ TodoTyped /\ JournalTypeOK /\ NoOp.do = "none" /\ PeerIsGuarded
      /\ CoresTyped /\ RunTyped /\ peer \in BOOLEAN
  BY <1>1, Facts, ReadySteps
<1>3. /\ run' \in Runs /\ run'.up = run.up /\ run'.gw = run.gw /\ run'.owned = run.owned
      /\ run'.touched
  BY <1>1, <1>2 DEF RunTyped, Runs
<1>4. ~Clearing
  BY <1>1, <1>2, WhoseStep DEF ReadyInv, Clearing, Starting
<1>5. PeerIsGuarded' /\ (Peered' => Peered) /\ CoresTyped' /\ StraysKnown' /\ RunTyped'
  BY <1>1, <1>2, <1>3, GuardKept DEF Peered, CoresTyped, ReadyInv, Cleared, StraysKnown, RunTyped
<1>6. ReadyInv' /\ TodoTyped'
  BY <1>1, <1>2, <1>3, <1>4, <1>5, OnwardReady DEF ReadyInv, JournalInv
<1> QED BY <1>1, <1>2, <1>5, <1>6, StaysReady

\* start_tunnel: every address has its route by now.
LEMMA SetPeerKeeps ==
    ASSUME MachineInv, JournalInv', SetPeer
    PROVE  LifeInv'
<1>1. /\ todo # <<>> /\ Head(todo).do = "peer" /\ op = NoOp
      /\ UNCHANGED <<table, op, config, stuck, cores>>
  BY DEF SetPeer, Now, journalVars
<1>2. /\ svc = "ready" /\ ReadyInv /\ TodoTyped /\ JournalTypeOK /\ NoOp.do = "none" /\ PeerIsGuarded
      /\ CoresTyped /\ RunTyped /\ peer \in BOOLEAN
  BY <1>1, Facts, ReadySteps
<1>3. Starting /\ ~Clearing /\ Shaped /\ RoutesFirst /\ Head(todo).arg \in Gateways
  BY <1>1, <1>2, WhoseStep, HeadFacts DEF ReadyInv, Clearing, Starting, ArgIsRight
<1>4. Range(todo) = {Head(todo)} /\ Range(Tail(todo)) = {} /\ Head(todo) \in Range(todo)
  BY <1>1, <1>2, <1>3, TailOrder, HeadFacts DEF MayFollow
<1>5. run.touched
  BY <1>1, <1>3, <1>4 DEF Shaped, Has
<1>6. Guarded
  <2>1. ~Has("install")
    BY <1>1, <1>4 DEF Has
  <2>2. \A a \in Addresses : Covered(a, Head(todo).arg)
    BY <1>1, <1>3, <1>4, <2>1 DEF RoutesFirst
  <2>3. \A a \in Addresses : table[<<a, Head(todo).arg>>] # "none"
    <3>1. \A x : Step("check", x) \notin Range(todo) /\ Step("record", x) \notin Range(todo)
      BY <1>1, <1>4 DEF Step
    <3> QED BY <1>1, <1>2, <2>2, <3>1 DEF Covered
  <2> QED BY <1>3, <2>3 DEF Guarded
<1>7. PeerIsGuarded' /\ CoresTyped' /\ StraysKnown'
  BY <1>1, <1>2, <1>6 DEF PeerIsGuarded, Guarded, CoresTyped, ReadyInv, Cleared, StraysKnown
<1>8. CASE Onward /\ peer' = TRUE
  <2>1. todo' = Tail(todo) /\ UNCHANGED <<doing, run, svc>>
    BY <1>8 DEF Onward
  <2>2. TodoTyped' /\ Shaped' /\ CallsInPlace' /\ Cleared' /\ RoutesFirst'
    BY <1>1, <1>2, <1>3, <1>7, <2>1, OnwardReady DEF JournalInv
  <2>3. todo' = <<>>
    <3>1. todo' \in Seq(AllSteps) /\ DOMAIN todo' = {}
      BY <1>4, <2>1, <2>2 DEF TodoTyped, Range
    <3> QED BY <3>1
  <2>4. ~Clearing'
    BY <1>3, <1>4, <2>1 DEF Clearing, Starting, Has
  <2>5. PeerHandled'
    BY <1>5, <2>1, <2>3, <2>4 DEF PeerHandled
  <2>6. ReadyInv'
    BY <2>2, <2>5 DEF ReadyInv
  <2> QED BY <1>2, <1>7, <1>8, <2>1, <2>2, <2>6, StaysReady DEF RunTyped
<1>9. CASE Fail /\ peer' \in {peer, TRUE}
  <2>1. peer' \in BOOLEAN
    BY <1>2, <1>9
  <2> QED BY <1>1, <1>2, <1>3, <1>5, <1>7, <1>9, <2>1, FailKeeps
<1> QED BY <1>8, <1>9 DEF SetPeer

LEMMA StopPeerKeeps ==
    ASSUME MachineInv, JournalInv', StopPeer
    PROVE  LifeInv'
<1>1. /\ todo # <<>> /\ Head(todo).do = "stopPeer" /\ op = NoOp /\ todo' = Tail(todo)
      /\ UNCHANGED <<table, op, config, cores, svc, doing, run>>
      /\ \/ peer' = FALSE /\ UNCHANGED <<err, stuck>>
         \/ peer /\ UNCHANGED peer /\ stuck' = stuck \cup {Thing("peer")}
  BY DEF StopPeer, Now, Onward, journalVars
<1>2. /\ svc = "ready" /\ ReadyInv /\ TodoTyped /\ JournalTypeOK /\ NoOp.do = "none" /\ PeerIsGuarded
      /\ CoresTyped /\ RunTyped /\ peer \in BOOLEAN
  BY <1>1, Facts, ReadySteps
<1>3. ~Peered' /\ peer' \in BOOLEAN /\ stuck \subseteq stuck'
  BY <1>1, <1>2 DEF Peered
<1>4. PeerIsGuarded' /\ CoresTyped' /\ StraysKnown' /\ RunTyped'
  BY <1>1, <1>2, <1>3 DEF PeerIsGuarded, Peered, CoresTyped, ReadyInv, Cleared, StraysKnown, RunTyped
<1>5. \A c \in Cores : cores'[c] = cores[c] /\ Step("kill", c) # Head(todo)
  BY <1>1 DEF Step
<1>6. ReadyInv' /\ TodoTyped'
  BY <1>1, <1>2, <1>3, <1>4, <1>5, OnwardReady DEF ReadyInv, JournalInv
<1> QED BY <1>1, <1>2, <1>3, <1>4, <1>6, StaysReady

-----------------------------------------------------------------------------
(* The steps on the routes.                                                *)

LEMMA ViaFacts ==
    ASSUME NEW g \in Gateways
    PROVE  Via(g) \subseteq Routes /\ IsFiniteSet(Via(g)) /\ \A a \in Addresses : <<a, g>> \in Via(g)
<1>1. [a \in Addresses |-> <<a, g>>] \in Surjection(Addresses, Via(g))
  BY DEF Surjection, Via
<1>2. IsFiniteSet(Via(g))
  BY <1>1, FS_Surjection, CrashesAssumption
<1> QED BY <1>2, CrashesAssumption DEF Via

LEMMA IntoReady ==
    ASSUME ReadyInv, TodoTyped, todo # <<>>, NEW n \in Names, NEW steps \in Seq(AllSteps),
           <<Head(todo).do, n>> \in {<<"install", "check">>, <<"check", "record">>, <<"remove", "undo">>},
           \A s \in Range(steps) : s.do = n /\ ArgIsRight(s),
           \A R : <<n, n>> \in R => Follows(steps, R),
           n = "undo" /\ doing = "carry" => \A s \in Range(steps) : s.arg.route[2] = run.gw,
           todo' = steps \o Tail(todo), doing' = doing, run' = run, op = NoOp,
           UNCHANGED <<table, op, cores, peer, config, stuck>>,
           RoutesFirst'
    PROVE  ReadyInv' /\ TodoTyped'
<1>1. Shaped /\ CallsInPlace /\ Cleared /\ PeerHandled /\ NoOp.do = "none"
  BY MadeOps DEF ReadyInv
<1>2. /\ Shaped' /\ TodoTyped' /\ Range(todo') = Range(steps) \cup Range(Tail(todo))
      /\ Starting' <=> Starting
      /\ Clearing' <=> Clearing
      /\ \A m : m \notin {Head(todo).do, n} => (Has(m)' <=> Has(m))
  BY <1>1, IntoShape
<1>3. Head(todo).do \in {"install", "check", "remove"} /\ n \in {"check", "record", "undo"}
  OBVIOUS
<1>4. /\ Has("prepare")' <=> Has("prepare")
      /\ Has("discard")' <=> Has("discard")
      /\ Has("replay")' <=> Has("replay")
      /\ Has("stopPeer")' <=> Has("stopPeer")
  BY <1>2, <1>3
<1>5. doing # "idle" /\ Range(todo) = {Head(todo)} \cup Range(Tail(todo))
  BY <1>1, WhoseStep, HeadFacts
<1>6. CallsInPlace'
  BY <1>1, <1>5 DEF CallsInPlace
<1>7. StraysKnown' /\ ConfigKnown'
  BY <1>1, <1>4 DEF Cleared, StraysKnown, ConfigKnown
<1>8. CoresCleared'
  BY <1>1, <1>2, <1>3, <1>5 DEF Cleared, CoresCleared, Step
<1>9. RoutesCleared'
  <2>1. ToReplay' = ToReplay /\ Ours' = Ours
    BY <1>1, <1>4 DEF ToReplay, Ours
  <2> QED BY <1>1, <1>2, <2>1 DEF Cleared, RoutesCleared
<1>10. PeerHandled'
  BY <1>1, <1>2, <1>4 DEF PeerHandled, Peered
<1> QED BY <1>2, <1>6, <1>7, <1>8, <1>9, <1>10 DEF ReadyInv, Cleared

LEMMA InstallKeeps ==
    ASSUME MachineInv, JournalInv', Install
    PROVE  LifeInv'
<1>1. /\ todo # <<>> /\ Head(todo).do = "install" /\ op = NoOp
      /\ UNCHANGED <<table, op, cores, peer, config, stuck>>
  BY DEF Install, Now, journalVars
<1>2. /\ svc = "ready" /\ ReadyInv /\ TodoTyped /\ JournalTypeOK /\ NoOp.do = "none" /\ PeerIsGuarded
      /\ CoresTyped /\ RunTyped /\ peer \in BOOLEAN /\ Shaped
  BY <1>1, Facts, ReadySteps DEF ReadyInv
<1>3. Head(todo).arg \in Gateways /\ (Starting \/ doing = "carry")
  BY <1>1, <1>2, WhoseStep, HeadFacts DEF ArgIsRight
<1>4. PeerIsGuarded' /\ (Peered' => Peered) /\ CoresTyped' /\ StraysKnown'
  BY <1>1, <1>2, GuardKept DEF Peered, CoresTyped, ReadyInv, Cleared, StraysKnown
<1>5. CASE Into(Each("check", Via(Arg)))
  <2> DEFINE via == Via(Head(todo).arg)
             steps == Each("check", via)
  <2>1. todo' = steps \o Tail(todo) /\ UNCHANGED <<doing, run, svc>>
    BY <1>5 DEF Into, Arg
  <2>2. via \in SUBSET StepArgs /\ IsFiniteSet(via) /\ via \subseteq Routes
    BY <1>3, ViaFacts DEF StepArgs
  <2>3. /\ steps \in Seq(AllSteps) /\ Range(steps) = {Step("check", x) : x \in via}
        /\ \A R : <<"check", "check">> \in R => Follows(steps, R)
    BY <2>2, EachFacts, NameFacts
  <2> HIDE DEF steps
  <2>4. \A s \in Range(steps) : s.do = "check" /\ ArgIsRight(s)
    BY <2>2, <2>3 DEF Step, ArgIsRight
  <2>5. Range(todo') = Range(steps) \cup Range(Tail(todo)) /\ Head(todo) \in Range(todo)
        /\ Range(todo) = {Head(todo)} \cup Range(Tail(todo))
    BY <1>1, <1>2, <2>1, <2>3, HeadFacts, ConcatFacts
  <2>6. RoutesFirst'
    <3> SUFFICES ASSUME NEW s \in Range(todo'), NEW a \in Addresses, s.do \in {"peer", "moved"}
                 PROVE  Covered(a, s.arg)'
      BY DEF RoutesFirst
    <3>1. s \in Range(todo) /\ s.arg = Head(todo).arg
      BY <1>1, <1>2, <2>4, <2>5 DEF Shaped
    <3>2. <<a, s.arg>> \in via
      BY <1>3, <3>1, ViaFacts
    <3> QED BY <2>3, <2>5, <3>2 DEF Covered
  <2>7. ReadyInv' /\ TodoTyped'
    BY <1>1, <1>2, <2>1, <2>3, <2>4, <2>6, NameFacts, IntoReady
  <2> QED BY <1>1, <1>2, <1>4, <2>1, <2>7, StaysReady DEF RunTyped
<1>6. CASE Fail
  <2>1. Peered' => run.touched
    BY <1>2, <1>3, <1>4, TouchedIfPeered
  <2> QED BY <1>1, <1>2, <1>3, <1>4, <1>6, <2>1, FailKeeps
<1> QED BY <1>5, <1>6 DEF Install

LEMMA CheckRouteKeeps ==
    ASSUME MachineInv, JournalInv', CheckRoute
    PROVE  LifeInv'
<1>1. /\ todo # <<>> /\ Head(todo).do = "check" /\ op = NoOp
      /\ UNCHANGED <<table, op, cores, peer, config, stuck>>
  BY DEF CheckRoute, Now, journalVars
<1>2. /\ svc = "ready" /\ ReadyInv /\ TodoTyped /\ JournalTypeOK /\ NoOp.do = "none" /\ PeerIsGuarded
      /\ CoresTyped /\ RunTyped /\ peer \in BOOLEAN /\ Shaped /\ RoutesFirst
  BY <1>1, Facts, ReadySteps DEF ReadyInv
<1>3. Head(todo).arg \in Routes /\ (Starting \/ doing = "carry") /\ ~Clearing
  BY <1>1, <1>2, WhoseStep, HeadFacts DEF ArgIsRight, Clearing, Starting
<1>4. PeerIsGuarded' /\ (Peered' => Peered) /\ CoresTyped' /\ StraysKnown'
  BY <1>1, <1>2, GuardKept DEF Peered, CoresTyped, ReadyInv, Cleared, StraysKnown
<1>5. CASE table[Arg] = "none"
  <2> DEFINE steps == <<Step("record", Head(todo).arg)>>
  <2>1. todo' = steps \o Tail(todo) /\ UNCHANGED <<doing, run, svc>>
    BY <1>5 DEF CheckRoute, Into, Arg
  <2>2. /\ Step("record", Head(todo).arg) \in AllSteps /\ Step("record", Head(todo).arg).do = "record"
        /\ Step("record", Head(todo).arg).arg = Head(todo).arg
    <3>1. Head(todo).arg \in StepArgs
      BY <1>3 DEF StepArgs
    <3> QED BY <3>1, StepFacts, NameFacts
  <2>3. /\ steps \in Seq(AllSteps) /\ Range(steps) = {Step("record", Head(todo).arg)}
        /\ \A R : Follows(steps, R)
    BY <2>2, OneFacts
  <2> HIDE DEF steps
  <2>4. \A s \in Range(steps) : s.do = "record" /\ ArgIsRight(s)
    BY <1>3, <2>2, <2>3 DEF ArgIsRight
  <2>5. Range(todo') = Range(steps) \cup Range(Tail(todo)) /\ Head(todo) \in Range(todo)
        /\ Range(todo) = {Head(todo)} \cup Range(Tail(todo))
    BY <1>1, <1>2, <2>1, <2>3, HeadFacts, ConcatFacts
  <2>6. RoutesFirst'
    <3> SUFFICES ASSUME ~Has("install")', NEW s \in Range(todo'), NEW a \in Addresses,
                        s.do \in {"peer", "moved"}
                 PROVE  Covered(a, s.arg)'
      BY DEF RoutesFirst
    <3>1. s \in Range(todo) /\ ~Has("install")
      BY <1>1, <2>4, <2>5 DEF Has
    <3>2. Covered(a, s.arg)
      BY <1>2, <3>1 DEF RoutesFirst
    <3>3. CASE Step("check", <<a, s.arg>>) = Head(todo)
      <4>1. Step("record", <<a, s.arg>>) \in Range(todo')
        BY <2>3, <2>5, <3>3 DEF Step
      <4> QED BY <4>1 DEF Covered
    <3>4. CASE Step("check", <<a, s.arg>>) # Head(todo)
      <4>1. Step("record", <<a, s.arg>>) # Head(todo)
        BY <1>1 DEF Step
      <4> QED BY <1>1, <2>5, <3>2, <3>4, <4>1 DEF Covered
    <3> QED BY <3>3, <3>4
  <2>7. ReadyInv' /\ TodoTyped'
    BY <1>1, <1>2, <2>1, <2>3, <2>4, <2>6, NameFacts, IntoReady
  <2> QED BY <1>1, <1>2, <1>4, <2>1, <2>7, StaysReady DEF RunTyped
<1>6. CASE table[Arg] # "none"
  <2>1. todo' = Tail(todo) /\ UNCHANGED <<doing, run, svc>>
    BY <1>6 DEF CheckRoute, Onward
  <2>2. ReadyInv' /\ TodoTyped'
    BY <1>1, <1>2, <1>3, <1>4, <1>6, <2>1, OnwardReady DEF ReadyInv, JournalInv, Arg
  <2> QED BY <1>1, <1>2, <1>4, <2>1, <2>2, StaysReady DEF RunTyped
<1> QED BY <1>5, <1>6

LEMMA RecordRouteKeeps ==
    ASSUME MachineInv, JournalInv', RecordRoute
    PROVE  LifeInv'
<1>1. /\ todo # <<>> /\ Head(todo).do = "record" /\ op = NoOp
      /\ UNCHANGED <<cores, peer, config, stuck>>
  BY DEF RecordRoute, Now
<1>2. /\ svc = "ready" /\ ReadyInv /\ TodoTyped /\ JournalTypeOK /\ NoOp.do = "none" /\ PeerIsGuarded
      /\ CoresTyped /\ RunTyped /\ peer \in BOOLEAN /\ Shaped
  BY <1>1, Facts, ReadySteps DEF ReadyInv
<1>3. (Starting \/ doing = "carry") /\ ~Clearing
  BY <1>1, <1>2, WhoseStep DEF Clearing, Starting
<1>4. table' = table
  BY DEF RecordRoute, Record, RecordFails
<1>5. PeerIsGuarded' /\ (Peered' => Peered) /\ CoresTyped' /\ StraysKnown'
  BY <1>1, <1>2, <1>4, GuardKept DEF Peered, CoresTyped, ReadyInv, Cleared, StraysKnown
<1>6. CASE Record(Arg) /\ Onward
  <2>1. todo' = Tail(todo) /\ UNCHANGED <<doing, run, svc>>
    BY <1>6 DEF Onward
  <2>2. op'.do = "create" /\ op'.entry.route = Head(todo).arg
    BY <1>6 DEF Record, Creating, Arg
  <2>3. ReadyInv' /\ TodoTyped'
    BY <1>1, <1>2, <1>3, <1>4, <1>5, <2>1, <2>2, OnwardReady DEF ReadyInv, JournalInv
  <2> QED BY <1>1, <1>2, <1>5, <2>1, <2>3, StaysReady DEF RunTyped
<1>7. CASE RecordFails(Arg) /\ Fail
  <2>1. Peered' => run.touched
    BY <1>2, <1>3, <1>5, TouchedIfPeered
  <2>2. op' = NoOp
    BY <1>1, <1>7 DEF RecordFails
  <2> QED BY <1>1, <1>2, <1>3, <1>5, <1>7, <2>1, <2>2, FailKeeps
<1> QED BY <1>6, <1>7 DEF RecordRoute

LEMMA GuardGrows ==
    ASSUME PeerIsGuarded, UNCHANGED <<peer, stuck>>,
           \A r \in Routes : table[r] # "none" => table'[r] # "none"
    PROVE  PeerIsGuarded'
<1>1. \A a \in Addresses, g \in Gateways : <<a, g>> \in Routes
  BY ViaFacts
<1> QED BY <1>1 DEF PeerIsGuarded, Guarded

\* What a call that creates a route, or does not, is part of.
LEMMA CreatingFacts ==
    ASSUME MachineInv, op.do \in {"create", "withdraw"}
    PROVE  /\ svc = "ready" /\ ReadyInv /\ (Starting \/ doing = "carry") /\ ~Clearing
           /\ TodoTyped /\ RunTyped /\ CoresTyped /\ peer \in BOOLEAN /\ JournalTypeOK /\ PeerIsGuarded
           /\ op.entry \in Entries /\ op.entry.route \in Routes /\ NoOp.do = "none"
           /\ op.do = "withdraw" => op.err \in BOOLEAN
<1>1. /\ svc = "ready" /\ ReadyInv /\ TodoTyped /\ RunTyped /\ CoresTyped /\ peer \in BOOLEAN
      /\ JournalTypeOK /\ PeerIsGuarded /\ NoOp.do = "none"
  BY Facts, ReadySteps
<1>2. (Starting \/ doing = "carry") /\ ~Clearing
  BY <1>1 DEF ReadyInv, CallsInPlace, Clearing, Starting
<1>3. op.entry \in Entries /\ op.entry.route \in Routes /\ (op.do = "withdraw" => op.err \in BOOLEAN)
  BY <1>1, OpKinds, EntryFacts DEF JournalTypeOK
<1> QED BY <1>1, <1>2, <1>3

LEMMA CreateRouteKeeps ==
    ASSUME MachineInv, JournalInv', CreateRoute
    PROVE  LifeInv'
<1>1. /\ op.do = "create" /\ table' = [table EXCEPT ![op.entry.route] = "ours"] /\ op' = NoOp
      /\ run' = [run EXCEPT !.owned = @ \cup {op.entry}]
      /\ UNCHANGED <<svc, doing, todo, cores, peer, config, stuck>>
  BY DEF CreateRoute, CreateApplied
<1>2. /\ svc = "ready" /\ ReadyInv /\ ~Clearing /\ TodoTyped /\ RunTyped /\ CoresTyped
      /\ peer \in BOOLEAN /\ JournalTypeOK /\ PeerIsGuarded /\ op.entry \in Entries
      /\ op.entry.route \in Routes /\ NoOp.do = "none"
  BY <1>1, CreatingFacts
<1>3. /\ run' \in Runs /\ run'.up = run.up /\ run'.gw = run.gw /\ run'.touched = run.touched
      /\ run'.owned = run.owned \cup {op.entry}
  BY <1>1, <1>2 DEF RunTyped, Runs
<1>4. RunTyped'
  BY <1>2, <1>3, FS_AddElement DEF RunTyped
<1>5. /\ \A r \in Routes : table[r] # "none" => table'[r] # "none"
      /\ table'[op.entry.route] # "none"
  BY <1>1, <1>2 DEF JournalTypeOK
<1>6. RoutesFirst'
  <2> SUFFICES ASSUME ~Has("install"), NEW s \in Range(todo), NEW a \in Addresses,
                      s.do \in {"peer", "moved"}
               PROVE  Covered(a, s.arg)'
    BY <1>1 DEF RoutesFirst, Has
  <2>1. Covered(a, s.arg)
    BY <1>2 DEF ReadyInv, RoutesFirst
  <2>2. <<a, s.arg>> \in Routes
    <3>1. s.arg \in Gateways
      BY <1>2 DEF TodoTyped, ArgIsRight
    <3> QED BY <3>1, ViaFacts
  <2> QED BY <1>1, <1>5, <2>1, <2>2 DEF Covered
<1>7. CallsInPlace'
  BY <1>1, <1>2 DEF CallsInPlace
<1>8. ReadyInv' /\ TodoTyped'
  BY <1>1, <1>2, <1>3, <1>6, <1>7, CallReady DEF JournalInv
<1>9. PeerIsGuarded' /\ CoresTyped'
  BY <1>1, <1>2, <1>5, GuardGrows DEF CoresTyped
<1> QED BY <1>1, <1>2, <1>4, <1>8, <1>9, StaysReady

LEMMA NoRouteCreatedKeeps ==
    ASSUME MachineInv, JournalInv', NoRouteCreated
    PROVE  LifeInv'
<1>1. PICK e \in BOOLEAN : CreateNothing(e)
  BY DEF NoRouteCreated
<1>2. /\ op.do = "create" /\ (e \/ table[op.entry.route] # "none") /\ table' = table
      /\ op' = Withdrawing(op.entry, e)
      /\ UNCHANGED <<svc, doing, todo, run, cores, peer, config, stuck>>
  BY <1>1 DEF CreateNothing, NoRouteCreated, lifeVars
<1>3. /\ svc = "ready" /\ ReadyInv /\ ~Clearing /\ TodoTyped /\ RunTyped /\ CoresTyped
      /\ (Starting \/ doing = "carry")
      /\ peer \in BOOLEAN /\ JournalTypeOK /\ PeerIsGuarded /\ NoOp.do = "none"
  BY <1>2, CreatingFacts
<1>4. op'.do = "withdraw" /\ op'.err = e
  BY <1>2 DEF Withdrawing
<1>5. RoutesFirst'
  <2> SUFFICES ASSUME ~Has("install"), NEW s \in Range(todo), NEW a \in Addresses,
                      s.do \in {"peer", "moved"}
               PROVE  Covered(a, s.arg)'
    BY <1>2 DEF RoutesFirst, Has
  <2>1. Covered(a, s.arg)
    BY <1>3 DEF ReadyInv, RoutesFirst
  <2> QED BY <1>2, <1>4, <2>1 DEF Covered
<1>6. Starting' \/ doing' = "carry"
  BY <1>2, <1>3 DEF Starting, Has
<1>7. CallsInPlace'
  BY <1>2, <1>3, <1>4, <1>6 DEF CallsInPlace, Starting
<1>8. ReadyInv' /\ TodoTyped'
  BY <1>2, <1>3, <1>5, <1>7, CallReady DEF JournalInv
<1>9. PeerIsGuarded' /\ CoresTyped' /\ RunTyped'
  BY <1>2, <1>3, GuardGrows DEF CoresTyped, RunTyped
<1> QED BY <1>2, <1>3, <1>8, <1>9, StaysReady

LEMMA WithdrawRecordKeeps ==
    ASSUME MachineInv, JournalInv', WithdrawRecord
    PROVE  LifeInv'
<1>1. /\ op.do = "withdraw" /\ table' = table /\ op' = NoOp
      /\ IF op.err THEN Fail ELSE UNCHANGED <<todo, doing, run, svc>>
      /\ UNCHANGED <<cores, peer, config, stuck>>
  BY DEF WithdrawRecord, Withdraw
<1>2. /\ svc = "ready" /\ ReadyInv /\ ~Clearing /\ TodoTyped /\ RunTyped /\ CoresTyped
      /\ (Starting \/ doing = "carry") /\ op.err \in BOOLEAN
      /\ peer \in BOOLEAN /\ JournalTypeOK /\ PeerIsGuarded /\ NoOp.do = "none"
  BY <1>1, CreatingFacts
<1>3. PeerIsGuarded' /\ (Peered' => Peered) /\ CoresTyped' /\ StraysKnown'
  BY <1>1, <1>2, GuardKept DEF Peered, CoresTyped, ReadyInv, Cleared, StraysKnown
<1>4. CASE op.err
  <2>1. Peered' => run.touched
    BY <1>2, <1>3, TouchedIfPeered
  <2> QED BY <1>1, <1>2, <1>3, <1>4, <2>1, FailKeeps
<1>5. CASE ~op.err
  <2>1. UNCHANGED <<todo, doing, run, svc>>
    BY <1>1, <1>5
  <2>2. RoutesFirst'
    <3> SUFFICES ASSUME ~Has("install"), NEW s \in Range(todo), NEW a \in Addresses,
                        s.do \in {"peer", "moved"}
                 PROVE  Covered(a, s.arg)'
      BY <2>1 DEF RoutesFirst, Has
    <3>1. Covered(a, s.arg)
      BY <1>2 DEF ReadyInv, RoutesFirst
    <3> QED BY <1>1, <1>5, <2>1, <3>1 DEF Covered
  <2>3. CallsInPlace'
    BY <1>1, <1>2 DEF CallsInPlace
  <2>4. ReadyInv' /\ TodoTyped'
    BY <1>1, <1>2, <2>1, <2>2, <2>3, CallReady DEF JournalInv
  <2> QED BY <1>1, <1>2, <1>3, <2>1, <2>4, StaysReady DEF RunTyped
<1> QED BY <1>4, <1>5

LEMMA RemoveRoutesKeeps ==
    ASSUME MachineInv, JournalInv', RemoveRoutes
    PROVE  LifeInv'
<1> DEFINE theirs == {e \in run.owned : e.route[2] = Head(todo).arg}
           steps == Each("undo", theirs)
<1>1. /\ todo # <<>> /\ Head(todo).do = "remove" /\ op = NoOp
      /\ UNCHANGED <<table, op, cores, peer, config, stuck>>
      /\ todo' = steps \o Tail(todo) /\ UNCHANGED <<doing, run, svc>>
  BY DEF RemoveRoutes, Now, Into, Arg, journalVars
<1>2. /\ svc = "ready" /\ ReadyInv /\ TodoTyped /\ JournalTypeOK /\ NoOp.do = "none" /\ PeerIsGuarded
      /\ CoresTyped /\ RunTyped /\ peer \in BOOLEAN /\ Shaped /\ RoutesFirst
  BY <1>1, Facts, ReadySteps DEF ReadyInv
<1>3. theirs \in SUBSET StepArgs /\ theirs \subseteq Entries /\ IsFiniteSet(theirs)
  <2>1. theirs \in SUBSET run.owned /\ run.owned \subseteq Entries /\ IsFiniteSet(run.owned)
    BY <1>2 DEF RunTyped, Runs
  <2> QED BY <2>1, FS_Subset DEF StepArgs
<1>4. /\ steps \in Seq(AllSteps) /\ Range(steps) = {Step("undo", x) : x \in theirs}
      /\ \A R : <<"undo", "undo">> \in R => Follows(steps, R)
  BY <1>3, EachFacts, NameFacts
<1> HIDE DEF steps
<1>5. \A s \in Range(steps) : s.do = "undo" /\ ArgIsRight(s) /\ s.arg.route[2] = Head(todo).arg
  BY <1>3, <1>4 DEF Step, ArgIsRight
<1>6. Range(todo') = Range(steps) \cup Range(Tail(todo)) /\ Head(todo) \in Range(todo)
      /\ Range(todo) = {Head(todo)} \cup Range(Tail(todo))
  BY <1>1, <1>2, <1>4, HeadFacts, ConcatFacts
<1>7. doing = "carry" => Head(todo).arg = run.gw
  BY <1>1, <1>2, <1>6 DEF Shaped, Moving
<1>8. RoutesFirst'
  <2> SUFFICES ASSUME ~Has("install")', NEW s \in Range(todo'), NEW a \in Addresses,
                      s.do \in {"peer", "moved"}
               PROVE  Covered(a, s.arg)'
    BY DEF RoutesFirst
  <2>1. s \in Range(todo) /\ ~Has("install")
    BY <1>1, <1>5, <1>6 DEF Has
  <2>2. Covered(a, s.arg)
    BY <1>2, <2>1 DEF RoutesFirst
  <2>3. \A x : Step("check", x) # Head(todo) /\ Step("record", x) # Head(todo)
    BY <1>1 DEF Step
  <2> QED BY <1>1, <1>6, <2>2, <2>3 DEF Covered
<1>9. ReadyInv' /\ TodoTyped'
  BY <1>1, <1>2, <1>4, <1>5, <1>7, <1>8, NameFacts, IntoReady
<1>10. PeerIsGuarded' /\ CoresTyped' /\ RunTyped'
  BY <1>1, <1>2, GuardGrows DEF CoresTyped, RunTyped
<1> QED BY <1>1, <1>2, <1>9, <1>10, StaysReady

\* A route is taken away only from a peer that is gone, that could not be
\* removed, or that has been given another.
LEMMA UndoRouteKeeps ==
    ASSUME MachineInv, JournalInv', UndoRoute
    PROVE  LifeInv'
<1>1. /\ todo # <<>> /\ Head(todo).do = "undo" /\ op = NoOp
      /\ UNCHANGED <<cores, peer, config>>
  BY DEF UndoRoute, Now
<1>2. /\ svc = "ready" /\ ReadyInv /\ TodoTyped /\ JournalTypeOK /\ NoOp.do = "none" /\ PeerIsGuarded
      /\ CoresTyped /\ RunTyped /\ peer \in BOOLEAN /\ Shaped /\ RoutesFirst
  BY <1>1, Facts, ReadySteps DEF ReadyInv
<1>3. Head(todo).arg \in Entries /\ Head(todo).arg.route \in Routes /\ doing # "idle"
      /\ (Clearing \/ doing = "carry")
  BY <1>1, <1>2, WhoseStep, HeadFacts, EntryFacts DEF ArgIsRight
<1>4. CASE /\ UndoReversed(Arg) /\ stuck' = stuck \ {Arg.route}
           /\ UNCHANGED <<svc, doing, todo, run, err>>
  <2> DEFINE r0 == Head(todo).arg.route
  <2>1. /\ table' = [table EXCEPT ![r0] = "none"] /\ op' = Forgetting(Head(todo).arg)
        /\ stuck' = stuck \ {r0} /\ UNCHANGED <<svc, doing, todo, run>>
    BY <1>4 DEF UndoReversed, Reversed, Arg
  <2>2. /\ op'.do = "forget" /\ r0 \in Routes
        /\ \A r \in Routes : table'[r] = IF r = r0 THEN "none" ELSE table[r]
    BY <1>2, <1>3, <2>1 DEF Forgetting, JournalTypeOK
  <2> HIDE DEF r0
  <2>3. \A c \in Cores \cup {"peer", "config"} : Thing(c) \in stuck <=> Thing(c) \in stuck'
    BY <2>1, <2>2, ThingFacts
  <2>4. CallsInPlace'
    BY <1>1, <1>3, <2>1, <2>2 DEF CallsInPlace
  <2>5. ASSUME doing = "carry"
        PROVE  /\ \E s \in Range(todo) : s.do = "moved"
               /\ \A s \in Range(todo) : s.do = "moved" =>
                     s.arg \in Gateways /\ \A a \in Addresses : table'[<<a, s.arg>>] # "none"
    <3>1. /\ Has("moved") /\ r0[2] = run.gw
          /\ \A s \in Range(todo) : s.do = "moved" => s.arg # run.gw
      BY <1>1, <1>2, <2>5, HeadFacts DEF Shaped, Moving, r0
    <3>2. \A s \in Range(todo) : s.do \in {"undo", "moved"}
      BY <1>1, <1>2, <2>5, HeadFacts, TailOrder
    <3>3. ~Has("install") /\ \A x : Step("check", x) \notin Range(todo) /\ Step("record", x) \notin Range(todo)
      BY <3>2 DEF Has, Step
    <3>4. ASSUME NEW s \in Range(todo), s.do = "moved", NEW a \in Addresses
          PROVE  table'[<<a, s.arg>>] # "none"
      <4>1. Covered(a, s.arg)
        BY <1>2, <3>3, <3>4 DEF RoutesFirst
      <4>2. table[<<a, s.arg>>] # "none"
        BY <1>1, <1>2, <3>3, <4>1 DEF Covered
      <4>3. s.arg \in Gateways
        BY <1>2, <3>4 DEF TodoTyped, ArgIsRight
      <4>4. <<a, s.arg>> \in Routes
        BY <4>3, ViaFacts
      <4>5. <<a, s.arg>> # r0
        <5>1. <<a, s.arg>>[2] = s.arg /\ s.arg # run.gw
          BY <3>1, <3>4
        <5> QED BY <3>1, <5>1
      <4> QED BY <2>2, <4>2, <4>4, <4>5
    <3> QED BY <1>2, <3>1, <3>4 DEF Has, TodoTyped, ArgIsRight
  <2>6. RoutesFirst'
    <3> SUFFICES ASSUME ~Has("install"), NEW s \in Range(todo), NEW a \in Addresses,
                        s.do \in {"peer", "moved"}
                 PROVE  Covered(a, s.arg)'
      BY <2>1 DEF RoutesFirst, Has
    <3>1. doing = "carry"
      BY <1>2, <1>3, NothingYet
    <3>2. s.do = "moved"
      BY <1>2, <3>1 DEF Shaped, Moving, Moves
    <3> QED BY <2>5, <3>1, <3>2 DEF Covered
  <2>7. Clearing => Ours' \subseteq stuck' \cup ToReplay'
    <3>1. ToReplay' = ToReplay
      BY <1>1, <1>2, <2>1, <2>2 DEF ToReplay, Has
    <3>2. Ours' \subseteq Ours /\ r0 \notin Ours'
      BY <2>2 DEF Ours
    <3> QED BY <1>2, <2>1, <3>1, <3>2 DEF ReadyInv, Cleared, RoutesCleared
  <2>8. ReadyInv' /\ TodoTyped'
    BY <1>1, <1>2, <2>1, <2>3, <2>4, <2>6, <2>7, CallReady DEF JournalInv
  <2>9. PeerIsGuarded'
    <3> SUFFICES ASSUME Peered' PROVE Guarded'
      BY DEF PeerIsGuarded, Peered
    <3>1. Peered
      BY <1>1, <2>3 DEF Peered
    <3>2. ~Clearing
      <4>1. ~Has("stopPeer")
        BY <1>1, <1>2, HeadFacts, TailOrder DEF Has, MayFollow
      <4> QED BY <1>2, <3>1, <4>1 DEF ReadyInv, PeerHandled
    <3>3. doing = "carry"
      BY <1>3, <3>2
    <3> QED BY <2>5, <3>3 DEF Guarded
  <2> QED BY <1>1, <1>2, <2>1, <2>8, <2>9, StaysReady DEF RunTyped, CoresTyped
<1>5. CASE /\ Onward /\ err' = TRUE /\ stuck' = stuck \cup {Arg.route} /\ UNCHANGED journalVars
  <2>1. todo' = Tail(todo) /\ UNCHANGED <<doing, run, svc, table, op>> /\ stuck \subseteq stuck'
    BY <1>5 DEF Onward, journalVars
  <2>2. StraysKnown' /\ (Peered' => Peered) /\ \A c \in Cores : Step("kill", c) # Head(todo)
    BY <1>1, <1>2, <2>1 DEF ReadyInv, Cleared, StraysKnown, Peered, Step
  <2>3. ReadyInv' /\ TodoTyped'
    BY <1>1, <1>2, <2>1, <2>2, OnwardReady DEF ReadyInv, JournalInv
  <2>4. PeerIsGuarded' /\ CoresTyped' /\ RunTyped'
    BY <1>1, <1>2, <2>1, <2>2, GuardKept DEF CoresTyped, RunTyped
  <2> QED BY <1>1, <1>2, <2>1, <2>3, <2>4, StaysReady
<1> QED BY <1>4, <1>5 DEF UndoRoute

LEMMA ForgetRouteKeeps ==
    ASSUME MachineInv, JournalInv', ForgetRoute
    PROVE  LifeInv'
<1>1. /\ op.do = "forget" /\ table' = table /\ op' = NoOp /\ todo' = Tail(todo)
      /\ run' = run \/ run' = [run EXCEPT !.owned = @ \ {op.entry}]
      /\ UNCHANGED <<svc, doing, cores, peer, config, stuck>>
  BY DEF ForgetRoute, Forget
<1>2. /\ svc = "ready" /\ ReadyInv /\ TodoTyped /\ JournalTypeOK /\ NoOp.do = "none" /\ PeerIsGuarded
      /\ CoresTyped /\ RunTyped /\ peer \in BOOLEAN
  BY <1>1, Facts, ReadySteps
<1>3. todo # <<>> /\ Head(todo).do = "undo"
  BY <1>1, <1>2 DEF ReadyInv, CallsInPlace
<1>4. /\ run' \in Runs /\ run'.up = run.up /\ run'.gw = run.gw /\ run'.touched = run.touched
      /\ run'.owned \in SUBSET run.owned
  BY <1>1, <1>2 DEF RunTyped, Runs
<1>5. RunTyped'
  BY <1>2, <1>4, FS_Subset DEF RunTyped
<1>6. StraysKnown' /\ (Peered' => Peered) /\ \A c \in Cores : Step("kill", c) # Head(todo)
  BY <1>1, <1>2, <1>3 DEF ReadyInv, Cleared, StraysKnown, Peered, Step
<1>7. ReadyInv' /\ TodoTyped'
  BY <1>1, <1>2, <1>3, <1>4, <1>6, OnwardReady DEF ReadyInv, JournalInv
<1>8. PeerIsGuarded' /\ CoresTyped'
  BY <1>1, <1>2, <1>6, GuardKept DEF CoresTyped
<1> QED BY <1>1, <1>2, <1>5, <1>7, <1>8, StaysReady

-----------------------------------------------------------------------------
(* The steps on the journal as a whole.                                    *)

LEMMA OpenJournalKeeps ==
    ASSUME MachineInv, JournalInv', OpenJournal
    PROVE  LifeInv'
<1>1. /\ todo # <<>> /\ Head(todo).do = "open" /\ op = NoOp /\ op' = NoOp /\ table' = table
      /\ UNCHANGED <<err, cores, peer, config, stuck>>
  BY DEF OpenJournal, Now, Open, journalVars
<1>2. svc = "recovering" /\ Recovering /\ CoresTyped /\ RunTyped /\ TodoTyped /\ PeerIsGuarded
      /\ peer \in BOOLEAN
  BY <1>1, Facts, ReadySteps
<1>3. todo = Tail(RecoverSteps) /\ ~err /\ AllOff /\ doing = "recover" /\ run = NoRun
  BY <1>1, <1>2, RecoveringHead
<1>4. CoresTyped' /\ (Peered' => Peered) /\ PeerIsGuarded' /\ AllOff'
  BY <1>1, <1>2, <1>3, GuardKept DEF CoresTyped, Peered, AllOff
<1>5. CASE Open /\ Onward
  <2>1. todo' = Tail(todo) /\ UNCHANGED <<doing, run, svc>>
    BY <1>5 DEF Onward
  <2>2. open' /\ mem' = disk'
    BY <1>5 DEF Open
  <2>3. Recovering'
    BY <1>1, <1>3, <1>4, <2>1, <2>2 DEF Recovering
  <2>4. TodoTyped' /\ RunTyped'
    BY <1>1, <1>2, <2>1, HeadFacts DEF TodoTyped, RunTyped
  <2> QED BY <1>1, <1>2, <1>4, <2>1, <2>3, <2>4, StaysRecovering
<1>6. CASE Fail
  BY <1>1, <1>2, <1>3, <1>4, <1>6, Refuses
<1> QED BY <1>5, <1>6 DEF OpenJournal

LEMMA BeginReplayKeeps ==
    ASSUME MachineInv, JournalInv', BeginReplay
    PROVE  LifeInv'
<1>1. /\ todo # <<>> /\ Head(todo).do = "replay" /\ op = NoOp /\ open
      /\ op' = Replaying(mem.entries, {}) /\ UNCHANGED <<table, disk, mem, open>>
      /\ UNCHANGED <<svc, doing, todo, err, run, cores, peer, config, stuck>>
  BY DEF BeginReplay, Now, StartReplay, lifeVars
<1>2. /\ svc \in {"ready", "recovering"} /\ TodoTyped /\ JournalTypeOK /\ NoOp.do = "none"
      /\ PeerIsGuarded /\ CoresTyped /\ RunTyped /\ peer \in BOOLEAN
  BY <1>1, Facts, ReadySteps
<1>3. op'.do = "replay" /\ op'.left = mem.entries /\ op'.restored = {}
  BY <1>1 DEF Replaying
<1>4. PeerIsGuarded' /\ CoresTyped' /\ RunTyped'
  BY <1>1, <1>2, GuardGrows DEF CoresTyped, RunTyped
<1>5. CASE svc = "ready"
  <2>1. ReadyInv /\ Shaped /\ Clearing /\ doing # "idle"
    BY <1>1, <1>2, <1>5, Facts, WhoseStep DEF ReadyInv
  <2>2. CallsInPlace'
    BY <1>1, <1>3, <2>1 DEF CallsInPlace
  <2>3. RoutesFirst'
    <3>1. \A s \in Range(todo) : s.do \in {"peer", "moved"} => Has("install")
      BY <2>1, NothingYet
    <3> QED BY <1>1, <3>1 DEF RoutesFirst, Has
  <2>4. Ours' \subseteq ToReplay'
    <3>1. Ours \subseteq {e.route : e \in mem.entries}
      BY <1>1 DEF MachineInv, JournalInv, MemoryAndDisk, Staying
    <3> QED BY <1>1, <1>3, <3>1 DEF ToReplay, Ours
  <2>5. ReadyInv' /\ TodoTyped'
    BY <1>1, <1>2, <2>1, <2>2, <2>3, <2>4, CallReady DEF JournalInv
  <2> QED BY <1>1, <1>2, <1>4, <1>5, <2>5, StaysReady
<1>6. CASE svc = "recovering"
  <2>1. /\ doing = "recover" /\ run = NoRun /\ todo = Tail(Tail(RecoverSteps)) /\ AllOff /\ mem = disk
    BY <1>1, <1>6, Facts, RecoveringHead
  <2>2. AllOff' /\ \A e \in mem'.entries : e \in op'.left
    BY <1>1, <1>3, <2>1 DEF AllOff
  <2>3. Recovering'
    BY <1>1, <1>3, <2>1, <2>2 DEF Recovering
  <2> QED BY <1>1, <1>2, <1>4, <1>6, <2>3, StaysRecovering DEF TodoTyped
<1> QED BY <1>2, <1>5, <1>6

LEMMA ReplayRecordKeeps ==
    ASSUME MachineInv, JournalInv', ReplayRecord
    PROVE  LifeInv'
<1>1. PICK e \in op.left, reversed \in BOOLEAN :
          /\ ReplayOne(e, reversed) /\ err' = (err \/ ~reversed)
          /\ stuck' = IF reversed THEN stuck \ {e.route} ELSE stuck \cup {e.route}
  BY DEF ReplayRecord
<1>2. /\ op.do = "replay" /\ UNCHANGED <<svc, doing, todo, run, cores, peer, config, mem, disk, open>>
      /\ table' = IF reversed THEN [table EXCEPT ![e.route] = "none"] ELSE table
      /\ op' = Replaying(op.left \ {e}, IF reversed THEN op.restored \cup {e.id} ELSE op.restored)
  BY <1>1 DEF ReplayOne, ReplayRecord, Reversed
<1>3. /\ op'.do = "replay" /\ op'.left = op.left \ {e}
      /\ op'.restored = IF reversed THEN op.restored \cup {e.id} ELSE op.restored
  BY <1>2 DEF Replaying
<1>4. /\ svc \in {"ready", "recovering"} /\ TodoTyped /\ JournalTypeOK /\ NoOp.do = "none"
      /\ PeerIsGuarded /\ CoresTyped /\ RunTyped /\ peer \in BOOLEAN
  BY <1>2, Facts, ReadySteps
<1>5. e.route \in Routes
  BY <1>2, <1>4, OpKinds, EntryFacts DEF JournalTypeOK
<1>6. \A c \in Cores \cup {"peer", "config"} : Thing(c) \in stuck <=> Thing(c) \in stuck'
  BY <1>1, <1>5, ThingFacts
<1>7. CoresTyped' /\ RunTyped' /\ (Peered' <=> Peered)
  BY <1>2, <1>4, <1>6 DEF CoresTyped, RunTyped, Peered
<1>8. CASE svc = "ready"
  <2>1. /\ ReadyInv /\ Shaped /\ todo # <<>> /\ Head(todo).do = "replay"
    BY <1>2, <1>8, Facts DEF ReadyInv, CallsInPlace
  <2>2. Clearing /\ doing # "idle" /\ ~Has("stopPeer")
    BY <1>4, <2>1, WhoseStep, HeadFacts, TailOrder DEF Has, MayFollow
  <2>3. CallsInPlace'
    BY <1>2, <1>3, <2>1, <2>2 DEF CallsInPlace
  <2>4. RoutesFirst'
    <3>1. \A s \in Range(todo) : s.do \in {"peer", "moved"} => Has("install")
      BY <2>1, <2>2, NothingYet
    <3> QED BY <1>2, <3>1 DEF RoutesFirst, Has
  <2>5. Ours' \subseteq stuck' \cup ToReplay'
    <3>1. ToReplay = {f.route : f \in op.left} /\ ToReplay' = {f.route : f \in op.left \ {e}}
      BY <1>2, <1>3 DEF ToReplay
    <3>2. Ours \subseteq stuck \cup ToReplay
      BY <2>1, <2>2 DEF ReadyInv, Cleared, RoutesCleared
    <3>3. CASE reversed
      <4>1. Ours' \subseteq Ours /\ e.route \notin Ours'
        BY <1>2, <1>4, <1>5, <3>3 DEF Ours, JournalTypeOK
      <4> QED BY <1>1, <3>1, <3>2, <3>3, <4>1
    <3>4. CASE ~reversed
      <4>1. Ours' = Ours
        BY <1>2, <3>4 DEF Ours
      <4> QED BY <1>1, <3>1, <3>2, <3>4, <4>1
    <3> QED BY <3>3, <3>4
  <2>6. ReadyInv' /\ TodoTyped'
    BY <1>2, <1>4, <1>6, <2>1, <2>3, <2>4, <2>5, CallReady DEF JournalInv
  <2>7. PeerIsGuarded'
    BY <1>7, <2>1, <2>2 DEF ReadyInv, PeerHandled, PeerIsGuarded, Peered
  <2> QED BY <1>2, <1>4, <1>7, <1>8, <2>6, <2>7, StaysReady
<1>9. CASE svc = "recovering"
  <2>1. /\ doing = "recover" /\ run = NoRun /\ todo = Tail(Tail(RecoverSteps)) /\ AllOff /\ open
        /\ mem = disk
        /\ err \/ \A f \in mem.entries : f \in op.left \/ f.id \in op.restored
    <3>1. Recovering /\ op # NoOp
      BY <1>2, <1>4, <1>9, Facts
    <3>2. Head(todo).do = "replay"
      BY <3>1, RecoveringHead
    <3> QED BY <3>1, <3>2, RecoveringHead
  <2>2. AllOff' /\ ~peer'
    BY <1>2, <2>1 DEF AllOff
  <2>3. err' \/ \A f \in mem'.entries : f \in op'.left \/ f.id \in op'.restored
    BY <1>1, <1>2, <1>3, <2>1
  <2>4. Recovering'
    BY <1>2, <1>3, <2>1, <2>2, <2>3 DEF Recovering
  <2>5. PeerIsGuarded'
    BY <2>2 DEF PeerIsGuarded
  <2> QED BY <1>2, <1>4, <1>7, <1>9, <2>4, <2>5, StaysRecovering DEF TodoTyped
<1> QED BY <1>4, <1>8, <1>9

LEMMA ReplayDoneKeeps ==
    ASSUME MachineInv, JournalInv', ReplayDone
    PROVE  LifeInv'
<1>1. PICK saved \in BOOLEAN : EndReplay(saved) /\ err' = (err \/ (~saved /\ op.restored # {}))
  BY DEF ReplayDone
<1>2. /\ op.do = "replay" /\ op.left = {} /\ op' = NoOp /\ table' = table
      /\ todo' = Tail(todo) /\ UNCHANGED <<svc, doing, run, cores, peer, config, stuck>>
      /\ IF op.restored = {} THEN UNCHANGED disk ELSE Saves(Without(mem, op.restored), saved)
  BY <1>1 DEF EndReplay, ReplayDone
<1>3. /\ svc \in {"ready", "recovering"} /\ TodoTyped /\ JournalTypeOK /\ NoOp.do = "none"
      /\ PeerIsGuarded /\ CoresTyped /\ RunTyped /\ peer \in BOOLEAN /\ op # NoOp
  BY <1>2, Facts, ReadySteps
<1>4. CoresTyped' /\ RunTyped' /\ (Peered' <=> Peered) /\ PeerIsGuarded'
  BY <1>2, <1>3, GuardKept DEF CoresTyped, RunTyped, Peered
<1>5. CASE svc = "ready"
  <2>1. /\ ReadyInv /\ Shaped /\ todo # <<>> /\ Head(todo).do = "replay"
    BY <1>2, <1>5, Facts DEF ReadyInv, CallsInPlace
  <2>2. Clearing
    BY <1>3, <2>1, WhoseStep
  <2>3. Ours \subseteq stuck'
    <3>1. ToReplay = {}
      BY <1>2 DEF ToReplay
    <3> QED BY <1>2, <2>1, <2>2, <3>1 DEF ReadyInv, Cleared, RoutesCleared
  <2>4. StraysKnown' /\ \A c \in Cores : cores'[c] = cores[c] /\ Step("kill", c) # Head(todo)
    BY <1>2, <2>1 DEF ReadyInv, Cleared, StraysKnown, Step
  <2>5. ReadyInv' /\ TodoTyped'
    BY <1>2, <1>3, <1>4, <2>1, <2>3, <2>4, OnwardReady DEF ReadyInv, JournalInv
  <2> QED BY <1>2, <1>3, <1>4, <1>5, <2>5, StaysReady
<1>6. CASE svc = "recovering"
  <2>1. /\ doing = "recover" /\ run = NoRun /\ todo = Tail(Tail(RecoverSteps)) /\ AllOff /\ open
        /\ mem = disk /\ todo # <<>>
        /\ err \/ \A f \in mem.entries : f \in op.left \/ f.id \in op.restored
    <3>1. Recovering
      BY <1>6, Facts
    <3>2. Head(todo).do = "replay"
      BY <1>3, <3>1, RecoveringHead
    <3> QED BY <1>3, <3>1, <3>2, RecoveringHead
  <2>2. AllOff'
    BY <1>2, <2>1 DEF AllOff
  <2>3. err' \/ disk'.entries = {}
    <3>1. CASE op.restored = {}
      BY <1>1, <1>2, <2>1, <3>1
    <3>2. CASE op.restored # {} /\ saved
      <4>1. disk' = Without(mem, op.restored) /\ mem \in Journals
        BY <1>2, <1>3, <3>2 DEF Saves, JournalTypeOK
      <4>2. disk'.entries = {e \in mem.entries : e.id \notin op.restored}
        BY <4>1, WithoutFacts
      <4> QED BY <1>1, <1>2, <2>1, <4>2
    <3>3. CASE op.restored # {} /\ ~saved
      BY <1>1, <3>3
    <3> QED BY <3>1, <3>2, <3>3
  <2>4. Recovering'
    BY <1>2, <2>1, <2>2, <2>3 DEF Recovering
  <2>5. TodoTyped'
    BY <1>2, <1>3, <2>1, HeadFacts DEF TodoTyped
  <2> QED BY <1>2, <1>3, <1>4, <1>6, <2>4, <2>5, StaysRecovering
<1> QED BY <1>3, <1>5, <1>6

\* What is left when the verdict is given: nothing, or an error to report.
LEMMA AtTheVerdict ==
    ASSUME MachineInv, Now("verdict")
    PROVE  /\ svc = "recovering" /\ run = NoRun /\ op = NoOp /\ AllOff
           /\ err \/ (disk.entries = {} /\ Ours = {})
<1>1. svc = "recovering" /\ Recovering /\ Head(todo).do = "verdict"
  BY Facts, ReadySteps DEF Now
<1>2. run = NoRun /\ op = NoOp /\ AllOff /\ (err \/ disk.entries = {})
  BY <1>1, RecoveringHead
<1>3. disk.entries = {} => Ours = {}
  BY InvRecords DEF MachineInv, ChangesAreRecorded, RoutesOf
<1> QED BY <1>1, <1>2, <1>3

LEMMA VerdictKeeps ==
    ASSUME MachineInv, JournalInv', Verdict
    PROVE  LifeInv'
<1>1. /\ Now("verdict") /\ todo' = <<>> /\ doing' = "idle"
      /\ UNCHANGED <<table, op, run, cores, peer>>
  BY DEF Verdict, journalVars
<1>2. /\ run = NoRun /\ op = NoOp /\ AllOff
      /\ err \/ (disk.entries = {} /\ Ours = {})
  BY <1>1, AtTheVerdict
<1>3. CoresTyped' /\ peer' \in BOOLEAN /\ PeerIsGuarded' /\ ~peer'
  BY <1>1, <1>2, Facts DEF CoresTyped, AllOff, PeerIsGuarded
<1>4. CASE err
  <2>1. svc' = "refusing"
    BY <1>4 DEF Verdict
  <2>2. TodoTyped' /\ RunTyped'
    BY <1>1, <1>2, NoneFacts, Facts DEF TodoTyped, RunTyped
  <2> QED BY <1>1, <1>2, <1>3, <2>1, <2>2 DEF LifeInv, MachineTyped, AtRest
<1>5. CASE ~err
  <2>1. svc' = "ready" /\ (config' => Thing("config") \in stuck')
    BY <1>5 DEF Verdict
  <2>2. StraysKnown' /\ (\A c \in Cores : cores'[c] # "on") /\ Ours' \subseteq stuck' /\ ~Peered'
    BY <1>1, <1>2, <1>3, <1>5 DEF StraysKnown, AllOff, Ours, Peered
  <2>3. ReadyInv' /\ TodoTyped' /\ RunTyped'
    BY <1>1, <1>2, <2>1, <2>2, EndsCleared DEF JournalInv
  <2> QED BY <1>3, <2>1, <2>3, StaysReady
<1> QED BY <1>4, <1>5

-----------------------------------------------------------------------------
(* The service ends and starts, and the surroundings.                      *)

LEMMA ServiceDiesKeeps ==
    ASSUME MachineInv, JournalInv', ServiceDies
    PROVE  LifeInv'
<1>1. /\ svc' = "down" /\ doing' = "idle" /\ todo' = <<>> /\ err' = FALSE /\ run' = NoRun
      /\ op' = NoOp /\ table' = table /\ stuck' = stuck \cap {Thing("peer")}
  BY DEF ServiceDies, Crash
<1>2. PICK alive \in SUBSET {c \in Cores : cores[c] = "on"} :
          /\ cores' = [c \in Cores |-> IF c \in alive \/ cores[c] = "stray" THEN "stray" ELSE "off"]
          /\ peer' = (peer /\ cores'["amneziawg"] = "stray")
  BY DEF ServiceDies
<1>3. CoresTyped' /\ peer' \in BOOLEAN /\ OnlyStrays' /\ (peer' => peer)
  BY <1>2 DEF CoresTyped, OnlyStrays
<1>4. PeerIsGuarded'
  BY <1>1, <1>3, Facts DEF PeerIsGuarded, Guarded
<1>5. TodoTyped' /\ RunTyped'
  BY <1>1, NoneFacts, NoRunFacts DEF TodoTyped, RunTyped
<1> QED BY <1>1, <1>3, <1>4, <1>5 DEF LifeInv, MachineTyped, AtRest

LEMMA ServiceStartsKeeps ==
    ASSUME MachineInv, JournalInv', ServiceStarts
    PROVE  LifeInv'
<1>1. /\ svc = "down" /\ svc' = "recovering" /\ doing' = "recover" /\ todo' = RecoverSteps
      /\ UNCHANGED <<table, op, err, run, cores, peer, config, stuck>>
  BY DEF ServiceStarts, journalVars
<1>2. op = NoOp /\ run = NoRun /\ ~err /\ OnlyStrays
  BY <1>1 DEF MachineInv, LifeInv, AtRest
<1>3. Recovering'
  BY <1>1, <1>2 DEF Recovering, OnlyStrays
<1>4. TodoTyped' /\ RunTyped' /\ CoresTyped' /\ peer' \in BOOLEAN /\ PeerIsGuarded'
  BY <1>1, RecoverFacts, Facts DEF TodoTyped, RunTyped, CoresTyped, PeerIsGuarded, Guarded
<1> QED BY <1>1, <1>3, <1>4, StaysRecovering

LEMMA OthersKeep ==
    ASSUME MachineInv, JournalInv', Others
    PROVE  LifeInv'
<1>1. PICK r \in Routes : TheirsAppears(r)
  BY DEF Others
<1>2. /\ table[r] = "none" /\ table' = [table EXCEPT ![r] = "theirs"]
      /\ UNCHANGED <<disk, mem, open, op>>
      /\ UNCHANGED <<svc, doing, todo, err, run, cores, peer, config, stuck>>
  BY <1>1 DEF TheirsAppears, Others, lifeVars
<1>3. /\ TodoTyped /\ RunTyped /\ CoresTyped /\ peer \in BOOLEAN /\ JournalTypeOK /\ PeerIsGuarded
      /\ svc \in {"down", "recovering", "ready", "refusing"} /\ run \in Runs
  BY Facts
<1>4. /\ \A q \in Routes : table[q] # "none" => table'[q] # "none"
      /\ Ours' = Ours
  BY <1>2, <1>3 DEF JournalTypeOK, Ours
<1>5. PeerIsGuarded' /\ RunTyped' /\ CoresTyped' /\ TodoTyped'
  BY <1>2, <1>3, <1>4, GuardGrows DEF RunTyped, CoresTyped, TodoTyped
<1>6. CASE svc = "ready"
  <2>1. ReadyInv
    BY <1>6, Facts
  <2>2. CallsInPlace'
    BY <1>2, <2>1 DEF ReadyInv, CallsInPlace, Starting, Has
  <2>3. RoutesFirst'
    <3> SUFFICES ASSUME ~Has("install"), NEW s \in Range(todo), NEW a \in Addresses,
                        s.do \in {"peer", "moved"}
                 PROVE  Covered(a, s.arg)'
      BY <1>2 DEF RoutesFirst, Has
    <3>1. Covered(a, s.arg)
      BY <2>1 DEF ReadyInv, RoutesFirst
    <3>2. s.arg \in Gateways
      BY <1>3 DEF TodoTyped, ArgIsRight
    <3>3. <<a, s.arg>> \in Routes
      BY <3>2, ViaFacts
    <3> QED BY <1>2, <1>4, <3>1, <3>3 DEF Covered
  <2>4. Clearing => Ours' \subseteq stuck' \cup ToReplay'
    <3>1. ToReplay' = ToReplay
      BY <1>2 DEF ToReplay, Has
    <3> QED BY <1>2, <1>4, <2>1, <3>1 DEF ReadyInv, Cleared, RoutesCleared
  <2>5. ReadyInv' /\ TodoTyped'
    BY <1>2, <1>3, <2>1, <2>2, <2>3, <2>4, CallReady DEF JournalInv
  <2> QED BY <1>2, <1>3, <1>5, <1>6, <2>5, StaysReady
<1>7. CASE svc = "recovering"
  <2>1. Recovering
    BY <1>7, Facts
  <2>2. Recovering'
    BY <1>2, <2>1 DEF Recovering, OnlyStrays, AllOff
  <2> QED BY <1>2, <1>3, <1>5, <1>7, <2>2, StaysRecovering
<1>8. CASE svc \in {"down", "refusing"}
  BY <1>2, <1>3, <1>5, <1>8 DEF MachineInv, LifeInv, MachineTyped, AtRest, OnlyStrays
<1> QED BY <1>3, <1>6, <1>7, <1>8

-----------------------------------------------------------------------------
(* All steps together.                                                     *)

LEMMA StutterLife ==
    ASSUME MachineInv, UNCHANGED machineVars
    PROVE  LifeInv'
<1>1. /\ UNCHANGED <<table, disk, mem, open, op>>
      /\ UNCHANGED <<svc, doing, todo, err, run, cores, peer, config, stuck>>
  BY DEF machineVars, journalVars, lifeVars
<1>2. MachineTyped' /\ PeerIsGuarded'
  BY <1>1 DEF MachineInv, LifeInv, MachineTyped, TodoTyped, RunTyped, CoresTyped, PeerIsGuarded, Guarded
<1>3. svc = "ready" => ReadyInv'
  <2> SUFFICES ASSUME svc = "ready" PROVE ReadyInv'
    OBVIOUS
  <2>1. ReadyInv /\ TodoTyped
    BY Facts
  <2>2. /\ Shaped' /\ (Starting' <=> Starting) /\ (Clearing' <=> Clearing) /\ \A n : Has(n)' <=> Has(n)
    BY <1>1, <2>1, SameShape DEF ReadyInv
  <2>3. CallsInPlace'
    BY <1>1, <2>1, <2>2 DEF ReadyInv, CallsInPlace
  <2>4. StraysKnown' /\ ConfigKnown' /\ CoresCleared'
    BY <1>1, <2>1, <2>2 DEF ReadyInv, Cleared, StraysKnown, ConfigKnown, CoresCleared
  <2>5. RoutesCleared'
    BY <1>1, <2>1, <2>2 DEF ReadyInv, Cleared, RoutesCleared, Ours, ToReplay
  <2>6. RoutesFirst'
    BY <1>1, <2>1, <2>2 DEF ReadyInv, RoutesFirst, Covered
  <2>7. PeerHandled'
    BY <1>1, <2>1, <2>2 DEF ReadyInv, PeerHandled, Peered
  <2> QED BY <2>2, <2>3, <2>4, <2>5, <2>6, <2>7 DEF ReadyInv, Cleared
<1>4. svc = "recovering" => Recovering'
  BY <1>1 DEF MachineInv, LifeInv, Recovering, OnlyStrays, AllOff
<1> QED BY <1>1, <1>2, <1>3, <1>4 DEF MachineInv, LifeInv, AtRest, OnlyStrays

\* Whatever the machine does, the journal does one of its steps or none.
LEMMA JournalMoves ==
    ASSUME MachineInv, [MachineNext]_machineVars
    PROVE  [JournalNext]_journalVars
<1>1. TodoTyped /\ JournalTypeOK
  BY Facts
<1>2. ASSUME RecordRoute PROVE JournalNext
  <2>1. Head(todo).arg \in Routes
    BY <1>1, <1>2, HeadFacts DEF RecordRoute, Now, ArgIsRight
  <2> QED BY <1>2, <2>1 DEF RecordRoute, JournalNext, Arg
<1>3. ASSUME UndoRoute PROVE [JournalNext]_journalVars
  <2>1. Head(todo).arg \in Entries
    BY <1>1, <1>3, HeadFacts DEF UndoRoute, Now, ArgIsRight
  <2> QED BY <1>3, <2>1 DEF UndoRoute, JournalNext, Arg
<1>4. ASSUME ReplayRecord PROVE JournalNext
  <2>1. op.left \subseteq Entries
    BY <1>1, <1>4, OpKinds DEF ReplayRecord, JournalTypeOK
  <2> QED BY <1>4, <2>1 DEF ReplayRecord, JournalNext
<1>5. ASSUME CreateRoute \/ NoRouteCreated \/ WithdrawRecord \/ ForgetRoute \/ BeginReplay
             \/ ReplayDone \/ ServiceDies \/ Others
      PROVE  JournalNext
  BY <1>5 DEF CreateRoute, NoRouteCreated, WithdrawRecord, ForgetRoute, BeginReplay, ReplayDone,
              ServiceDies, Others, JournalNext
<1>6. ASSUME OpenJournal PROVE [JournalNext]_journalVars
  BY <1>6 DEF OpenJournal, JournalNext
<1>7. ASSUME \/ \E peered \in BOOLEAN, g \in Gateways : Start(peered, g)
             \/ \E g \in Gateways : CarryOver(g)
             \/ Stop \/ Moved \/ Finish
             \/ Prepare \/ Discard \/ Reap \/ Spawn \/ AwaitAdapter \/ KillCore
             \/ Touch \/ SetPeer \/ StopPeer \/ Install \/ CheckRoute \/ RemoveRoutes
             \/ Verdict \/ ServiceStarts
      PROVE  UNCHANGED journalVars
  BY <1>7 DEF Start, CarryOver, Stop, Moved, Finish, Prepare, Discard, Reap, Spawn, AwaitAdapter,
              KillCore, Touch, SetPeer, StopPeer, Install, CheckRoute, RemoveRoutes, Verdict,
              ServiceStarts
<1>8. CASE UNCHANGED machineVars
  BY <1>8 DEF machineVars
<1> QED BY <1>2, <1>3, <1>4, <1>5, <1>6, <1>7, <1>8 DEF MachineNext

LEMMA MachineInitInv == MachineInit => MachineInv
<1> SUFFICES ASSUME MachineInit PROVE MachineInv
  OBVIOUS
<1>1. JournalInv /\ op = NoOp
  BY InitHolds DEF MachineInit, JournalInit
<1>2. TodoTyped /\ RunTyped /\ CoresTyped /\ peer \in BOOLEAN /\ PeerIsGuarded
  BY NoneFacts, NoRunFacts DEF MachineInit, TodoTyped, RunTyped, CoresTyped, PeerIsGuarded
<1> QED BY <1>1, <1>2 DEF MachineInit, MachineInv, LifeInv, MachineTyped, AtRest, OnlyStrays

LEMMA MachineKeeps ==
    ASSUME MachineInv, [MachineNext]_machineVars
    PROVE  MachineInv'
<1>1. JournalInv'
  BY JournalMoves, StepKeeps DEF MachineInv
<1>2. CASE UNCHANGED machineVars
  BY <1>1, <1>2, StutterLife DEF MachineInv
<1>3. CASE MachineNext
  BY <1>1, <1>3, StartKeeps, CarryOverKeeps, StopKeeps, MovedKeeps, FinishKeeps, PrepareKeeps,
     DiscardKeeps, ReapKeeps, SpawnKeeps, AwaitAdapterKeeps, KillCoreKeeps, TouchKeeps, SetPeerKeeps,
     StopPeerKeeps, InstallKeeps, CheckRouteKeeps, RecordRouteKeeps, CreateRouteKeeps,
     NoRouteCreatedKeeps, WithdrawRecordKeeps, RemoveRoutesKeeps, UndoRouteKeeps, ForgetRouteKeeps,
     OpenJournalKeeps, BeginReplayKeeps, ReplayRecordKeeps, ReplayDoneKeeps, VerdictKeeps,
     ServiceDiesKeeps, ServiceStartsKeeps, OthersKeep DEF MachineNext, MachineInv
<1> QED BY <1>2, <1>3

LEMMA MachineSafety == MachineSpec => []MachineInv
<1> QED BY MachineInitInv, MachineKeeps, PTL DEF MachineSpec

-----------------------------------------------------------------------------
(* What follows.                                                           *)

\* What a tunnel does to the routes is what the undo journal allows, at every
\* step of a start, a stop, a move, a crash and a recovery (undo.rs:206).
THEOREM TunnelUsesJournal == MachineSpec => JournalSpec
<1>1. MachineInit => JournalInit
  BY DEF MachineInit
<1> QED BY <1>1, MachineSafety, JournalMoves, PTL DEF MachineSpec, JournalSpec

\* So a crash of the service at any step of a tunnel's life leaves no route
\* without the record that removes it (undo.rs:1, win_route.rs:8).
THEOREM TunnelKeepsPromise == MachineSpec => []ChangesAreRecorded /\ KeepsItsPromise
BY TunnelUsesJournal, JournalRecordsChanges, JournalKeepsPromise, PTL

\* The adapter has a peer only while the endpoint's addresses have their host
\* routes, whatever fails and wherever the service ends; but for a peer that
\* could not be removed (host_route.rs:79, host_route.rs:86).
THEOREM PeerHasItsRoutes == MachineSpec => []PeerIsGuarded
<1>1. MachineInv => PeerIsGuarded
  BY DEF MachineInv, LifeInv
<1> QED BY <1>1, MachineSafety, PTL

\* With no tunnel up and nothing under way, only what a step was asked to remove
\* and could not is left on the machine (tunnel.rs:8, tunnel.rs:15).
THEOREM TakeDownIsComplete == MachineSpec => []OnlyStuckRemains
<1>1. MachineInv => OnlyStuckRemains
  <2> SUFFICES ASSUME MachineInv, svc = "ready", doing = "idle", ~run.up
               PROVE  Left \subseteq stuck
    BY DEF OnlyStuckRemains
  <2>1. ReadyInv /\ CoresTyped /\ NoOp.do = "none"
    BY Facts
  <2>2. todo = <<>> /\ op = NoOp /\ Clearing
    BY <2>1 DEF ReadyInv, Shaped, CallsInPlace, Clearing
  <2>3. Range(todo) = {} /\ \A n : ~Has(n)
    BY <2>2, NoneFacts DEF Has
  <2>4. ToReplay = {}
    BY <2>1, <2>2, <2>3 DEF ToReplay
  <2>5. Ours \subseteq stuck
    BY <2>1, <2>2, <2>4 DEF ReadyInv, Cleared, RoutesCleared
  <2>6. config => Thing("config") \in stuck
    BY <2>1, <2>3 DEF ReadyInv, Cleared, ConfigKnown
  <2>7. \A c \in Cores : cores[c] # "off" => Thing(c) \in stuck
    BY <2>1, <2>2, <2>3 DEF ReadyInv, Cleared, StraysKnown, CoresCleared, CoresTyped
  <2> QED BY <2>5, <2>6, <2>7 DEF Left
<1> QED BY <1>1, MachineSafety, PTL

\* Only the verdict of a recovery makes the service ready.
LEMMA OnlyTheVerdict ==
    ASSUME [MachineNext]_machineVars, svc # "ready", svc' = "ready"
    PROVE  Verdict
BY DEF MachineNext, machineVars, lifeVars, Start, CarryOver, Stop, Moved, Finish, Prepare, Discard,
       Reap, Spawn, AwaitAdapter, KillCore, Touch, SetPeer, StopPeer, Install, CheckRoute, RecordRoute,
       CreateRoute, NoRouteCreated, WithdrawRecord, RemoveRoutes, UndoRoute, ForgetRoute, OpenJournal,
       BeginReplay, ReplayRecord, ReplayDone, ServiceDies, ServiceStarts, Others, Onward, Into, Fail

\* The service comes to connect only on a machine on which no core, no route and
\* no record of an earlier life is left (recovery.rs:1).
THEOREM ReadyMeansRestored == MachineSpec => ReadyIsRestored
<1>1. ASSUME MachineInv, [MachineNext]_machineVars
      PROVE  [svc # "ready" /\ svc' = "ready" =>
                 Ours = {} /\ Strays = {} /\ ~peer /\ disk.entries = {}]_machineVars
  <2> SUFFICES ASSUME svc # "ready", svc' = "ready"
               PROVE  Ours = {} /\ Strays = {} /\ ~peer /\ disk.entries = {}
    OBVIOUS
  <2>1. Now("verdict") /\ ~err
    BY <1>1, OnlyTheVerdict DEF Verdict
  <2>2. AllOff /\ disk.entries = {} /\ Ours = {}
    BY <1>1, <2>1, AtTheVerdict
  <2> QED BY <2>2 DEF AllOff, Strays
<1> QED BY <1>1, MachineSafety, PTL DEF MachineSpec, ReadyIsRestored
=============================================================================

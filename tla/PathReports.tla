---------------------------- MODULE PathReports ----------------------------
(***************************************************************************)
(* What the person is told of a poor network the connection stays on: the  *)
(* reporter that the path monitor asks after every decision                *)
(* (dnet-core/src/degraded.rs).                                            *)
(*                                                                         *)
(* A look may show any carrying path, any band or none, and any reason for *)
(* staying; module PathWatch says which.  Looks are a tick apart, and      *)
(* times are kept as ages in ticks.                                        *)
(***************************************************************************)
EXTENDS Integers, Sequences

CONSTANTS
    Carriers,       \* paths that may carry the connection
    Reasons,        \* NoMove
    PoorFor,        \* degrade_for
    RecoverFor      \* recover_for

Nobody == "nobody"              \* no path carries the connection

ASSUME ReportAssumption == PoorFor \in Nat /\ RecoverFor \in Nat /\ Nobody \notin Carriers

VARIABLES
    reporter,   \* DegradationReporter
    lastWord,   \* what the last look had it say
    seen,       \* history: the last looks, oldest first
    standing    \* history: whether the last word about a poor path still stands

reportVars == <<reporter, lastWord, seen, standing>>

Unset == -1                     \* a clock that has not begun
Bands == {"unusable", "poor", "good"}
Silence == [is |-> "silence"]
Degradations == [path : Carriers, band : {"unusable", "poor"}, staying : Reasons]
Looks ==
    [carrying : Carriers, band : Bands \cup {"unmeasured"}, staying : Reasons]
        \cup [carrying : {Nobody}, band : {"unmeasured"}, staying : Reasons]

LongestWait == IF PoorFor > RecoverFor THEN PoorFor ELSE RecoverFor

ReportTypeOK ==
    /\ reporter.carrying \in Carriers \cup {Nobody}
    /\ reporter.poor \in Unset .. PoorFor /\ reporter.good \in Unset .. RecoverFor
    /\ reporter.reported \in {Silence} \cup Degradations
    /\ lastWord \in {Silence} \cup [is : {"degraded"}, of : Degradations]
                   \cup [is : {"recovered"}, path : Carriers]
    /\ Len(seen) <= LongestWait + 1 /\ standing \in BOOLEAN

ReportInit ==
    /\ reporter = [carrying |-> Nobody, poor |-> Unset, good |-> Unset, reported |-> Silence]
    /\ lastWord = Silence /\ seen = <<>> /\ standing = FALSE

-----------------------------------------------------------------------------
(* DegradationReporter::observe.                                           *)

\* Slip: the clocks run on when another path carries the connection.
ClocksRunningOn(r, look) == [r EXCEPT !.carrying = look.carrying]

\* Another carrying path starts its own clocks.
Clocks(r, look) ==
    IF look.carrying = r.carrying THEN r
    ELSE [r EXCEPT !.carrying = look.carrying, !.poor = Unset, !.good = Unset]

Begun(age) == IF age = Unset THEN 0 ELSE age

\* Whether a report says something new: the path, the reason, or a worse band.
News(before, report) ==
    \/ before = Silence
    \/ before.path # report.path \/ before.staying # report.staying
    \/ report.band = "unusable" /\ before.band # "unusable"

\* What the reporter becomes and what it says, once it follows the carrying path.
Observed(r, look) ==
    LET good == [r EXCEPT !.poor = Unset, !.good = Begun(@)]
        poor == [r EXCEPT !.good = Unset, !.poor = Begun(@)]
        report == [path |-> look.carrying, band |-> look.band, staying |-> look.staying]
    IN CASE look.carrying = Nobody -> <<[r EXCEPT !.reported = Silence], Silence>>
         [] look.carrying # Nobody /\ look.band = "unmeasured" -> <<r, Silence>>
         [] look.band = "good" ->
               IF r.reported # Silence /\ good.good >= RecoverFor
               THEN <<[good EXCEPT !.reported = Silence],
                      [is |-> "recovered", path |-> look.carrying]>>
               ELSE <<good, Silence>>
         [] look.band \in {"poor", "unusable"} ->
               IF poor.poor < PoorFor THEN <<poor, Silence>>
               ELSE <<[poor EXCEPT !.reported = report],
                      IF News(r.reported, report) THEN [is |-> "degraded", of |-> report]
                      ELSE Silence>>

\* Time since the last look.
Aged(r) ==
    [r EXCEPT !.poor = IF @ \in {Unset, PoorFor} THEN @ ELSE @ + 1,
              !.good = IF @ \in {Unset, RecoverFor} THEN @ ELSE @ + 1]

Remembering(look) ==
    LET all == Append(seen, look) IN IF Len(all) > LongestWait + 1 THEN Tail(all) ELSE all

\* PathMonitor::report, at the next tick.
LookAgain(look) ==
    LET next == Observed(Clocks(Aged(reporter), look), look) IN
    /\ reporter' = next[1] /\ lastWord' = next[2]
    /\ seen' = Remembering(look)
    /\ standing' = CASE next[2].is = "degraded" -> TRUE
                     [] next[2].is = "recovered" \/ look.carrying = Nobody -> FALSE
                     [] OTHER -> standing

ReportNext == \E look \in Looks : LookAgain(look)

ReportSpec == ReportInit /\ [][ReportNext]_reportVars

-----------------------------------------------------------------------------
(* Properties.                                                             *)

\* The last n + 1 looks all were of this path and none showed one of the bands.
Stayed(path, n, bands) ==
    /\ Len(seen) > n
    /\ \A i \in Len(seen) - n .. Len(seen) : seen[i].carrying = path /\ seen[i].band \notin bands

\* "Honest degradation reporting" (degraded.rs): a path is said to be poor only
\* after it has carried the connection for the whole wait without one good
\* look, and to have recovered only after a whole wait without a poor one and
\* while an earlier report stands; a report never outlives the loss of every
\* path.  Whatever order of moves, dips and silences the looks come in.
ToldAsSeen ==
    [][/\ lastWord'.is = "degraded" => Stayed(lastWord.of.path, PoorFor, {"good"})'
       /\ lastWord'.is = "recovered" =>
             standing /\ Stayed(lastWord.path, RecoverFor, {"poor", "unusable"})'
       /\ standing' <=> reporter'.reported # Silence]_reportVars
=============================================================================

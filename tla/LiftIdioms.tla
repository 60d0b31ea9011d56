----------------------------- MODULE LiftIdioms -----------------------------
(***************************************************************************)
(* The footgun gallery: src/scripts/generate-lift-idioms.mjs.  Every       *)
(* negative test of every lift is built, at most twice, through koruc; the *)
(* ones that are rejected make LIFT_IDIOMS.md, the others are regressions  *)
(* and turn the exit code.                                                 *)
(*                                                                         *)
(* koruc is external.  Between two runs the lifts and the compiler change, *)
(* so what a build says is chosen anew in every run, once per test and     *)
(* invocation.  A run may be killed between two builds.                    *)
(***************************************************************************)
EXTENDS Naturals, Sequences, FiniteSets

CONSTANTS Lifts,     \* the packages, in order: each the sequence of its negatives
          Outcomes,  \* what a build may do
          MaxRuns    \* bound: runs of the generator

\* What a build leaves: whether it succeeded, and which lines it printed, on stdout
\* alone if it did.
\* "host" is an error of the Zig backend, which is not a koru diagnostic.
AllOutcomes ==
    {[ok |-> TRUE, says |-> {}], [ok |-> TRUE, says |-> {"warning"}],
     [ok |-> FALSE, says |-> {"error"}], [ok |-> FALSE, says |-> {"error", "warning"}],
     [ok |-> FALSE, says |-> {"host"}], [ok |-> FALSE, says |-> {"host", "warning"}]}

ASSUME IdiomsAssumption ==
    Lifts \in Seq(Seq(STRING)) /\ Outcomes \subseteq AllOutcomes /\ MaxRuns \in Nat

VARIABLES phase,      \* "idle" or "build"
          check,      \* --check
          lift, test, \* the package and the negative now being built
          built,      \* the outcomes of this run: [lift, test, how, out]
          entries,    \* the entries of the lift under way
          catalog,    \* [pkg, entries] of the lifts that are done
          regressions, hostErrors,
          file,       \* LIFT_IDIOMS.md, as the catalog it was written from
          exit,       \* the exit code of the last run that ended
          runs

scan == <<lift, test, built, entries, catalog, regressions, hostErrors>>
vars == <<phase, check, scan, file, exit, runs>>

NoFile == <<>>
Killed == 137

Init ==
    /\ phase = "idle" /\ check = FALSE
    /\ lift = 1 /\ test = 1 /\ built = {} /\ entries = <<>> /\ catalog = <<>>
    /\ regressions = <<>> /\ hostErrors = <<>>
    /\ file = NoFile /\ exit = 0 /\ runs = 0

\* The script starts: with --check or without.
Start(checkOnly) ==
    /\ phase = "idle" /\ runs < MaxRuns
    /\ phase' = "build" /\ check' = checkOnly /\ runs' = runs + 1
    /\ lift' = 1 /\ test' = 1 /\ built' = {} /\ entries' = <<>> /\ catalog' = <<>>
    /\ regressions' = <<>> /\ hostErrors' = <<>>
    /\ UNCHANGED <<file, exit>>

\* There is no koruc: the script ends before anything is built.
NoKoruc ==
    /\ phase = "idle" /\ runs < MaxRuns
    /\ runs' = runs + 1 /\ exit' = 2
    /\ UNCHANGED <<phase, check, scan, file>>

\* extractDiagnostics: the koru lines of a build, warnings too.
Diagnostics(out) == out.says \ {"host"}

\* Mutant: the diagnostics shown are the plain build's in both arms.
ClassifyFirstShown(out0, out1) ==
    IF Diagnostics(out0) # {}
    THEN [kind |-> "default", diagnostics |-> Diagnostics(out0), host |-> FALSE]
    ELSE IF Diagnostics(out1) # {}
    THEN [kind |-> "disable", diagnostics |-> Diagnostics(out0), host |-> ~out0.ok]
    ELSE [kind |-> "regression", diagnostics |-> {}, host |-> ~out0.ok]

\* classify: the weakest invocation that makes the test bite.
Classify(out0, out1) ==
    IF Diagnostics(out0) # {}
    THEN [kind |-> "default", diagnostics |-> Diagnostics(out0), host |-> FALSE]
    ELSE IF Diagnostics(out1) # {}
    THEN [kind |-> "disable", diagnostics |-> Diagnostics(out1), host |-> ~out0.ok]
    ELSE [kind |-> "regression", diagnostics |-> {}, host |-> ~out0.ok]

Name == [pkg |-> lift, rel |-> test]

\* Mutant: a lift whose negatives all regressed is left in the contents.
CatalogAlways(done) == Append(catalog, [pkg |-> lift, entries |-> done])

\* A lift is done: it is in the catalog when it has an entry.
CatalogWith(done) ==
    IF done = <<>> THEN catalog ELSE Append(catalog, [pkg |-> lift, entries |-> done])

NotBuilt == [ok |-> TRUE, says |-> {}]

\* One negative: built, and built again with the safety net off when the first
\* build gave no diagnostics; classified and entered.
BuildOne(out0, out1) ==
    LET r == Classify(out0, out1)
        live == r.kind # "regression"
        done == IF live THEN Append(entries, [rel |-> test, kind |-> r.kind, diagnostics |-> r.diagnostics])
                        ELSE entries
        last == test = Len(Lifts[lift])
    IN  /\ phase = "build" /\ lift <= Len(Lifts) /\ test <= Len(Lifts[lift])
        /\ Diagnostics(out0) # {} => out1 = NotBuilt
        /\ built' = built \cup {[name |-> Name, out0 |-> out0, out1 |-> out1]}
        /\ regressions' = IF live THEN regressions ELSE Append(regressions, Name)
        /\ hostErrors' = IF live /\ r.host THEN Append(hostErrors, Name) ELSE hostErrors
        /\ catalog' = IF last THEN CatalogWith(done) ELSE catalog
        /\ entries' = IF last THEN <<>> ELSE done
        /\ lift' = IF last THEN lift + 1 ELSE lift
        /\ test' = IF last THEN 1 ELSE test + 1
        /\ UNCHANGED <<phase, check, file, exit, runs>>

\* A lift without a negative.
SkipLift ==
    /\ phase = "build" /\ lift <= Len(Lifts) /\ Lifts[lift] = <<>>
    /\ lift' = lift + 1
    /\ UNCHANGED <<phase, check, test, built, entries, catalog, regressions, hostErrors, file, exit, runs>>

ExitCode == IF regressions # <<>> THEN 1 ELSE 0

\* Mutant: --check writes as well.
WrittenAlways == catalog

\* --check ends before the file is written.
Written == IF check THEN file ELSE catalog

\* Every negative is built: the file is written, the exit code set.
Finish ==
    /\ phase = "build" /\ lift > Len(Lifts)
    /\ file' = Written /\ exit' = ExitCode
    /\ phase' = "idle"
    /\ UNCHANGED <<check, scan, runs>>

\* The run is killed between two builds: nothing of it remains.
Kill ==
    /\ phase = "build"
    /\ phase' = "idle" /\ exit' = Killed
    /\ UNCHANGED <<check, scan, file, runs>>

Next ==
    \/ \E c \in BOOLEAN : Start(c)
    \/ \E out0, out1 \in Outcomes : BuildOne(out0, out1)
    \/ NoKoruc \/ SkipLift \/ Finish \/ Kill

Spec == Init /\ [][Next]_vars
-----------------------------------------------------------------------------
(* What must hold *)

Negatives == UNION {{[pkg |-> l, rel |-> t] : t \in DOMAIN Lifts[l]} : l \in DOMAIN Lifts}

\* The negatives a corpus shows.
Shown(corpus) ==
    UNION {{[pkg |-> corpus[i].pkg, rel |-> corpus[i].entries[k].rel] :
              k \in DOMAIN corpus[i].entries} : i \in DOMAIN corpus}

Listed(names) == {names[i] : i \in DOMAIN names}

\* The run that ended last came to its end.
Ended == phase = "idle" /\ runs > 0 /\ exit \in {0, 1}

Quiet(b) == Diagnostics(b.out0) = {} /\ Diagnostics(b.out1) = {}

\* The type of every variable.
TypeOK ==
    /\ phase \in {"idle", "build"} /\ check \in BOOLEAN
    /\ lift \in 1..(Len(Lifts) + 1) /\ test \in Nat \ {0}
    /\ lift <= Len(Lifts) => test <= Len(Lifts[lift]) + 1
    /\ \A i \in DOMAIN catalog : catalog[i].pkg < lift /\ catalog[i].entries # <<>>
    /\ Listed(hostErrors) \cap Listed(regressions) = {}
    /\ exit \in {0, 1, 2, Killed} /\ runs \in 0..MaxRuns

\* No negative is lost and none is counted twice: when a run ends every one is
\* either shown, once, under its own lift and in order, or is a regression.
EveryNegativeAccounted ==
    Ended =>
        /\ Shown(catalog) \cup Listed(regressions) = Negatives
        /\ Shown(catalog) \cap Listed(regressions) = {}
        /\ \A i, j \in DOMAIN catalog : i < j => catalog[i].pkg < catalog[j].pkg
        /\ \A i \in DOMAIN catalog : catalog[i].entries # <<>> /\
             \A k, m \in DOMAIN catalog[i].entries :
               k < m => catalog[i].entries[k].rel < catalog[i].entries[m].rel

\* A negative that stops failing is a regression and the script exits non-zero, as
\* its header promises: none compiles with both invocations in a run that exits 0.
CompilingIsRegression ==
    Ended => \A b \in built :
        b.out0.ok /\ b.out1.ok /\ Diagnostics(b.out0) = {} => exit = 1

\* An entry names the weakest invocation that made it bite, and shows what that
\* invocation said: `disable` only if the plain build gave no diagnostic.
WeakestInvocation ==
    Ended => \A i \in DOMAIN catalog : \A k \in DOMAIN catalog[i].entries :
        LET e == catalog[i].entries[k]
            b == CHOOSE x \in built : x.name = [pkg |-> catalog[i].pkg, rel |-> e.rel]
        IN  /\ e.kind = "disable" <=> Diagnostics(b.out0) = {}
            /\ e.diagnostics = Diagnostics(IF e.kind = "default" THEN b.out0 ELSE b.out1)

\* LIFT_IDIOMS.md changes only by a whole run without --check, and then shows
\* every negative that is no regression: not in a check, nor by a run that is
\* killed between two builds.
FileIsAWholeRun ==
    [][file' # file =>
         ~check /\ Shown(file') = Negatives \ Listed(regressions)]_vars

\* The corpus is well formed and leaves no negative out.
CorpusSound == TypeOK /\ EveryNegativeAccounted
=============================================================================

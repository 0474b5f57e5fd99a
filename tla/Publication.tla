----------------------------- MODULE Publication -----------------------------
(***************************************************************************)
(* From a paid run to the dataset card: scripts/full_run.py writes the     *)
(* leaderboard and then the report into the run's own directory, and       *)
(* packaging/hf/publish.py makes a card of a directory named by            *)
(* --artifacts, the run's own or one into which the files of runs are      *)
(* copied.  The run may die anywhere, the script between two files, and    *)
(* the operator may publish at any time.                                   *)
(*                                                                         *)
(* The suites behind a card, and the gate on their overlap, are in         *)
(* TaskSuite.                                                              *)
(***************************************************************************)
EXTENDS EvalRun, Integers

CONSTANT Earlier \* what the shared directory may hold of runs before this one

\* Its files were written before, the report of a run after its leaderboard; a
\* stub's leaderboard says that it is one.
ASSUME EarlierAssumption ==
    \A dir \in Earlier :
        /\ dir = [board |-> dir.board, report |-> dir.report]
        /\ dir.board.mtime \in Int /\ dir.report.mtime \in Int
        /\ dir.board.mtime < 1 /\ dir.report.mtime < 1
        /\ dir.report.mtime >= dir.board.mtime => dir.report.of \in {"nobody", dir.board.of}
        /\ dir.board.of # "this" /\ dir.report.of # "this"
        /\ dir.board.of = "stub" => dir.board.runner # "openai_compat"

VARIABLES runDir, \* artifacts/<run_id>: its leaderboard and its report
          shared, \* the directory an operator copies them to
          now,    \* counts the files written: their mtime
          card    \* the payload built last

pubVars == <<runDir, shared, now, card>>

NoFile == [of |-> "nobody", mtime |-> 0]

Absent == 0

\* The leaderboard of a run; the ones written by full_run.py have no n_tasks.
Board(of, runner, models) ==
    [of |-> of, mtime |-> 0, runner |-> runner, models |-> models, n_tasks |-> Absent]

Report(of) == [of |-> of, mtime |-> 0]

NoCard == [of |-> "nobody", models |-> << >>, coverage |-> "none", report |-> "nobody"]

PubInit ==
    /\ Init
    /\ runDir = [board |-> NoFile, report |-> NoFile]
    /\ shared \in Earlier
    /\ now = 1
    /\ card = NoCard

------------------------------------------------------------------------------
At(file) == [file EXCEPT !.mtime = now]

\* Mutant: the leaderboard is kept up to date while the run goes on.
BoardWhenARowIsThere == rows # << >>

BoardIsDue == phase = "finished"

\* leaderboard.json, the first file after the loop over the models.
WriteBoard ==
    /\ BoardIsDue
    /\ runDir.board = NoFile
    /\ runDir' = [runDir EXCEPT !.board = At(Board("this", "openai_compat", rows))]
    /\ now' = now + 1
    /\ UNCHANGED <<vars, shared, card>>

\* report.md.
WriteReport ==
    /\ runDir.board # NoFile /\ runDir.report = NoFile
    /\ runDir' = [runDir EXCEPT !.report = At(Report("this"))]
    /\ now' = now + 1
    /\ UNCHANGED <<vars, shared, card>>

\* The operator copies the run's files, in the order they were written, and
\* may stop after the first.
Copy(name) ==
    /\ runDir[name] # NoFile
    /\ shared[name].of # "this"
    /\ name = "report" => shared.board.of = "this"
    /\ shared' = [shared EXCEPT ![name] = At(runDir[name])]
    /\ now' = now + 1
    /\ UNCHANGED <<vars, runDir, card>>

\* _results_table(): a stub's leaderboard, or an empty one, is no result.
IsResult(board) ==
    board # NoFile /\ board.runner = "openai_compat" /\ board.models # << >>

\* The rows of _results_table(), in whichever order.
Table(board) == IF IsResult(board) THEN board.models ELSE << >>

\* _coverage_note()'s own copy of that test, which is to mirror it.
CoversNothing(board) ==
    board = NoFile \/ board.runner # "openai_compat" \/ board.models = << >>

\* _coverage_note().
Coverage(board) ==
    CASE CoversNothing(board) -> "none"
      [] ~ CoversNothing(board) /\ board.n_tasks = Absent -> "unknown"
      [] OTHER -> "stated"

\* Mutant: a report next to the leaderboard is taken for its own.
ReportIsThere(dir) == dir.report # NoFile

\* A stopped run leaves the report of the one before.
ReportBelongs(dir) == dir.report # NoFile /\ dir.report.mtime >= dir.board.mtime

\* build_payload(), after the certificate.
CardOf(dir) ==
    [of       |-> IF IsResult(dir.board) THEN dir.board.of ELSE "nobody",
     models   |-> Table(dir.board),
     coverage |-> Coverage(dir.board),
     report   |-> IF IsResult(dir.board) /\ ReportBelongs(dir) THEN dir.report.of ELSE "nobody"]

\* publish.py clears --out and builds the payload anew.
Publish ==
    /\ \E dir \in {runDir, shared} : card' = CardOf(dir)
    /\ UNCHANGED <<vars, runDir, shared, now>>

RunStep == Next /\ UNCHANGED pubVars

PubNext ==
    \/ RunStep
    \/ WriteBoard
    \/ WriteReport
    \/ \E name \in {"board", "report"} : Copy(name)
    \/ Publish

PubSpec == PubInit /\ [][PubNext]_<<vars, pubVars>>

\* Only the run itself is sure to go on.
FairPubSpec == PubSpec /\ WF_<<vars, pubVars>>(RunStep)

------------------------------------------------------------------------------
CameToItsEnd == phase = "finished" /\ (Len(card.models) = Len(ModelIds) \/ aborted)

\* A card has numbers of this run only when the run came to its end with a row
\* of every model, the columns of Row regenerable from the ledger: a run that
\* dies, at any point and whatever it had measured, is never published.
PublishedRunIsComplete ==
    card.of = "this" =>
        /\ CameToItsEnd
        /\ \A i \in DOMAIN card.models : Regenerable(card.models[i])

\* A card is of one run, whatever an interrupted run or copy left in the
\* directory: its report "belongs to the same run", it speaks of a leaderboard's
\* coverage exactly when it shows one ("that would contradict _results_table's
\* own ... line on the very same card"), and it is of no stub.
CardIsOfOneRun ==
    /\ card.report \in {"nobody", card.of}
    /\ (card.coverage = "none") = (card.models = << >>)
    /\ card.of # "stub"
==============================================================================

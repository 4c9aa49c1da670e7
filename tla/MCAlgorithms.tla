---------------------------- MODULE MCAlgorithms ----------------------------
(***************************************************************************)
(* The computations of the system on bounded inputs - the detections, the  *)
(* reports and the figures of series - and the decisions a household makes *)
(* on them, each from its own inputs while the others' are blank.          *)
(***************************************************************************)
EXTENDS MCDetection, MCFigures, MCSeries, Decisions

AllInit == DetectionInit /\ BooksInit /\ PlanInit /\ Init

NoDetection == given = <<>> /\ payments = FirstPayment
NoBooks == ledger = {}
NoPlan == plan = {} /\ askedOn = {}

Detect == DetectionNext /\ NoBooks /\ NoPlan /\ UNCHANGED <<books, figures, vars>>
Report == ReportsNext /\ NoDetection /\ NoPlan /\ UNCHANGED <<detections, figures, vars>>
Plan == FiguresNext /\ NoDetection /\ NoBooks /\ UNCHANGED <<detections, books, vars>>
Undecided == sources = {}
Decide == Next /\ NoDetection /\ NoBooks /\ NoPlan /\ UNCHANGED <<detections, books, figures>>

\* The detection of transfers only tells accounts apart; requests and notes are
\* interchangeable.
Symmetric == Permutations(Account) \cup Permutations(Request) \cup Permutations(Note)

AllNext == (Undecided /\ (Detect \/ Report \/ Plan)) \/ Decide
AllSpec == AllInit /\ [][AllNext]_<<detections, books, figures, vars>>
=============================================================================

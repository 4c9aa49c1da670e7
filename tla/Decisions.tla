----------------------------- MODULE Decisions -----------------------------
(***************************************************************************)
(* Decisions and their follow-up actions (internal/service/decision.go,    *)
(* internal/decisions/status.go).                                          *)
(*                                                                         *)
(* A decision rests on a money review or a scenario and is stored with     *)
(* exactly one planned action.  UpdateActionStatus reads the action,       *)
(* judges the transition on what it read and then updates the row by its   *)
(* id alone, outside any transaction: between the two statements another   *)
(* request may have moved the action on.                                   *)
(***************************************************************************)
EXTENDS Naturals

CONSTANTS
    Request,        \* concurrent requests
    Source,         \* money reviews and scenarios a decision can rest on
    DecisionId,     \* decisions, each with its one action
    Note,           \* outcome notes a user may enter
    NoNote          \* the empty note

ASSUME DecisionsAssumption == NoNote \notin Note

ValidStatuses == {"planned", "done", "skipped", "irrelevant"}
Outcome == {"done", "skipped"}      \* statuses that stamp verified_at

VARIABLES
    sources,    \* reviews and scenarios stored so far; none is ever deleted
    action,     \* action[d]: the row of d's action, NoAction before d exists
    call        \* call[p]: what request p has read

vars == <<sources, action, call>>

NoAction == [status |-> "none", note |-> NoNote, verified |-> FALSE]
\* The action that the query GetAction finds by d's id.
Stored(d) == action[d].status # "none"
\* What the INSERT stores: no note, and verified_at left null.
InsertAction == [status |-> "planned", note |-> NoNote, verified |-> FALSE]
Idle == [at |-> "idle"]

Init ==
    /\ sources = {}
    /\ action = [d \in DecisionId |-> NoAction]
    /\ call = [p \in Request |-> Idle]

\* RunScenario and MoneyReviewService.Create store what decisions rest on.
StoreSource ==
    /\ \E s \in Source \ sources : sources' = sources \cup {s}
    /\ UNCHANGED <<action, call>>

-----------------------------------------------------------------------------
(* Create                                                                  *)

\* The review or the scenario named must exist in the household.
CheckSource(p) ==
    /\ call[p] = Idle
    /\ \E d \in DecisionId, s \in sources :
          /\ ~Stored(d)
          /\ \A q \in Request : call[q].at = "create" => call[q].decision # d
          /\ call' = [call EXCEPT ![p] = [at |-> "create", decision |-> d]]
    /\ UNCHANGED <<sources, action>>

\* One transaction inserts the decision and its action.
InsertDecision(p) ==
    /\ call[p].at = "create"
    /\ action' = [action EXCEPT ![call[p].decision] = InsertAction]
    /\ call' = [call EXCEPT ![p] = Idle]
    /\ UNCHANGED sources

-----------------------------------------------------------------------------
(* UpdateActionStatus                                                      *)

\* Bug: any known status may follow any other.
AnyKnownStatus(from, to) == to \in ValidStatuses
\* decisions.CanTransition.
CanTransition(from, to) ==
    \/ from = to
    \/ from = "planned" /\ to \in ValidStatuses \ {"planned"}

\* GetAction: the request keeps the row it read; a status that is unknown or
\* not reachable from the row's ends the request.
GetAction(p) ==
    /\ call[p] = Idle
    /\ \E d \in DecisionId, to \in ValidStatuses, n \in Note \cup {NoNote} :
          /\ Stored(d)
          /\ CanTransition(action[d].status, to)
          /\ call' = [call EXCEPT ![p] =
                [at |-> "update", decision |-> d, row |-> action[d],
                 to |-> to, note |-> n]]
    /\ UNCHANGED <<sources, action>>

\* verified_at: stamped by an outcome, otherwise as it was in the row read.
Verified(row, to) == to \in Outcome \/ row.verified
\* Bug: an empty note stored as it is.
NoteAsSent(row, note) == note
\* outcome_note: an empty note keeps the one in the row read.
OutcomeNote(row, note) == IF note = NoNote THEN row.note ELSE note

\* The UPDATE names the action by its id only.
UpdateActionStatus(p) ==
    /\ call[p].at = "update"
    /\ action' = [action EXCEPT ![call[p].decision] =
          [status   |-> call[p].to,
           note     |-> OutcomeNote(call[p].row, call[p].note),
           verified |-> Verified(call[p].row, call[p].to)]]
    /\ call' = [call EXCEPT ![p] = Idle]
    /\ UNCHANGED sources

\* A request cancelled, or a process that dies, before its write commits.
Abort(p) ==
    /\ call[p] # Idle
    /\ call' = [call EXCEPT ![p] = Idle]
    /\ UNCHANGED <<sources, action>>

Next ==
    \/ StoreSource
    \/ \E p \in Request :
          \/ CheckSource(p) \/ InsertDecision(p)
          \/ GetAction(p) \/ UpdateActionStatus(p) \/ Abort(p)

Spec == Init /\ [][Next]_vars

-----------------------------------------------------------------------------
(* Properties                                                              *)

Row == [status : ValidStatuses, note : Note \cup {NoNote}, verified : BOOLEAN]
Update == [at : {"update"}, decision : DecisionId, row : Row,
           to : ValidStatuses, note : Note \cup {NoNote}]
Create == [at : {"create"}, decision : DecisionId]

\* Every action has one of the four statuses of its check constraint.
TypeOK ==
    /\ sources \subseteq Source
    /\ action \in [DecisionId -> Row \cup {NoAction}]
    /\ call \in [Request -> {Idle} \cup Create \cup Update]

\* verified_at says that the outcome was verified: it is set exactly on the
\* actions that are done or skipped, even when requests that read the same
\* action overwrite one another.
VerifiedIffOutcome ==
    \A d \in DecisionId : action[d].verified <=> action[d].status \in Outcome

Terminal(d) == action[d].status \in ValidStatuses \ {"planned"}
Blanked(d) == action[d].note # NoNote /\ action'[d].note = NoNote

\* A terminal status is overwritten, and a note blanked, only by a request
\* that read the action before another one changed it: requests that do not
\* overlap keep terminal statuses fixed and notes in place ("planned may move
\* to done/skipped/irrelevant; terminal statuses are fixed.",
\* decisions/status.go:21).
OverwritesOnlyUnseen ==
    [][\A d \in DecisionId :
          (Terminal(d) /\ action'[d].status # action[d].status) \/ Blanked(d)
             => \E p \in Request : /\ call[p].at = "update"
                                  /\ call[p].decision = d
                                  /\ call[p].row # action[d]
                                  /\ call'[p] = Idle]_vars

=============================================================================

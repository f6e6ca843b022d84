-------------------------- MODULE PublishRevision --------------------------
(***************************************************************************)
(* The optimistic concurrency control over the published set: browsers     *)
(* that show the history and toggle what is published (state and           *)
(* handleHistoryPublish of internal/server/server.go), and exports that    *)
(* render for minutes and publish only if nothing was published meanwhile  *)
(* (CommitPreparedNicoMedia of internal/library/nico_prepared.go).         *)
(*                                                                         *)
(* Each call of a handler on the Store takes the mutex anew; other         *)
(* operations of the library, among them another browser's SetPublished,   *)
(* come in between.                                                        *)
(***************************************************************************)
EXTENDS MediaLibrary

CONSTANTS
  Clients,    \* browsers
  Exports     \* running exports

VARIABLES
  cpc,        \* where a browser's request is
  seen,       \* state.publishedRevision of the browser
  view,       \* the published items of its history list
  want,       \* the toggle it has asked for, until it is written
  polled,     \* ghost: browsers that show what one poll of this run returned
  epc,        \* where an export is
  expected,   \* its ExpectedRevision
  basis       \* ghost: the published set when it read the revision

clientVars == <<cpc, seen, view, want, polled>>
exportVars == <<epc, expected, basis>>
allVars == <<vars, clientVars, exportVars>>

Nothing == <<NoMedia, FALSE>>

To(c, step) == cpc' = [cpc EXCEPT ![c] = step]
KeepLibrary == UNCHANGED <<vars, exportVars>>

(* The two reads behind GET state: the revision first, then the history.   *)
ReadRevision(c) ==
  /\ seen' = [seen EXCEPT ![c] = revision]
  /\ UNCHANGED view
ReadHistory(c) ==
  /\ view' = [view EXCEPT ![c] = published]
  /\ UNCHANGED seen

PollRevision(c) ==
  /\ Idle /\ cpc[c] = "idle" /\ ReadRevision(c) /\ To(c, "polled")
  /\ polled' = polled \cup {c}
  /\ UNCHANGED want /\ KeepLibrary

PollHistory(c) ==
  /\ Idle /\ cpc[c] = "polled" /\ ReadHistory(c) /\ To(c, "idle")
  /\ UNCHANGED <<want, polled>> /\ KeepLibrary

(* handleHistoryPublish: a revision of zero is not checked; a mismatch is  *)
(* answered with 409 and leaves everything as it is.                       *)
RevisionAccepted(c) == seen[c] = 0 \/ seen[c] = revision

Accept(c, m, b) ==
  /\ Idle /\ cpc[c] = "idle"
  /\ m \in view[c] <=> ~b
  /\ RevisionAccepted(c)
  /\ To(c, "accepted")
  /\ want' = [want EXCEPT ![c] = <<m, b>>]
  /\ UNCHANGED <<seen, view, polled>> /\ KeepLibrary

Write(c) ==
  /\ cpc[c] = "accepted"
  /\ \/ /\ SetPublished(want[c][1], want[c][2]) /\ To(c, "written")
        /\ polled' = polled \ {c}
     \/ /\ Idle /\ want[c][1] \notin history /\ To(c, "idle")
        /\ UNCHANGED <<vars, polled>>
  /\ want' = [want EXCEPT ![c] = Nothing]
  /\ UNCHANGED <<seen, view, exportVars>>

(* The answer: the history first, then the revision; the browser takes     *)
(* both.                                                                   *)
ReplyHistory(c) ==
  /\ Idle /\ cpc[c] = "written" /\ ReadHistory(c) /\ To(c, "listed")
  /\ UNCHANGED <<want, polled>> /\ KeepLibrary

ReplyRevision(c) ==
  /\ Idle /\ cpc[c] = "listed" /\ ReadRevision(c) /\ To(c, "idle")
  /\ UNCHANGED <<want, polled>> /\ KeepLibrary

Client(c) ==
  \/ PollRevision(c) \/ PollHistory(c)
  \/ \E m \in Media, b \in BOOLEAN : Accept(c, m, b)
  \/ Write(c) \/ ReplyHistory(c) \/ ReplyRevision(c)

-----------------------------------------------------------------------------
(* An export reads the revision, renders, checks it before staging its     *)
(* files, and commits under the mutex if it still stands.                  *)

ExportTo(e, step) == epc' = [epc EXCEPT ![e] = step]
ExportEnds(e) ==
  /\ ExportTo(e, "over")
  /\ expected' = [expected EXCEPT ![e] = 0] /\ basis' = [basis EXCEPT ![e] = {}]

ExportStart(e) ==
  /\ Idle /\ epc[e] = "off"
  /\ expected' = [expected EXCEPT ![e] = revision]
  /\ basis' = [basis EXCEPT ![e] = published]
  /\ ExportTo(e, "render")
  /\ UNCHANGED <<vars, clientVars>>

ExportCheck(e) ==
  /\ Idle /\ epc[e] = "render" /\ revision = expected[e]
  /\ ExportTo(e, "stage")
  /\ UNCHANGED <<vars, expected, basis, clientVars>>

(* Mutant: the check before staging is the only one.                       *)
CommitUnchecked(e, m, select) ==
  /\ epc[e] = "stage"
  /\ CommitPrepared(m, revision, select)
  /\ ExportEnds(e)
  /\ UNCHANGED clientVars

ExportCommit(e, m, select) ==
  /\ epc[e] = "stage"
  /\ CommitPrepared(m, expected[e], select)
  /\ ExportEnds(e)
  /\ UNCHANGED clientVars

ExportConflict(e) ==
  /\ Idle /\ epc[e] \in {"render", "stage"} /\ revision # expected[e]
  /\ ExportEnds(e)
  /\ UNCHANGED <<vars, clientVars>>

Export(e) ==
  \/ ExportStart(e) \/ ExportCheck(e) \/ ExportConflict(e)
  \/ \E m \in Media, select \in BOOLEAN : ExportCommit(e, m, select)

-----------------------------------------------------------------------------
(* A restart ends the requests and the exports; the browsers stay.         *)
Reload ==
  /\ Restart
  /\ cpc' = [c \in Clients |-> "idle"]
  /\ polled' = {}
  /\ epc' = [e \in Exports |-> IF epc[e] = "off" THEN "off" ELSE "over"]
  /\ expected' = [e \in Exports |-> 0] /\ basis' = [e \in Exports |-> {}]
  /\ want' = [c \in Clients |-> Nothing]
  /\ UNCHANGED <<seen, view>>

RevInit ==
  /\ Init
  /\ cpc = [c \in Clients |-> "idle"] /\ seen = [c \in Clients |-> 0]
  /\ view = [c \in Clients |-> {}] /\ polled = {}
  /\ want = [c \in Clients |-> Nothing]
  /\ epc = [e \in Exports |-> "off"] /\ expected = [e \in Exports |-> 0]
  /\ basis = [e \in Exports |-> {}]

Library == (\E m \in Media : Operation(m)) \/ Clear \/ Holder

RevNext ==
  \/ Library /\ UNCHANGED <<clientVars, exportVars>>
  \/ \E c \in Clients : Client(c)
  \/ \E e \in Exports : Export(e)
  \/ Reload

RevSpec == RevInit /\ [][RevNext]_allVars

-----------------------------------------------------------------------------
(* Properties.                                                             *)

(* What a browser shows of the items that are still there is what is       *)
(* published, as long as its revision is the server's.                     *)
ViewIsCurrent(c) ==
  cpc[c] = "idle" /\ seen[c] = revision => view[c] \cap history = published

(* A browser that has polled can rely on its revision: the state answer    *)
(* never pairs an old history with a new revision, and no operation        *)
(* changes the flag of an item that stays without a new revision.          *)
PolledViewIsCurrent ==
  Idle => \A c \in polled : ViewIsCurrent(c)

(* An export that is published finds the published set, as far as it is    *)
(* still there, as it was when the export began.                           *)
ExportIsUnraced ==
  [][\A e \in Exports :
       epc[e] = "stage" /\ epc'[e] = "over" /\ unused' # unused =>
         basis[e] \cap history = published]_allVars
=============================================================================

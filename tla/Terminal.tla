------------------------------ MODULE Terminal ------------------------------
(***************************************************************************)
(* The terminal UI (src/apps/cli/tui.go): one user's keys, against a       *)
(* server whose lists other users change.  A decision is made by pressing  *)
(* its key twice; the row is the one under the cursor of the list as last  *)
(* loaded.  The tables are a library's: their cursor may be on any row.    *)
(***************************************************************************)
EXTENDS Naturals

CONSTANTS ApprovalRows, ScheduleRows    \* ids a list may hold
CONSTANT NoRow

VARIABLES
  screen,
  shown,              \* approvals, as last loaded
  listed,             \* schedules, as last loaded: enabled, disabled or gone
  confirm,            \* the press waiting for a second one
  pendingApprovalID,  \* the approval the denial form is for
  prompt,             \* (history) what the last "press again" named, until it is used or the form is left
  sent                \* (history) the decision the last key sent

terminalVars == <<screen, shown, listed, confirm, pendingApprovalID, prompt, sent>>

Unconfirmed == [key |-> "none", id |-> NoRow]
Keypress(key, id) == [key |-> key, id |-> id]
Presses == [key : {"approve", "deny"}, id : ApprovalRows] \cup
           [key : {"disable"}, id : ScheduleRows] \cup {Unconfirmed}

Lists == {"servers", "runbooks", "executions", "approvals", "schedules"}
Forms == {"runbookRun", "scheduleCreate", "approvalDeny", "audit"}   \* they take the keys as text
Screens == Lists \cup Forms \cup {"home", "help", "approvalDetail"}

TerminalInit ==
    /\ screen = "home"
    /\ shown = {}
    /\ listed = [s \in ScheduleRows |-> "gone"]
    /\ confirm = Unconfirmed
    /\ pendingApprovalID = NoRow
    /\ prompt = Unconfirmed
    /\ sent = Unconfirmed

\* A list request: what the server holds by now, or an error and the old rows.
LoadApprovals == shown' \in SUBSET ApprovalRows
LoadSchedules == listed' \in [ScheduleRows -> {"enabled", "disabled", "gone"}]

LoadFor(s) ==
    /\ IF s = "approvals" THEN LoadApprovals ELSE UNCHANGED shown
    /\ IF s = "schedules" THEN LoadSchedules ELSE UNCHANGED listed

NothingSent == sent' = Unconfirmed
Undecided == UNCHANGED <<confirm, pendingApprovalID, prompt>> /\ NothingSent

\* Keys 1 to 6 and h.  The waiting press is kept.
SwitchScreen ==
    /\ screen \notin Forms
    /\ screen' \in Lists \cup {"audit", "help"}
    /\ LoadFor(screen')
    /\ Undecided

Refresh ==
    /\ screen \in Lists
    /\ LoadFor(screen)
    /\ UNCHANGED screen
    /\ Undecided

\* q, and esc on a form.  On the home screen it quits: nothing follows.
Leave ==
    /\ screen' = CASE screen = "runbookRun" -> "runbooks"
                   [] screen = "scheduleCreate" -> "schedules"
                   [] screen = "approvalDeny" -> "approvals"
                   [] OTHER -> "home"
    /\ pendingApprovalID' = IF screen = "approvalDeny" THEN NoRow ELSE pendingApprovalID
    /\ prompt' = IF screen = "approvalDeny" THEN Unconfirmed ELSE prompt
    /\ NothingSent
    /\ UNCHANGED <<shown, listed, confirm>>

HelpFromAudit ==
    /\ screen = "audit"
    /\ screen' = "help"
    /\ UNCHANGED <<shown, listed>>
    /\ Undecided

\* Mutant: the waiting press remembers the key and not the row.
ConfirmedKey(key, id) == confirm.key = key

Confirmed(key, id) == confirm = Keypress(key, id)

\* The first press: it waits, and its prompt names the row.
Ask(key, id) ==
    /\ ~Confirmed(key, id)
    /\ confirm' = Keypress(key, id)
    /\ prompt' = Keypress(key, id)
    /\ NothingSent
    /\ UNCHANGED <<screen, shown, listed, pendingApprovalID>>

\* The second press of a key that sends at once; the list is loaded again if the server agreed.
Act(key, id, Load) ==
    /\ Confirmed(key, id)
    /\ confirm' = Unconfirmed
    /\ prompt' = Unconfirmed
    /\ sent' = Keypress(key, id)
    /\ Load
    /\ UNCHANGED <<screen, pendingApprovalID>>

Approvable(id) == screen = "approvals" /\ id \in shown
Disablable(id) == screen = "schedules" /\ listed[id] = "enabled"

PressApprove(id) ==
    /\ Approvable(id)
    /\ Ask("approve", id) \/ Act("approve", id, LoadApprovals /\ UNCHANGED listed)

PressDisable(id) ==
    /\ Disablable(id)
    /\ Ask("disable", id) \/ Act("disable", id, LoadSchedules /\ UNCHANGED shown)

\* The second press opens the form for the reason.
OpenDenial(id) ==
    /\ Confirmed("deny", id)
    /\ confirm' = Unconfirmed
    /\ pendingApprovalID' = id
    /\ screen' = "approvalDeny"
    /\ NothingSent
    /\ UNCHANGED <<shown, listed, prompt>>

PressDeny(id) == Approvable(id) /\ (Ask("deny", id) \/ OpenDenial(id))

\* Enter on the form, with a reason.  A refusal leaves the form open.
SendDenial ==
    /\ screen = "approvalDeny"
    /\ sent' = Keypress("deny", pendingApprovalID)
    /\ \/ /\ screen' = "approvals"
          /\ pendingApprovalID' = NoRow
          /\ prompt' = Unconfirmed
          /\ LoadApprovals
       \/ UNCHANGED <<screen, pendingApprovalID, prompt, shown>>
    /\ UNCHANGED <<listed, confirm>>

\* Enter, x and n.  Enter on an execution sets its detail and, falling through, closes it again.
Open ==
    /\ \/ screen = "approvals" /\ shown # {} /\ screen' = "approvalDetail"
       \/ screen = "approvalDetail" /\ screen' = "approvals"
       \/ screen = "executions" /\ UNCHANGED screen
       \/ screen = "runbooks" /\ screen' = "runbookRun"
       \/ screen = "schedules" /\ screen' = "scheduleCreate"
    /\ UNCHANGED <<shown, listed>>
    /\ Undecided

\* A form that the server accepted; only the schedules are loaded again.
SubmitForm ==
    /\ \/ screen = "runbookRun" /\ screen' = "runbooks" /\ UNCHANGED listed
       \/ screen = "scheduleCreate" /\ screen' = "schedules" /\ LoadSchedules
    /\ UNCHANGED shown
    /\ Undecided

TerminalNext ==
    \/ SwitchScreen
    \/ Refresh
    \/ Leave
    \/ HelpFromAudit
    \/ Open
    \/ SubmitForm
    \/ \E id \in ApprovalRows : PressApprove(id) \/ PressDeny(id)
    \/ \E id \in ScheduleRows : PressDisable(id)
    \/ SendDenial

TerminalSpec == TerminalInit /\ [][TerminalNext]_terminalVars

(***************************************************************************)
(* Properties.                                                             *)
(***************************************************************************)

(* Every screen, list and waiting press is one the code can hold.          *)
TerminalTypeOK ==
    /\ screen \in Screens
    /\ shown \subseteq ApprovalRows
    /\ listed \in [ScheduleRows -> {"enabled", "disabled", "gone"}]
    /\ confirm \in Presses
    /\ pendingApprovalID \in ApprovalRows \cup {NoRow}
    /\ prompt \in Presses
    /\ sent \in Presses

(* Whatever the user did in between (another screen, a refresh that moved   *)
(* the rows, another key), a decision the terminal sends is the one the     *)
(* last "press again" named, row and key; and one prompt is used once, a    *)
(* refused denial excepted, whose form stays open.  The approve, deny and   *)
(* disable keys of Update.                                                  *)
PromptNamesDecision ==
    [][sent' # Unconfirmed =>
          /\ sent' = prompt
          /\ (prompt' # Unconfirmed) => (screen' = "approvalDeny")]_terminalVars
=============================================================================

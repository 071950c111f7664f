---------------------------- MODULE GoogleTools ----------------------------
(***************************************************************************)
(* What stands between the model and Google Workspace: the preflight that  *)
(* looks for a connected account among the spellings of a user's number,   *)
(* and the guards that repair or refuse tool calls before they are sent.   *)
(* Each guard is a set of outcomes: what the tool's step shows, and what   *)
(* it changed.                                                             *)
(***************************************************************************)
EXTENDS Naturals, FiniteSets, SequencesExt

CONSTANTS
    Events,     \* calendar events: [id, title, soon], soon in the window asked for
    Tabs        \* tabs of a spreadsheet; the first is where unqualified ranges go

ASSUME EventsAssumption == IsFiniteSet(Events) /\ \A e, f \in Events : e.id = f.id => e = f

Absent == "none"

-----------------------------------------------------------------------------
(* prepare_google_mcp_runtime: one answer of the integration service per    *)
(* candidate.  "link" says what /connect did: it gave a login link, gave    *)
(* none, or refused (an earlier candidate's link then stays).               *)
Answers == [is : {"unconnected", "tokenless", "ready", "down"}, link : {"given", "none", "refused"}]
Asked == [user |-> 0, err |-> Absent, url |-> FALSE, over |-> FALSE, i |-> 0]

NewLink(url, link) == IF link = "refused" THEN url ELSE link = "given"

AskNext(s, a) ==
    LET n == s.i + 1
    IN  CASE s.over -> s
          [] a.is = "ready" -> [s EXCEPT !.user = n, !.err = Absent, !.url = FALSE, !.over = TRUE]
          [] a.is = "down" -> [s EXCEPT !.err = IF @ = Absent THEN "down" ELSE @, !.over = TRUE]
          [] a.is = "tokenless" ->
                [s EXCEPT !.i = n, !.user = n, !.err = "login", !.url = NewLink(@, a.link)]
          [] OTHER ->
                [s EXCEPT !.i = n, !.user = IF @ = 0 THEN n ELSE @, !.err = "login", !.url = NewLink(@, a.link)]

Preflight(answers) == FoldLeft(AskNext, Asked, answers)

(* apply_mcp_error_notice: a 401 from the tools' server asks for a new      *)
(* login link for that user; other errors keep the preflight's link.        *)
AfterServerError(p, err, link) ==
    [p EXCEPT !.err = err, !.url = IF err = "login" /\ p.user # 0 THEN NewLink(@, link) ELSE @]

-----------------------------------------------------------------------------
(* manage_event with an action that needs an event: the id the model named, *)
(* if it is one, or the only event that a lookup finds.  The service        *)
(* matches the title and the window; a lookup that finds nothing is made    *)
(* again without the title.                                                 *)
EventCalls == [id : {e.id : e \in Events} \cup {Absent, "primary"},
          title : {e.title : e \in Events} \cup {Absent}, window : BOOLEAN]

NamesNoEvent(call) == call.id \in {Absent, "primary"}
Within(call, calendar) == {e \in calendar : call.window => e.soon}
Titled(call, calendar) == {e \in Within(call, calendar) : call.title # Absent => e.title = call.title}

Lookup(call, calendar) ==
    IF call.title = Absent \/ Titled(call, calendar) # {}
    THEN Titled(call, calendar) ELSE Within(call, calendar)

Outcome(result, target) == [result |-> result, target |-> target]

ManageEventFirst(call, calendar) ==          \* mutant: the first of several is taken
    IF ~NamesNoEvent(call)
    THEN {IF \E e \in calendar : e.id = call.id THEN Outcome("done", call.id) ELSE Outcome("failed", Absent)}
    ELSE IF Lookup(call, calendar) = {} THEN {Outcome("refused", Absent)}
    ELSE {Outcome("done", (CHOOSE e \in Lookup(call, calendar) : TRUE).id)}

ManageEvent(call, calendar) ==
    IF ~NamesNoEvent(call)
    THEN {IF \E e \in calendar : e.id = call.id THEN Outcome("done", call.id) ELSE Outcome("failed", Absent)}
    ELSE {Outcome("refused", Absent)}            \* no get_events tool, or the lookup raises
         \cup {IF Cardinality(Lookup(call, calendar)) = 1
               THEN Outcome("done", (CHOOSE e \in Lookup(call, calendar) : TRUE).id)
               ELSE Outcome("refused", Absent)}

(* modify_sheet_values: a range in a tab that is missing is written again   *)
(* after the tab was created, or, when no tool creates tabs, without the    *)
(* tab's name.                                                              *)
WriteValues(tab, tabs, creates) ==
    IF tab = Absent \/ tab \in tabs
    THEN {Outcome("done", IF tab = Absent THEN Tabs[1] ELSE tab), Outcome("failed", Absent)}
    ELSE {Outcome("failed", Absent)}
         \cup {Outcome("done", IF creates THEN tab ELSE Tabs[1])}

(* create_spreadsheet and create_presentation want a title, create_drive_file *)
(* a source, batch_update_presentation a request: or they are not sent.     *)
CreateSpreadsheet(title) == IF title THEN {"created", "failed", "denied"} ELSE {"refused"}
CreatePresentation(title) == IF title THEN {"created", "failed", "denied"} ELSE {"refused"}
CreateDriveFile(source, folder) == IF source \/ folder THEN {"created", "failed", "denied"} ELSE {"refused"}
BatchUpdatePresentation(requests) == IF requests THEN {"done", "failed"} ELSE {"refused"}
CreateSurveyForm == {"created", "failed", "denied"}
CreateShape == {"done", "failed"}

(* Tools without a guard go to the server as they are.                      *)
Unguarded == {"done", "failed", "denied"}
=============================================================================

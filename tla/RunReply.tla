------------------------------ MODULE RunReply ------------------------------
(***************************************************************************)
(* What a finished run tells its user.  Tools act, the model answers, the  *)
(* runner may deliver a file itself or let a second attempt finish a       *)
(* Google document; then a chain of guards rewrites the answer and the     *)
(* WhatsApp handler sends it, or skips it as a duplicate.                  *)
(*                                                                         *)
(* A text is who wrote it and what the guards read in it.  What they read  *)
(* in the texts of the code itself was computed with the guards' own       *)
(* functions.                                                              *)
(***************************************************************************)
EXTENDS GoogleTools

CONSTANTS
    Runs,        \* the runs: a set of environments
    MaxSteps,    \* bound on the tool steps of the first attempt
    MaxClaims    \* bound on what one answer of the model claims

ASSUME BoundsAssumption == MaxSteps \in Nat /\ MaxClaims \in Nat

VARIABLES
    env,        \* who asks for what, and what is connected
    at,         \* the stage the run is in
    did,        \* tool steps of every attempt
    ran,        \* tool steps of the attempt that answered
    steps,      \* those the guards still see
    acted,      \* the last repaired call: what it asked for and what it changed
    reply,
    told        \* what reached the user: "reply", "nothing", Absent before

vars == <<env, at, did, ran, steps, acted, reply, told>>

(* Environments: the session; Google's error, a login link and whether      *)
(* another server's tools are there too; the user's request.                *)
Env == [who : {"owner", "customer", "operator", "builder"},
        err : {Absent, "login", "down"}, url : BOOLEAN, other : BOOLEAN, google : BOOLEAN,
        wants : {"talk", "send", "resend", "file", "work", "status"}]

ASSUME RunsAssumption == Runs \subseteq Env

(* Steps: a tool and what its result shows.                                 *)
Step(tool, result) == [tool |-> tool, result |-> result]
GoogleResults == {"done", "created", "refused", "failed", "denied"}
ToolSteps ==
    {Step("google", r) : r \in GoogleResults}
    \cup {Step("media", r) : r \in {"sent", "failed"}}
    \cup {Step("number", r) : r \in {"sent", "failed"}}
    \cup {Step("notify", r) : r \in {"sent", "failed"}}
    \cup {Step("task", r) : r \in {"artifact", "file", "blocked", "plain"}}
    \cup {Step("reply_to_user", "sent")}
BuilderSteps ==
    {Step("plan", "ok"), Step("trial", "link"), Step("trial", "error")}
    \cup {Step("create", r) : r \in {"ok", "google", "error", "entitlement"}}

Has(S, tool, results) == \E s \in S : s.tool = tool /\ s.result \in results
Ran(S, tool) == \E s \in S : s.tool = tool

(* A repaired call: what it was for, as asked, and what it changed in what. *)
Repair(what, call, in, target) == [what |-> what, call |-> call, in |-> in, target |-> target]
Untouched == Repair(Absent, Absent, {}, Absent)

(* What the guards read in a text.                                          *)
Claims == {"media", "number", "google", "progress", "promise", "deliverable", "artifact", "recovery",
           "sent", "capability", "url"}
BuilderClaims == {"clear", "technical", "incomplete", "onboarded", "linked"}
Text(by, claims) == [by |-> by, claims |-> claims]
Empty == Text("empty", {})
Reads(c) == c \in reply.claims
HasUrl(r) == r.claims \cap {"url", "artifact", "linked"} # {}

LoginLinks == {env.url, TRUE}        \* a link that is missing is fetched again, and may be had
AuthBlocker(url) == Text("auth", {"recovery"} \cup IF url THEN {"url"} ELSE {})
Unavailable == {Text("unavailable", {"promise"}), Text("unavailable", {"google", "progress", "promise"})}
NotExecuted == Text("notExecuted", IF env.wants = "status" THEN {"promise"} ELSE {})
NumberRefused == Text("numberRefused", {"number", "sent"})
MediaRefused == Text("mediaRefused", {"media", "number", "sent"})

-----------------------------------------------------------------------------
(* The guards' questions about steps.                                       *)

MediaSent(S) == Has(S, "media", {"sent"})
Denied(S) == Has(S, "google", {"denied"})
ArtifactIn(S) == Has(S, "google", {"created"})
(* send_whatsapp_document passes for a Google tool: its name says "doc".    *)
GoogleRan(S) == Ran(S, "google") \/ Ran(S, "media")
Artifact == Reads("artifact") \/ ArtifactIn(steps)
Replied(S) == Ran(S, "reply_to_user") \/ Ran(S, "number")

Becomes(next) == at' = next
Says(r) == reply' = r
Rewrites(cond, r) == Says(IF cond THEN r ELSE reply)

-----------------------------------------------------------------------------
(* The attempts.                                                            *)

Init ==
    /\ env \in Runs
    /\ at = "tools" /\ did = {} /\ ran = {} /\ steps = {}
    /\ acted = Untouched /\ reply = Empty /\ told = Absent

(* Before the graph: Google's error ends a run that needs Google, when no   *)
(* other server offers tools.                                               *)
BlocksBeforeGraph ==
    /\ at = "tools" /\ did = {}
    /\ env.err # Absent /\ ~env.other /\ env.google
    /\ \E r \in IF env.err = "login" THEN {AuthBlocker(url) : url \in LoginLinks} ELSE Unavailable : Says(r)
    /\ Becomes("deliver")
    /\ UNCHANGED <<env, did, ran, steps, acted, told>>

Adds(s) ==
    /\ steps' = steps \cup {s} /\ did' = did \cup {s} /\ ran' = ran \cup {s}

CanRun == at = "tools" /\ acted.what = Absent /\ Cardinality(steps) < MaxSteps
          /\ ~(env.err # Absent /\ ~env.other /\ env.google)

ToolRuns ==
    /\ CanRun
    /\ \E s \in IF env.who = "builder" THEN BuilderSteps ELSE ToolSteps :
          /\ s \notin steps
          /\ s.tool = "google" => env.err = Absent \/ env.other
          /\ Adds(s)
    /\ UNCHANGED <<env, at, acted, reply, told>>

(* A call the guards repair, on a connected account.                        *)
Google == env.who = "owner" /\ env.err = Absent /\ env.google
ManagesEvent ==
    /\ CanRun /\ Google /\ steps = {}
    /\ \E call \in EventCalls, calendar \in SUBSET Events : \E o \in ManageEvent(call, calendar) :
          /\ Adds(Step("google", o.result))
          /\ acted' = Repair("event", call, calendar, o.target)
    /\ UNCHANGED <<env, at, reply, told>>

WritesSheet ==
    /\ CanRun /\ Google /\ steps = {}
    /\ \E tab \in {Tabs[i] : i \in DOMAIN Tabs} \cup {Absent}, creates \in BOOLEAN :
       \E tabs \in {T \in SUBSET {Tabs[i] : i \in DOMAIN Tabs} : Tabs[1] \in T} :
       \E o \in WriteValues(tab, tabs, creates) :
          /\ Adds(Step("google", o.result))
          /\ acted' = Repair("cells", [tab |-> tab, creates |-> creates], tabs, o.target)
    /\ UNCHANGED <<env, at, reply, told>>

CreatesFile ==
    /\ CanRun /\ Google
    /\ \E asked \in BOOLEAN, folder \in BOOLEAN :
       \E r \in CreateSpreadsheet(asked) \cup CreatePresentation(asked) \cup CreateDriveFile(asked, folder)
                  \cup BatchUpdatePresentation(asked) \cup CreateShape \cup CreateSurveyForm :
          Adds(Step("google", r))
    /\ UNCHANGED <<env, at, acted, reply, told>>

(* The model's answer; it claims a link only after a tool showed one.       *)
ModelTexts ==
    {Empty} \cup
    {Text("model", c) : c \in {d \in SUBSET (IF env.who = "builder" THEN BuilderClaims ELSE Claims) :
        /\ Cardinality(d) <= MaxClaims
        /\ "deliverable" \in d => env.who = "operator"}}

ModelAnswers ==
    /\ at = "tools" /\ ~(env.err # Absent /\ ~env.other /\ env.google)
    /\ \E r \in ModelTexts : Says(r)
    /\ Becomes("file") /\ acted' = Untouched
    /\ UNCHANGED <<env, did, ran, steps, told>>

(* _needs_whatsapp_file_delivery_followup: a file in the shared workspace   *)
(* that was asked for and not sent is sent without the model.               *)
FileWaits == env.wants = "file" /\ env.who # "builder" /\ Has(steps, "task", {"file"}) /\ ~MediaSent(steps)

DeliversFile ==
    /\ at = "file"
    /\ IF ~FileWaits THEN UNCHANGED <<did, ran, steps, reply>>
       ELSE \/ /\ Adds(Step("media", "sent"))
               /\ Says(Text("fileSent", {"media", "number", "sent"}))
            \/ /\ Adds(Step("media", "failed"))
               /\ Says(Text("fileFailed", {}))
            \/ /\ Says(Text("fileFailed", {}))           \* no tool, or it raises
               /\ UNCHANGED <<did, ran, steps>>
    /\ Becomes("more")
    /\ UNCHANGED <<env, acted, told>>

(* _needs_google_forms/sheets/slides_followup: a document was created and   *)
(* nothing written into it.  The attempt that fills it takes the place of   *)
(* the first, unless it raises.                                             *)
HalfDone == env.google /\ Has(steps, "google", {"created"}) /\ ~Has(steps, "google", {"done"})

FillsDocument ==
    /\ at = "more"
    /\ \/ /\ HalfDone
          /\ \E S \in {{}} \cup {{Step("google", r)} : r \in {"done", "failed"}} :
                /\ steps' = S /\ ran' = S /\ did' = did \cup S
          /\ \E r \in ModelTexts : Says(r)
       \/ UNCHANGED <<did, ran, steps, reply>>
    /\ Becomes("google")
    /\ UNCHANGED <<env, acted, told>>

-----------------------------------------------------------------------------
(* The guards, in the runner's order.                                       *)

AuthError == env.err = "login" \/ (env.err = Absent /\ Denied(steps))
MustAskLoginAnyway == AuthError /\ env.google          \* mutant: a document is there

MustAskLogin == AuthError /\ env.google /\ ~Artifact

MustSayDown == env.err # Absent /\ ~MustAskLogin /\ env.google /\ ~Artifact /\ (reply = Empty \/ Reads("progress"))
NothingRan ==
    /\ env.err = Absent /\ ~MustAskLogin /\ env.google
    /\ ~GoogleRan(steps) /\ ~Reads("artifact") /\ ~Reads("recovery")
    /\ Reads("progress") \/ Reads("google")

(* Afterwards a customer of a shop hears that the owner will look, and the  *)
(* owner is told: whatever the message was about.                           *)
OwnersCase(said) ==
    /\ env.who = "customer"
    /\ AuthError
    /\ ~("artifact" \in said.claims \/ ArtifactIn(steps))

OverridesGoogle ==
    /\ at = "google"
    /\ \E said \in IF MustAskLogin THEN {AuthBlocker(url) : url \in LoginLinks}
                   ELSE IF MustSayDown THEN Unavailable
                   ELSE IF NothingRan THEN {NotExecuted}
                   ELSE IF env.url /\ env.err = Absent /\ Reads("recovery") /\ ~GoogleRan(steps)
                        THEN {[reply EXCEPT !.claims = @ \cup {"url"}]}
                   ELSE {reply} :
          IF OwnersCase(said)
          THEN \E claims \in {{"capability", "promise"}, {"promise"}} : Says(Text("ownersCase", claims))
          ELSE Says(said)
    /\ steps' = IF MustAskLogin \/ MustSayDown THEN {} ELSE steps
    /\ Becomes("task")
    /\ UNCHANGED <<env, did, ran, acted, told>>

(* _task_result_guard_reply: delegated work that should end in an artifact. *)
TaskOpen ==
    /\ Ran(steps, "task") /\ env.wants \in {"work", "file", "status"}
    /\ ~Has(steps, "task", {"artifact"}) /\ ~MediaSent(steps)

GuardsTask ==
    /\ at = "task"
    /\ Says(IF TaskOpen /\ Has(steps, "task", {"blocked"}) THEN Text("taskBlocked", {})
            ELSE IF TaskOpen /\ (Reads("promise") \/ env.wants = "status") THEN Text("taskUnfinished", {})
            ELSE reply)
    /\ Becomes("number")
    /\ UNCHANGED <<env, did, ran, steps, acted, told>>

(* _direct_whatsapp_send_guard_reply.  "resend": the history shows an       *)
(* earlier send, which is evidence enough.                                  *)
NumberUnsent == Reads("number") /\ env.who # "operator" /\ ~Replied(steps) /\ env.wants = "send"

GuardsNumber ==
    /\ at = "number"
    /\ Rewrites(NumberUnsent, NumberRefused)
    /\ Becomes("operator")
    /\ UNCHANGED <<env, did, ran, steps, acted, told>>

GuardsOperator ==
    /\ at = "operator"
    /\ \E by \in {"operatorDraft", "operatorUndone"} :
          Rewrites(env.who = "operator" /\ ~Replied(steps) /\ Reads("deliverable"), Text(by, {}))
    /\ Becomes("media")
    /\ UNCHANGED <<env, did, ran, steps, acted, told>>

MediaUnsentByName ==                  \* mutant: a failed tool counts as sent
    env.who # "builder" /\ Reads("media") /\ ~Ran(steps, "media")

MediaUnsent == env.who # "builder" /\ Reads("media") /\ ~MediaSent(steps)

GuardsMedia ==
    /\ at = "media"
    /\ Rewrites(MediaUnsent, MediaRefused)
    /\ Becomes("fill")
    /\ UNCHANGED <<env, did, ran, steps, acted, told>>

(* _builder_fallback_reply: a trial link, else the last create_agent, else  *)
(* an apology.                                                              *)
Creates(S) == {s \in S : s.tool = "create"}
EntitlementRetry == Has(steps, "create", {"entitlement"})
Fallbacks ==
    IF EntitlementRetry THEN {Text("entitlement", {})}
    ELSE IF Has(steps, "trial", {"link"}) THEN {Text("trialLink", {"sent", "linked"}), Text("trialLink", {"linked"})}
    ELSE IF Ran(steps, "trial") THEN {Text("whichAgent", {})}
    ELSE {Text(IF s.result = "error" THEN "createFailed" ELSE "created", {"clear", "onboarded"}) : s \in Creates(steps)}
         \cup (IF Creates(steps) = {} /\ Ran(steps, "plan") THEN {Text("hiccup", {"promise"})} ELSE {})

Untold ==        \* the model's text leaves the builder's result unsaid
    \/ Has(steps, "trial", {"link"}) /\ ~Reads("linked")
    \/ /\ ~Reads("clear") \/ Reads("technical") \/ (~Reads("onboarded") /\ Has(steps, "create", {"ok", "google"}))
       /\ Ran(steps, "create") \/ Reads("technical") \/ Reads("incomplete")

(* ensure_non_empty_reply.                                                  *)
Fills ==
    /\ at = "fill"
    /\ IF EntitlementRetry
       THEN \/ Says(Text("entitlement", {}))
            \/ reply # Empty /\ Says(reply)                  \* it already says so
       ELSE IF reply # Empty
       THEN \/ Untold /\ \E r \in Fallbacks : Says(r)
            \/ (~Untold \/ Fallbacks = {}) /\ Rewrites(Reads("capability"), Text("cannot", {}))
       ELSE \/ \E r \in Fallbacks : Says(r)
            \/ /\ Fallbacks = {}
               /\ Says(IF ArtifactIn(steps) \/ Has(steps, "task", {"artifact"}) THEN Text("seeUrl", {"url"})
                       ELSE IF steps # {} THEN Text("ranSomething", {})
                       ELSE Text("trouble", {}))
    /\ Becomes("link")
    /\ UNCHANGED <<env, did, ran, steps, acted, told>>

(* _append_builder_google_auth_link_if_needed.                              *)
AppendsLink ==
    /\ at = "link"
    /\ \/ /\ Has(steps, "create", {"google"})
          /\ \E fetched \in BOOLEAN :
                Says([reply EXCEPT !.claims = @ \cup IF fetched THEN {"url", "recovery"} ELSE {"recovery"}])
       \/ ~Has(steps, "create", {"google"}) /\ UNCHANGED reply
    /\ Becomes("deliver")
    /\ UNCHANGED <<env, did, ran, steps, acted, told>>

(* should_skip_whatsapp_final_reply: the text a tool was asked to send, or  *)
(* "sent" beside a media tool.  Operators get every reply.                  *)
RepeatsNotice == Ran(steps, "notify") /\ (reply.by = "model" \/ HasUrl(reply))

RepeatsMediaAnyText == Ran(steps, "media")            \* mutant: the words are not looked at

RepeatsMedia == Ran(steps, "media") /\ Reads("sent") /\ ~HasUrl(reply)

Delivers ==
    /\ at = "deliver"
    /\ \/ /\ ~RepeatsMedia \/ env.who = "operator"
          /\ told' = "reply"
       \/ /\ RepeatsNotice \/ RepeatsMedia
          /\ env.who # "operator"
          /\ told' = "nothing"
    /\ Becomes("over")
    /\ UNCHANGED <<env, did, ran, steps, acted, reply>>

Next ==
    \/ BlocksBeforeGraph \/ ToolRuns \/ ManagesEvent \/ WritesSheet \/ CreatesFile \/ ModelAnswers
    \/ DeliversFile \/ FillsDocument
    \/ OverridesGoogle \/ GuardsTask \/ GuardsNumber \/ GuardsOperator \/ GuardsMedia
    \/ Fills \/ AppendsLink \/ Delivers

Spec == Init /\ [][Next]_vars

-----------------------------------------------------------------------------
(* What the user reads.                                                     *)
Read(by) == told = "reply" /\ reply.by = by
Claimed(c) == Read("model") /\ Reads(c)

(* A text of the model that claims something got past every guard only      *)
(* beside a step that bears it out: a file that was sent, a message to a    *)
(* number that was tried now or before, a Google tool that ran, a message   *)
(* to the customer.  A capability that is off is never claimed.             *)
ClaimsAreBacked ==
    /\ Claimed("media") => MediaSent(ran)
    /\ Claimed("number") /\ env.wants = "send" /\ env.who # "operator" => Replied(ran)
    /\ Claimed("google") /\ env.google /\ env.err = Absent => GoogleRan(ran) \/ Reads("artifact") \/ Reads("recovery")
    /\ Claimed("deliverable") => Replied(ran)
    /\ ~Claimed("capability")

(* A refusal the code writes is true of the attempt it judges: nothing it   *)
(* says was not sent was sent, nothing it says was not run has left a       *)
(* document, and work it calls unfinished has no result.                    *)
RefusalsAreTrue ==
    /\ Read("mediaRefused") => ~MediaSent(ran)
    /\ Read("fileFailed") => ~MediaSent(ran)
    /\ Read("numberRefused") => ~Replied(ran)
    /\ Read("notExecuted") => ~GoogleRan(ran)
    /\ Read("auth") => ~ArtifactIn(ran)
    /\ Read("taskUnfinished") \/ Read("taskBlocked") => ~Has(ran, "task", {"artifact"}) /\ ~MediaSent(ran)
    /\ Read("createFailed") => Has(ran, "create", {"error"})
    /\ Read("hiccup") => Creates(ran) = {}

(* Nobody is left without a word: a reply is skipped only beside a tool     *)
(* that was to speak, and only when it is the model's, carries a link, or   *)
(* says that something was sent or refuses to say so.  A blocker, an        *)
(* apology and a question are always sent.                                  *)
SomebodyAnswers ==
    told = "nothing" =>
        /\ Ran(ran, "notify") \/ Ran(ran, "media")
        /\ reply.by \in {"model", "fileSent", "mediaRefused", "numberRefused", "seeUrl"}

(* A repaired call changes what was asked for: an event the model did not   *)
(* name is the only one of that title in the window, or there is none of    *)
(* that title and it is the only one in the window; cells are written in    *)
(* the tab that was named, unless it is missing and no tool creates it.     *)
RepairsActAsAsked ==
    acted.what # Absent =>
        \/ acted.target = Absent
        \/ /\ acted.what = "event"
           /\ \/ acted.call.id = acted.target
              \/ \E S \in {Titled(acted.call, acted.in), Within(acted.call, acted.in)} :
                    /\ {e.id : e \in S} = {acted.target}
                    /\ Titled(acted.call, acted.in) \in {{}, S}
        \/ /\ acted.what = "cells"
           /\ \/ acted.target = acted.call.tab
              \/ acted.target = Tabs[1] /\ (acted.call.tab = Absent \/ (acted.call.tab \notin acted.in /\ ~acted.call.creates))
=============================================================================

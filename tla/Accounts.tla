------------------------------ MODULE Accounts ------------------------------
(***************************************************************************)
(* Users, subscriptions, agents' quotas and link codes, as requests that   *)
(* run side by side read and write them.  A request reads in one step and  *)
(* commits in a later one; what it writes are the values it computed from  *)
(* what it read, and only the attributes it changed.  The database refuses *)
(* a second row under one unique key, and then the whole transaction.      *)
(*                                                                         *)
(* One customer is known to WhatsApp by a number and by a hidden id, a     *)
(* second one by another number.  Each may get a row of its own from a     *)
(* first message; the web account is the one made on the dashboard.        *)
(***************************************************************************)
EXTENDS Naturals, FiniteSets

CONSTANTS Calls,      \* requests that may be open at one time
          Agents, References, Codes,
          Plans,      \* of "trial", "starter" and "pro"
          MaxCalls,   \* requests in all
          MaxChanges   \* things done to the rows by others: they lapse, expire, are renamed

ASSUME AccountBounds == /\ MaxCalls \in Nat /\ MaxChanges \in Nat /\ IsFiniteSet(Agents)
                        /\ Plans \subseteq {"trial", "starter", "pro"}

Identities == {"number", "hidden", "other"}
IsNumber(i) == i # "hidden"
Rows == Identities \cup {"web"}    \* the row a first message of an identity makes, and the dashboard's
PlanQuota(p) == CASE p = "trial" -> 1 [] p = "starter" -> 2 [] OTHER -> 3
MaxAgents(p) == IF p = "pro" THEN 2 ELSE 1

VARIABLES user,    \* users: [external id, phone number, hidden id]; "none" is NULL or no row
          sub,     \* user_subscriptions, one for each user
          paid,    \* the reference ids of token_topups
          agent,   \* agents: live, owner, used, quota, lapsed (active_until is past)
          code,    \* wa_link_codes of the web account: state, and the identities that claimed it
          call,    \* the requests
          due,     \* ghost: what quotas and usage should be
          marks,   \* ghost: what had an outside reason
          calls, changes
accountVars == <<user, sub, paid, agent, code, call, due, marks, calls, changes>>

NoUser == [ext |-> "none", phone |-> "none", lid |-> "none"]
NoSub == [status |-> "none", plan |-> "trial", quota |-> 0, used |-> 0]
NoAgent == [live |-> FALSE, owner |-> "none", used |-> 0, quota |-> 0, lapsed |-> FALSE]
NoCall == [at |-> "idle", do |-> "none", on |-> "none", who |-> {}, ref |-> "none", read |-> NoSub, seen |-> 0, rows |-> {}]
Usable(s) == s.status \in {"trial", "active", "grace_period"}
NewSub(p) == [status |-> IF p = "trial" THEN "trial" ELSE "active", plan |-> p, quota |-> PlanQuota(p), used |-> 0]

AccountInit ==
    /\ user = [u \in Rows |-> IF u = "web" THEN [NoUser EXCEPT !.ext = "own"] ELSE NoUser]
    /\ \E s \in {NoSub} \cup {NewSub(p) : p \in Plans} : sub = [u \in Rows |-> IF u = "web" THEN s ELSE NoSub]
    /\ paid = {} /\ agent = [a \in Agents |-> NoAgent]
    /\ code = [c \in Codes |-> [state |-> "none", by |-> {}]]
    /\ call = [r \in Calls |-> NoCall]
    /\ due = [quota |-> [u \in Rows |-> sub[u].quota], used |-> [u \in Rows |-> 0], agent |-> [a \in Agents |-> 0]]
    /\ marks = {} /\ calls = 0 /\ changes = 0

Opens(r, q) == /\ call[r].at = "idle" /\ calls < MaxCalls /\ calls' = calls + 1
               /\ call' = [call EXCEPT ![r] = [q EXCEPT !.at = "open"]]
               /\ UNCHANGED <<user, sub, paid, agent, code, due, marks, changes>>
Closes(r) == call[r].at = "open" /\ call' = [call EXCEPT ![r] = NoCall] /\ UNCHANGED <<calls, changes>>
Open(r, do) == call[r].at = "open" /\ call[r].do = do
\* An attribute that did not change is not in the UPDATE.
Written(read, new, now) == IF new = read THEN now ELSE new
SubWritten(u, read, new) == [c \in DOMAIN new |-> Written(read[c], new[c], sub[u][c])]
\* What a request means to set and another one has set since it read.
Overwrites(u, read, columns) == IF \E c \in columns : sub[u][c] # read[c] THEN {<<"overwritten", u>>} ELSE {}
SubWrites(u, read, new) == sub' = [sub EXCEPT ![u] = SubWritten(u, read, new)]

-----------------------------------------------------------------------------
\* The users an identity is looked up as.
Matching(i) == {u \in Rows : user[u].ext # "none" /\ i \in {user[u].ext, user[u].phone, user[u].lid}}

\* A hidden id stands for the number that was stored with it, if one was.
Resolved(i) == LET known == {u \in Rows : user[u].lid = i /\ user[u].phone # "none"}
               IN IF i = "hidden" /\ known # {} THEN {user[u].phone : u \in known} ELSE {i}

Known(q) == CHOOSE j \in q.who : q.who = {j} \/ j # "hidden"

\* get_or_create_wa_user: no row is made, one is found, two make it fail.
Provisions(i, learns, u) == Cardinality(Matching(i)) <= 1 /\ u = (IF Matching(i) = {} THEN i ELSE CHOOSE v \in Matching(i) : TRUE)
UserOf(i, learns, u) == [IF user[u].ext = "none" THEN [NoUser EXCEPT !.ext = i] ELSE user[u]
                         EXCEPT !.lid = IF learns THEN "hidden" ELSE @]
\* The e-mail of a row that was archived is still the one the identity would get.
Insertable(q) == q.rows # {} \/ user[q.on].ext = "none"
TrialFor(u) == IF sub[u].status = "none" THEN NewSub("trial") ELSE sub[u]
\* A row made for an identity that another request gave to another row meanwhile,
\* and a hidden id learned for one row while another row is found by it.
Twofold(q) == IF q.rows = {} /\ Matching(Known(q)) # {} THEN {<<"twofold", Known(q)>>} ELSE {}
TwoRows(learns, u) == learns /\ Matching("hidden") \ {u} # {}

Provision(r, i, learns) ==
    \E j \in Resolved(i), u \in Rows :
        /\ Provisions(j, learns, u) /\ (learns => j = "number")
        /\ Opens(r, [NoCall EXCEPT !.do = "provision", !.on = u, !.who = {j} \cup (IF learns THEN {"hidden"} ELSE {}), !.rows = Matching(j)])

ProvisionCommits(r) ==
    /\ Open(r, "provision") /\ Closes(r) /\ UNCHANGED <<paid, agent, code>>
    /\ LET q == call[r]  u == q.on  learns == q.who = {"number", "hidden"}
       IN IF Insertable(q)
          THEN /\ user' = [user EXCEPT ![u] = UserOf(Known(q), learns, u)] /\ sub' = [sub EXCEPT ![u] = TrialFor(u)]
               /\ due' = IF sub[u].status = "none" THEN [due EXCEPT !.quota[u] = PlanQuota("trial")] ELSE due
               /\ marks' = marks \cup Twofold(q) \cup (IF TwoRows(learns, u) THEN {<<"twofold", "hidden">>} ELSE {})
          ELSE UNCHANGED <<user, sub, due, marks>>

-----------------------------------------------------------------------------
\* Payments.  _check_reference_id_unique comes first; the index has the last word.
ReadsSub(r, do, u, ref) == Opens(r, [NoCall EXCEPT !.do = do, !.on = u, !.ref = ref, !.read = sub[u]])
Unused(ref) == ref \notin paid
Topup(r, u, ref) == Unused(ref) /\ sub[u].status \notin {"none", "expired"} /\ ReadsSub(r, "topup", u, ref)

Pays(r, new, owed, marked) ==
    LET q == call[r]
    IN /\ Closes(r) /\ UNCHANGED <<user, agent, code>>
       /\ IF Unused(q.ref) THEN paid' = paid \cup {q.ref} /\ SubWrites(q.on, q.read, new) /\ due' = owed /\ marks' = marks \cup marked
          ELSE UNCHANGED <<paid, sub, due, marks>>

ToppedUp(s) == [s EXCEPT !.quota = @ + 1, !.status = IF @ = "grace_period" THEN "active" ELSE @]
TopupCommits(r) ==
    /\ Open(r, "topup")
    /\ LET u == call[r].on  read == call[r].read
       IN Pays(r, ToppedUp(read), [due EXCEPT !.quota[u] = @ + 1], Overwrites(u, read, {"quota"}))

Upgrade(r, u, ref, p) ==
    /\ p # "trial" /\ Unused(ref) /\ sub[u].status # "none"
    /\ Opens(r, [NoCall EXCEPT !.do = "upgrade", !.on = u, !.ref = ref, !.read = sub[u], !.who = {p}])

\* The agents of an owner whose new plan is a smaller one stay.
Crowds(u, p) == {<<"crowded", i>> : i \in {j \in Identities : u \in Matching(j) /\ MaxAgents(p) < MaxAgents(sub[u].plan)}}
UpgradeCommits(r) ==
    /\ Open(r, "upgrade")
    /\ LET u == call[r].on  read == call[r].read
       IN \E p \in call[r].who : Pays(r, NewSub(p), [due EXCEPT !.quota[u] = PlanQuota(p), !.used[u] = 0],
                                      Crowds(u, p) \cup Overwrites(u, read, {"quota", "used"}))

Activate(r, u, p) == user[u].ext # "none" /\ sub[u].status = "none" /\ Opens(r, [NoCall EXCEPT !.do = "activate", !.on = u, !.who = {p}])
ActivateCommits(r) ==
    /\ Open(r, "activate") /\ Closes(r) /\ UNCHANGED <<user, paid, agent, code, marks>>
    /\ LET u == call[r].on
       IN \E p \in call[r].who :
           IF sub[u].status = "none" THEN sub' = [sub EXCEPT ![u] = NewSub(p)] /\ due' = [due EXCEPT !.quota[u] = PlanQuota(p)]
           ELSE UNCHANGED <<sub, due>>

-----------------------------------------------------------------------------
\* Agents: whose they are, and how many an owner may have.
OwnedBy(i) == {a \in Agents : agent[a].live /\ agent[a].owner = i}
SlotOrTwo(i, u) == Usable(TrialFor(u)) /\ Cardinality(OwnedBy(i)) <= MaxAgents(TrialFor(u).plan)

SlotLeft(i, u) == Usable(TrialFor(u)) /\ Cardinality(OwnedBy(i)) < MaxAgents(TrialFor(u).plan)

\* create_agent of the builder provisions the owner in the transaction that inserts the agent.
Build(r, i, a) ==
    \E u \in Rows : /\ Provisions(i, FALSE, u) /\ SlotLeft(i, u) /\ agent[a] = NoAgent
                    /\ \A s \in Calls : ~(call[s].do \in {"build", "post"} /\ call[s].ref = a)
                    /\ Opens(r, [NoCall EXCEPT !.do = "build", !.on = u, !.who = {i}, !.ref = a, !.read = TrialFor(u),
                                             !.seen = Cardinality(OwnedBy(i)), !.rows = Matching(i)])

BuildCommits(r) ==
    /\ Open(r, "build") /\ Closes(r) /\ UNCHANGED <<paid, code>>
    /\ LET q == call[r]  u == q.on  i == Known(q)
       IN IF Insertable(q)
          THEN /\ agent' = [agent EXCEPT ![q.ref] = [NoAgent EXCEPT !.live = TRUE, !.owner = i, !.quota = q.read.quota]]
               /\ user' = [user EXCEPT ![u] = UserOf(i, FALSE, u)] /\ sub' = [sub EXCEPT ![u] = TrialFor(u)]
               /\ due' = IF sub[u].status = "none" THEN [due EXCEPT !.quota[u] = PlanQuota("trial")] ELSE due
               /\ marks' = marks \cup Twofold(q) \cup
                           (IF Cardinality(OwnedBy(i)) # q.seen \/ TrialFor(u).plan # q.read.plan THEN {<<"crowded", i>>} ELSE {})
          ELSE UNCHANGED <<agent, user, sub, due, marks>>

\* POST /agents counts nothing.
Post(r, i, a) == /\ agent[a] = NoAgent /\ \A s \in Calls : ~(call[s].do \in {"build", "post"} /\ call[s].ref = a)
                 /\ Opens(r, [NoCall EXCEPT !.do = "post", !.ref = a, !.who = {i}])
PostCommits(r) ==
    /\ Open(r, "post") /\ Closes(r) /\ UNCHANGED <<user, sub, paid, code, due>>
    /\ agent' = [agent EXCEPT ![call[r].ref] = [NoAgent EXCEPT !.live = TRUE, !.owner = Known(call[r]), !.quota = 1]]
    /\ marks' = marks \cup {<<"crowded", Known(call[r])>>}

ReadsAgent(r, do, a) == agent[a].live /\ Opens(r, [NoCall EXCEPT !.do = do, !.ref = a, !.seen = agent[a].used])
Delete(r, a) == ReadsAgent(r, "delete", a)
DeleteCommits(r) == /\ Open(r, "delete") /\ Closes(r) /\ agent' = [agent EXCEPT ![call[r].ref].live = FALSE]
                    /\ UNCHANGED <<user, sub, paid, code, due, marks>>

Renew(r, a) == ReadsAgent(r, "renew", a)
RenewCommits(r) ==
    /\ Open(r, "renew") /\ Closes(r) /\ UNCHANGED <<user, sub, paid, code>>
    /\ LET a == call[r].ref  old == call[r].seen
       IN /\ agent' = [agent EXCEPT ![a].used = Written(old, 0, @), ![a].lapsed = FALSE]
          /\ due' = [due EXCEPT !.agent[a] = 0]
          /\ marks' = IF agent[a].used = old THEN marks ELSE marks \cup {<<"overwritten", a>>}

-----------------------------------------------------------------------------
\* Runs: the quota is checked before one, its usage is recorded after it.
Payer(a) == {u \in Rows : user[u].ext = agent[a].owner}
Exhausted(used, quota) == quota > 0 /\ used >= quota
Admitted(a) == /\ ~agent[a].lapsed /\ ~Exhausted(agent[a].used, agent[a].quota)
               /\ \A u \in Payer(a) : sub[u].status = "none" \/ (Usable(sub[u]) /\ ~Exhausted(sub[u].used, sub[u].quota))
Admits(r, a) == Admitted(a) /\ ReadsAgent(r, "run", a)

\* record_agent_token_usage looks the owner up again, by the external id alone.
Charged(a) == {u \in Payer(a) : sub[u].status # "none"}
Records(r) ==
    /\ Open(r, "run")
    /\ LET a == call[r].ref IN
       IF Charged(a) = {}
       THEN /\ call' = [call EXCEPT ![r].do = "unpaid"]
            /\ marks' = IF Matching(agent[a].owner) = {} THEN marks ELSE marks \cup {<<"free", agent[a].owner>>}
       ELSE \E u \in Charged(a) : call' = [call EXCEPT ![r].do = "usage", ![r].on = u, ![r].read = sub[u]] /\ UNCHANGED marks
    /\ UNCHANGED <<user, sub, paid, agent, code, due, calls, changes>>

UsageCommits(r) ==
    /\ call[r].do \in {"usage", "unpaid"} /\ Closes(r) /\ UNCHANGED <<user, paid, code>>
    /\ LET q == call[r]  a == q.ref  u == q.on  charged == q.do = "usage"
       IN /\ agent' = [agent EXCEPT ![a].used = q.seen + 1]
          /\ sub' = IF charged THEN [sub EXCEPT ![u].used = q.read.used + 1] ELSE sub
          /\ due' = [due EXCEPT !.agent[a] = @ + 1, !.used = [v \in Rows |-> IF charged /\ v = u THEN @[v] + 1 ELSE @[v]]]
          /\ marks' = marks \cup (IF agent[a].used # q.seen THEN {<<"overwritten", a>>} ELSE {})
                            \cup (IF charged THEN Overwrites(u, q.read, {"used"}) ELSE {})

-----------------------------------------------------------------------------
\* Link codes: a new one expires those before it; a claim moves the sender to the web account.
Generate(c) ==
    /\ code[c].state = "none"
    /\ code' = [d \in Codes |-> IF d = c THEN [state |-> "open", by |-> {}]
                                ELSE IF code[d].state = "open" THEN [code[d] EXCEPT !.state = "expired"] ELSE code[d]]
    /\ UNCHANGED <<user, sub, paid, agent, call, due, marks, calls, changes>>

Senders == {{"number"}, {"hidden"}, {"number", "hidden"}, {"other"}}
Shadows(who) == {u \in Rows \ {"web"} : user[u].ext # "none" /\ {user[u].ext, user[u].phone, user[u].lid} \cap who # {}}
Claim(r, c, who) == code[c].state = "open" /\ Opens(r, [NoCall EXCEPT !.do = "claim", !.ref = c, !.who = who, !.rows = Shadows(who)])

Archived == [NoUser EXCEPT !.ext = "merged"]
PhoneOf(who) == {i \in who : IsNumber(i)}
Linked(w, who) == [w EXCEPT !.phone = IF PhoneOf(who) = {} THEN @ ELSE CHOOSE i \in PhoneOf(who) : TRUE,
                            !.lid = IF "hidden" \in who THEN "hidden" ELSE @]
Merged(s) == IF Usable(s) THEN [s EXCEPT !.status = "merged"] ELSE s
Archives(shadows, who) ==
    /\ user' = [u \in Rows |-> IF u \in shadows THEN Archived ELSE IF u = "web" THEN Linked(user[u], who) ELSE user[u]]
    /\ sub' = [u \in Rows |-> IF u \in shadows THEN Merged(sub[u]) ELSE sub[u]]

\* Those who will be found by another row, or by none.
Moves(q) == {i \in Identities : i \in q.who \/ Matching(i) \cap q.rows # {}}
ClaimCommits(r) ==
    /\ Open(r, "claim") /\ Closes(r) /\ UNCHANGED <<paid, agent, due>>
    /\ LET q == call[r]
       IN /\ Archives(q.rows, q.who)
          /\ code' = [code EXCEPT ![q.ref] = [state |-> "used", by |-> @.by \cup {q.who}]]
          /\ marks' = marks \cup {<<"linked", i>> : i \in q.who} \cup {<<"moved", i>> : i \in Moves(q)}
                            \cup (IF Shadows(q.who) # q.rows \/ code[q.ref].state # "open" THEN {<<"twofold", i>> : i \in q.who} ELSE {})

\* Things others do: the website ages a subscription, time passes, an administrator sets a number.
Befalls == changes < MaxChanges /\ changes' = changes + 1
Ages(u, s) == /\ Befalls /\ Usable(sub[u]) /\ sub' = [sub EXCEPT ![u].status = s]
              /\ UNCHANGED <<user, paid, agent, code, call, due, marks, calls>>
Lapses(a) == /\ Befalls /\ agent[a].live /\ agent' = [agent EXCEPT ![a].lapsed = TRUE]
             /\ UNCHANGED <<user, sub, paid, code, call, due, marks, calls>>
\* PATCH /users: the number of the web account, refused when it looks like a hidden id.
Profile(i) == /\ Befalls /\ IsNumber(i) /\ user' = [user EXCEPT !["web"].phone = i]
              /\ marks' = marks \cup {<<"linked", i>>, <<"moved", i>>} \cup (IF Matching(i) \subseteq {"web"} THEN {} ELSE {<<"twofold", i>>})
              /\ UNCHANGED <<sub, paid, agent, code, call, due, calls>>

Begins(r) ==
    \/ \E i \in Identities, learns \in BOOLEAN : Provision(r, i, learns)
    \/ \E u \in Rows, ref \in References : Topup(r, u, ref) \/ (\E p \in Plans : Upgrade(r, u, ref, p))
    \/ \E u \in Rows, p \in Plans : Activate(r, u, p)
    \/ \E i \in Identities, a \in Agents : Build(r, i, a) \/ Post(r, i, a)
    \/ \E a \in Agents : Delete(r, a) \/ Renew(r, a) \/ Admits(r, a)
    \/ \E c \in Codes, who \in Senders : Claim(r, c, who)
Commits(r) == ProvisionCommits(r) \/ TopupCommits(r) \/ UpgradeCommits(r) \/ ActivateCommits(r) \/ BuildCommits(r) \/ PostCommits(r)
              \/ DeleteCommits(r) \/ RenewCommits(r) \/ Records(r) \/ UsageCommits(r) \/ ClaimCommits(r)
AccountNext == \/ \E r \in Calls : Begins(r) \/ Commits(r)
               \/ \E c \in Codes : Generate(c)
               \/ \E u \in Rows : Ages(u, "grace_period") \/ Ages(u, "expired")
               \/ \E a \in Agents : Lapses(a)
               \/ \E i \in Identities : Profile(i)
AccountSpec == AccountInit /\ [][AccountNext]_accountVars

-----------------------------------------------------------------------------
Marked(kind, x) == <<kind, x>> \in marks

\* What was paid for and what was used is what the rows say, for a subscription and for
\* an agent, unless a request wrote over what another one had written since it read.
PaymentsAndUsageAddUp ==
    /\ \A u \in Rows : ~Marked("overwritten", u) => sub[u].quota = due.quota[u] /\ sub[u].used = due.used[u]
    /\ \A a \in Agents : ~Marked("overwritten", a) => agent[a].used = due.agent[a]

\* Who is found by an identity: one row, unless the identity was given away between a
\* request's read and its commit, or was stored for a second row.
OneRowEach == \A i \in Identities : ~Marked("twofold", i) => Cardinality(Matching(i)) <= 1

\* An owner has no more agents than the plan allows, unless one was added by the API, two
\* were added at a time, the plan was exchanged for a smaller one, the row the owner was
\* found by was archived or given another identity, or two rows were found.
SlotsKept == \A i \in Identities, u \in Rows :
    /\ Matching(i) = {u} /\ ~Marked("crowded", i) /\ ~Marked("moved", i) /\ ~Marked("twofold", i)
    => Cardinality(OwnedBy(i)) <= MaxAgents(TrialFor(u).plan)

\* A run is charged to the account its owner is found by, unless the owner's identity was
\* linked to the dashboard's account or stored twice, or is a hidden id learned with a number.
OwnersPay == \A i \in Identities : Marked("free", i) => Marked("linked", i) \/ Marked("twofold", i) \/ ~IsNumber(i)

\* An identity whose own row was archived is the dashboard account's, and could not be
\* given a row again, until another identity is linked; or it was known only by another.
NobodyIsLockedOut == \A i \in Identities :
    user[i].ext = "merged" /\ Matching(i) = {} => \E j \in Identities \ {i} : Marked("linked", j)

AccountsAddUp == PaymentsAndUsageAddUp /\ OneRowEach /\ SlotsKept /\ OwnersPay /\ NobodyIsLockedOut
=============================================================================

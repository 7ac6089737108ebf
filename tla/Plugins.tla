------------------------------ MODULE Plugins -------------------------------
(***************************************************************************)
(* Plugins of the hosts.  The fleet: what each host reports, what differs, *)
(* the lock taken from one host and the plan that brings the others to it. *)
(* An invocation: a person starts an action from a resource they clicked,  *)
(* and the daemon asks the host, request by request, for the chain of      *)
(* workspace, tab and pane to send along, while people use that host.      *)
(***************************************************************************)
EXTENDS Naturals, Sequences, FiniteSets, SequencesExt

CONSTANTS
    Hosts, Sources, None,
    Releases,       \* what can be installed: [version, commit, ref]
    Tabs, Panes,    \* of the host an action runs on; TabOf and the focus are variables
    MaxChanges      \* named bound: what people change on the hosts

VARIABLES
    held,       \* per host and source: the release installed, with `known` and `enabled`, or Nothing
    inventory,  \* Inventory: per host, what it reported, or Unasked or Unreachable
    lock,       \* Lockfile: per source, the reference to reproduce, or None
    plan,       \* the steps printed: a sequence of [host, source, to]
    ran,        \* the steps run for this lock since a host last changed (history)
    tabOf,      \* per pane: its tab, None once it is closed
    focused,    \* the pane the host has focused
    ask,        \* the invocation under way: [phase, kind, wanted, pane, tab, listed]
    sent,       \* the context of the last invocation sent (history)
    changes
fleetVars == <<held, inventory, lock, plan, ran>>
invokeVars == <<tabOf, focused, ask, sent>>
vars == <<held, inventory, lock, plan, ran, tabOf, focused, ask, sent, changes>>

Nothing == [version |-> 0, commit |-> 0, ref |-> 0, known |-> FALSE, enabled |-> FALSE]
Unasked == [s \in {} |-> Nothing]
Unreachable == [s \in {"error"} |-> Nothing]
Change == changes < MaxChanges /\ changes' = changes + 1

-----------------------------------------------------------------------------
(* The fleet: Inventory *)

\* installed.keys(): only hosts that answered are compared or planned for.
Answered == {h \in Hosts : DOMAIN inventory[h] = Sources}
Holders(s) == {h \in Answered : inventory[h][s] # Nothing}
Versions(s) == {inventory[h][s].version : h \in Holders(s)}
Commits(s) == {inventory[h][s].commit : h \in {x \in Holders(s) : inventory[x][s].known}}

\* Mutant of Drift: commits are compared only where versions already differ.
DriftByVersion ==
    UNION {(IF Holders(s) # {} /\ Holders(s) # Answered THEN {<<"missing", s>>} ELSE {})
           \cup (IF Cardinality(Versions(s)) > 1 THEN {<<"version", s>>} ELSE {})
           \cup (IF \E h \in Holders(s) : ~inventory[h][s].enabled THEN {<<"disabled", s>>} ELSE {}) : s \in Sources}

\* drift: a version difference explains a commit difference and is reported alone.
Drift ==
    UNION {(IF Holders(s) # {} /\ Holders(s) # Answered THEN {<<"missing", s>>} ELSE {})
           \cup (IF Cardinality(Versions(s)) > 1 THEN {<<"version", s>>}
                 ELSE IF Cardinality(Commits(s)) > 1 THEN {<<"commit", s>>} ELSE {})
           \cup (IF \E h \in Holders(s) : ~inventory[h][s].enabled THEN {<<"disabled", s>>} ELSE {}) : s \in Sources}

\* What a plugin is at: its commit when it is known, or else what was asked for.
At(p) == IF p = Nothing THEN None ELSE IF p.known THEN p.commit ELSE p.ref

\* lockfile.
LockOf(h) == [s \in Sources |-> At(inventory[h][s])]

\* plan: a step per host and source that is not at the pinned reference.
Plan(l) ==
    LET behind == SetToSeq({at \in Answered \X Sources : l[at[2]] # None /\ At(inventory[at[1]][at[2]]) # l[at[2]]})
    IN  [i \in DOMAIN behind |-> [host |-> behind[i][1], source |-> behind[i][2], to |-> l[behind[i][2]]]]

\* plugin_inventory: host by host; one that fails is one line of the report.
AskHost(h) ==
    /\ inventory[h] = Unasked
    /\ \E answer \in {held[h], Unreachable} : inventory' = [inventory EXCEPT ![h] = answer]
    /\ UNCHANGED <<held, lock, plan, ran, changes>> /\ UNCHANGED invokeVars

\* `plugins lock`: one host is written down.
TakeLock(h) ==
    /\ \A x \in Hosts : inventory[x] # Unasked
    /\ h \in Answered /\ lock' = LockOf(h) /\ plan = <<>> /\ ran' = {}
    /\ UNCHANGED <<held, inventory, plan, changes>> /\ UNCHANGED invokeVars

\* `plugins plan`: the steps are printed; a person runs them.
MakePlan ==
    /\ \A x \in Hosts : inventory[x] # Unasked
    /\ plan' = Plan(lock)
    /\ UNCHANGED <<held, inventory, lock, ran, changes>> /\ UNCHANGED invokeVars

\* herdr plugin install --ref (external): the release of that commit, or of that ref as it is now.
RunStep ==
    /\ plan # <<>> /\ plan' = Tail(plan)
    /\ LET st == Head(plan)
       IN  \E r \in {x \in Releases : st.to \in {x.commit, x.ref}} :
             held' = [held EXCEPT ![st.host][st.source] =
                        [version |-> r.version, commit |-> r.commit, ref |-> st.to, known |-> TRUE, enabled |-> TRUE]]
    /\ ran' = ran \cup {<<Head(plan).host, Head(plan).source>>}
    /\ UNCHANGED <<inventory, lock, changes>> /\ UNCHANGED invokeVars

\* The person asks again.
AskAgain ==
    /\ plan = <<>> /\ inventory' = [h \in Hosts |-> Unasked]
    /\ UNCHANGED <<held, lock, plan, ran, changes>> /\ UNCHANGED invokeVars

\* Somebody installs, removes or switches off a plugin on a host (external).
HostChanges ==
    /\ Change
    /\ \E h \in Hosts, s \in Sources :
         \/ held' = [held EXCEPT ![h][s] = Nothing] /\ ran' = {}
         \/ \E r \in Releases, known, on \in BOOLEAN :
              /\ held' = [held EXCEPT ![h][s] = [version |-> r.version, commit |-> r.commit, ref |-> r.ref,
                                                 known |-> known, enabled |-> on]]
              /\ ran' = {}
    /\ UNCHANGED <<inventory, lock, plan>> /\ UNCHANGED invokeVars

FleetNext ==
    \/ \E h \in Hosts : AskHost(h) \/ TakeLock(h)
    \/ MakePlan \/ RunStep \/ AskAgain \/ HostChanges

-----------------------------------------------------------------------------
(* An invocation: hydrated_context *)

NoAsk == [phase |-> "none"]
Open == {p \in Panes : tabOf[p] # None}

\* A person starts an action from a pane, a tab, a workspace, or the session as a whole.
Invoke(kind, wanted) ==
    /\ ask = NoAsk
    /\ ask' = [phase |-> IF kind \in {"tab", "workspace"} THEN kind ELSE "pane", kind |-> kind, wanted |-> wanted,
               pane |-> None, tab |-> IF kind = "tab" THEN wanted ELSE None]
    /\ UNCHANGED <<tabOf, focused, sent, changes>> /\ UNCHANGED fleetVars

\* pane.get of the pane that was clicked, or pane.current for the session.
GetPane ==
    /\ ask.phase = "pane"
    /\ LET p == IF ask.kind = "pane" THEN ask.wanted ELSE focused
       IN  IF p \in Open THEN ask' = [ask EXCEPT !.pane = p, !.tab = tabOf[p], !.phase = "tab"]
           ELSE ask' = NoAsk
    /\ UNCHANGED <<tabOf, focused, sent, changes>> /\ UNCHANGED fleetVars

\* workspace.get: its active tab is looked at.
GetWorkspace ==
    /\ ask.phase = "workspace"
    /\ \/ \E p \in Open : ask' = [ask EXCEPT !.tab = tabOf[p], !.phase = "tab"]
       \/ Open = {} /\ ask' = NoAsk
    /\ UNCHANGED <<tabOf, focused, sent, changes>> /\ UNCHANGED fleetVars

\* tab.get, with workspace.get: a tab whose panes are all gone is no longer there.
GetTab ==
    /\ ask.phase = "tab"
    /\ IF \E p \in Open : tabOf[p] = ask.tab
       THEN ask' = [ask EXCEPT !.phase = IF ask.pane = None THEN "list" ELSE "send"]
       ELSE ask' = NoAsk
    /\ UNCHANGED <<tabOf, focused, sent, changes>> /\ UNCHANGED fleetVars

\* Mutant of Listed: whatever the host has focused.
ListedAnywhere(tab) == Open

\* pane.list: the panes of the tab asked for.
Listed(tab) == {p \in Open : tabOf[p] = tab}

\* The focused pane of the tab, or else its first.
ListPanes ==
    /\ ask.phase = "list"
    /\ LET found == Listed(ask.tab)
       IN  IF found = {} THEN ask' = NoAsk
           ELSE \E p \in (IF focused \in found THEN {focused} ELSE found) :
                  ask' = [ask EXCEPT !.pane = p, !.phase = "send"]
    /\ UNCHANGED <<tabOf, focused, sent, changes>> /\ UNCHANGED fleetVars

\* plugin.action.invoke, or the time runs out.
Send ==
    /\ ask.phase = "send" /\ ask' = NoAsk
    /\ sent' \in {sent, [kind |-> ask.kind, wanted |-> ask.wanted, pane |-> ask.pane, tab |-> ask.tab,
                         beside |-> changes]}
    /\ UNCHANGED <<tabOf, focused, changes>> /\ UNCHANGED fleetVars

\* Somebody moves the focus, moves a pane, or closes one on that host (external).
PeopleWork ==
    /\ Change
    /\ \E p \in Open : \/ focused' = p /\ UNCHANGED tabOf
                       \/ \E t \in Tabs \cup {None} : tabOf' = [tabOf EXCEPT ![p] = t] /\ UNCHANGED focused
    /\ UNCHANGED <<ask, sent>> /\ UNCHANGED fleetVars

InvokeNext ==
    \/ \E p \in Panes : Invoke("pane", p) \/ Invoke("session", p)
    \/ \E t \in Tabs : Invoke("tab", t)
    \/ Invoke("workspace", None) \/ GetWorkspace \/ GetPane \/ GetTab \/ ListPanes \/ Send \/ PeopleWork

Init ==
    /\ held = [h \in Hosts |-> [s \in Sources |-> Nothing]]
    /\ inventory = [h \in Hosts |-> Unasked] /\ lock = [s \in Sources |-> None] /\ plan = <<>> /\ ran = {}
    /\ tabOf \in [Panes -> Tabs] /\ focused \in Panes /\ ask = NoAsk /\ sent = NoAsk /\ changes = 0

-----------------------------------------------------------------------------
(* Properties *)

\* What the report calls agreement needs no plan: when the hosts that answered show no difference
\* and every commit is known, the lock of any of them is what all of them have (drift, lockfile, plan).
AgreedNeedsNothing ==
    (Answered # {} /\ (\A h \in Answered, s \in Sources : inventory[h][s] = Nothing \/ inventory[h][s].known)
        /\ Drift \subseteq {<<"disabled", s>> : s \in Sources}) =>
        \A h \in Answered : Plan(LockOf(h)) = <<>>

\* What was clicked is what the plugin is told of: the context sent holds the pane or the tab the
\* person started from, and its pane is one of its tab unless somebody moved panes meanwhile,
\* whatever the host has focused (hydrated_context, ensure_requested).
ContextIsTheClick ==
    [][sent' # sent =>
         /\ sent'.kind = "pane" => sent'.pane = sent'.wanted
         /\ sent'.kind = "tab" => sent'.tab = sent'.wanted
         /\ sent'.beside = 0 => tabOf[sent'.pane] = sent'.tab]_vars

-----------------------------------------------------------------------------
(* Statements of the repository that the code does not keep *)

\* "A host already holding the pinned reference produces no step at all, so a plan that is empty
\* says the fleet already agrees": a step that was run, on a host nobody changed since, is not
\* printed again once that host has been asked again.
PlanConverges ==
    \A i \in DOMAIN plan : <<plan[i].host, plan[i].source>> \in ran => inventory[plan[i].host] # held[plan[i].host]

\* The context sent is of one moment: its pane is in its tab when it is sent.  It is put together
\* by several requests, and a pane may move between them.
ContextIsOfOneMoment == [][sent' # sent => tabOf[sent'.pane] = sent'.tab]_vars
=============================================================================

--------------------------- MODULE TargetManager ---------------------------
(* The frontend's target manager: a list of the configured machines, a form  *)
(* that tests a machine before it is saved, the removal of one, and the      *)
(* refresh that brings the list up to date with a file other programs edit.  *)
EXTENDS Naturals, FiniteSets

CONSTANTS Names,      \* target names
          Hosts,      \* SSH destinations
          File0,      \* the configured targets at first
          Unset,
          MaxTests,   \* bound: connection tests
          MaxWrites   \* bound: times the file is written

VARIABLES
    file,       \* the targets in the file: name -> [ssh, roots]
    writes,     \* times it was written
    configured, \* app.configured_targets
    manager,    \* app.target_manager
    tests,      \* connection tests under way: [id, ssh]
    nextTest,   \* app.next_target_test_request
    configDirty, \* app.configuration_dirty
    refresh     \* the refresh in flight: "none", "loading", "failed", or what it loaded
managerVars == <<file, writes, configured, manager, tests, nextTest, configDirty, refresh>>

app == <<configured, configDirty, refresh>>

NoManager == [mode |-> "closed"]
List(targets) == [mode |-> "list", targets |-> targets]

ManagerInit ==
    /\ file = File0 /\ configured = File0 /\ writes = 0
    /\ manager = NoManager /\ tests = {} /\ nextTest = 1
    /\ configDirty = FALSE /\ refresh = [state |-> "none"]

-----------------------------------------------------------------------------
(* The list: activate_target_manager_control and the list's keys.           *)

OpenManager ==
    /\ manager = NoManager
    /\ manager' = List(configured)
    /\ UNCHANGED <<file, writes, app, tests, nextTest>>

CloseManager ==
    /\ manager.mode = "list"
    /\ manager' = NoManager
    /\ UNCHANGED <<file, writes, app, tests, nextTest>>

Opened(original, name, ssh, roots) ==
    [mode |-> "form", targets |-> manager.targets, original |-> original, name |-> name, ssh |-> ssh,
     socket |-> Unset, roots |-> roots, test |-> "untested", request |-> 0, found |-> Unset]

\* TargetForm::add and TargetForm::edit.
AddTarget ==
    /\ manager.mode = "list"
    /\ \E h \in Hosts : manager' = Opened(Unset, Unset, h, 0)
    /\ UNCHANGED <<file, writes, app, tests, nextTest>>

EditTarget(n) ==
    /\ manager.mode = "list" /\ n \in DOMAIN manager.targets
    /\ manager' = Opened(n, n, manager.targets[n].ssh, manager.targets[n].roots)
    /\ UNCHANGED <<file, writes, app, tests, nextTest>>

AskRemove(n) ==
    /\ manager.mode = "list" /\ n \in DOMAIN manager.targets
    /\ manager' = [mode |-> "remove", targets |-> manager.targets, name |-> n]
    /\ UNCHANGED <<file, writes, app, tests, nextTest>>

Cancel ==
    /\ manager.mode \in {"form", "remove"}
    /\ manager' = List(manager.targets)
    /\ UNCHANGED <<file, writes, app, tests, nextTest>>

-----------------------------------------------------------------------------
(* The form.                                                                *)

\* TargetForm::invalidate_test.
Invalidated(form) == [form EXCEPT !.test = "untested", !.request = 0, !.found = Unset]

\* Mutant of EditSsh: the tested machine is changed and stays tested.
EditSshKeepsTest(h) ==
    /\ manager.mode = "form"
    /\ manager' = [manager EXCEPT !.ssh = h]
    /\ UNCHANGED <<file, writes, app, tests, nextTest>>

\* A key typed into a field; the socket goes with the session's name only.
EditSsh(h) ==
    /\ manager.mode = "form"
    /\ manager' = [Invalidated(manager) EXCEPT !.ssh = h]
    /\ UNCHANGED <<file, writes, app, tests, nextTest>>

EditName(n) ==
    /\ manager.mode = "form"
    /\ manager' = [Invalidated(manager) EXCEPT !.name = n]
    /\ UNCHANGED <<file, writes, app, tests, nextTest>>

EditSession ==
    /\ manager.mode = "form"
    /\ manager' = [Invalidated(manager) EXCEPT !.socket = Unset]
    /\ UNCHANGED <<file, writes, app, tests, nextTest>>

\* TargetForm::validation_error, against the list the form was opened from:
\* None when the form may be tested or saved.
Valid(form) ==
    /\ form.name # Unset
    /\ form.original # Unset => form.original \in DOMAIN form.targets
    /\ form.name \in DOMAIN form.targets => form.name = form.original

\* start_target_connection_test.
StartTest ==
    /\ manager.mode = "form" /\ Valid(manager) /\ nextTest <= MaxTests
    /\ tests' = tests \cup {[id |-> nextTest, ssh |-> manager.ssh]}
    /\ nextTest' = nextTest + 1
    /\ manager' = [manager EXCEPT !.test = "testing", !.request = nextTest, !.found = Unset]
    /\ UNCHANGED <<file, writes, app>>

\* Mutant of Awaited: whatever answer comes first is taken for the form's.
AwaitedAny(t) == manager.mode = "form" /\ manager.test = "testing"

Awaited(t) == manager.mode = "form" /\ manager.test = "testing" /\ manager.request = t.id

\* apply_target_test_event: an answer to another request is dropped.
TestEnds(t, passed) ==
    /\ tests' = tests \ {t}
    /\ manager' = IF ~Awaited(t) THEN manager
                  ELSE IF passed THEN [manager EXCEPT !.test = "passed", !.found = t.ssh]
                  ELSE [manager EXCEPT !.test = "failed", !.found = Unset]
    /\ UNCHANGED <<file, writes, app, nextTest>>

\* TargetForm::select_discovered_session.
SelectDiscovered ==
    /\ manager.mode = "form" /\ manager.found # Unset
    /\ manager' = [manager EXCEPT !.socket = manager.found]
    /\ UNCHANGED <<file, writes, app, tests, nextTest>>

-----------------------------------------------------------------------------
(* The file: what a save and a removal write, and what others do.           *)

Without(f, n) == [m \in DOMAIN f \ {n} |-> f[m]]
With(f, n, t) == [m \in DOMAIN f \cup {n} |-> IF m = n THEN t ELSE f[m]]

\* add_target_file refuses a name that is there, replace_target_file one that
\* is gone and a new name that is there.
Writable(form) ==
    /\ form.original # Unset => form.original \in DOMAIN file
    /\ form.name \in DOMAIN file => form.name = form.original

\* save_target_form.
Save ==
    /\ manager.mode = "form" /\ Valid(manager) /\ Writable(manager) /\ writes < MaxWrites
    /\ file' = With(Without(file, manager.original), manager.name, [ssh |-> manager.ssh, roots |-> manager.roots])
    /\ writes' = writes + 1
    /\ configured' = file' /\ manager' = List(file') /\ configDirty' = TRUE
    /\ UNCHANGED <<tests, nextTest, refresh>>

\* remove_target: the last target is never removed, and a refusal only closes
\* the question.
RemoveTarget ==
    /\ manager.mode = "remove"
    /\ IF manager.name \in DOMAIN file /\ Cardinality(DOMAIN file) > 1
       THEN /\ writes < MaxWrites /\ writes' = writes + 1
            /\ file' = Without(file, manager.name)
            /\ configured' = file' /\ manager' = List(file') /\ configDirty' = TRUE
       ELSE /\ manager' = List(manager.targets)
            /\ UNCHANGED <<file, writes, configured, configDirty>>
    /\ UNCHANGED <<tests, nextTest, refresh>>

\* Somebody edits the file: a machine more, one less, or a root to browse.
SomeoneWrites(n) ==
    /\ writes < MaxWrites /\ writes' = writes + 1
    /\ \/ n \notin DOMAIN file /\ \E h \in Hosts : file' = With(file, n, [ssh |-> h, roots |-> 0])
       \/ n \in DOMAIN file /\ Cardinality(DOMAIN file) > 1 /\ file' = Without(file, n)
       \/ n \in DOMAIN file /\ file[n].roots = 0 /\ file' = [file EXCEPT ![n].roots = 1]
    /\ UNCHANGED <<app, manager, tests, nextTest>>

-----------------------------------------------------------------------------
(* The refresh: run's periodic tick, its tick and spawn_config_refresh.     *)

Period ==
    /\ ~configDirty /\ configDirty' = TRUE
    /\ UNCHANGED <<file, writes, configured, manager, tests, nextTest, refresh>>

RefreshTick ==
    /\ configDirty /\ refresh.state = "none"
    /\ configDirty' = FALSE /\ refresh' = [state |-> "loading"]
    /\ UNCHANGED <<file, writes, configured, manager, tests, nextTest>>

\* Config::load, and then the sessions of every machine are asked for.  The
\* file may be found half written, as long as somebody still writes it.
Load ==
    /\ refresh.state = "loading"
    /\ \/ refresh' = [state |-> "ready", targets |-> file]
       \/ writes < MaxWrites /\ refresh' = [state |-> "failed"]
    /\ UNCHANGED <<file, writes, configured, manager, tests, nextTest, configDirty>>

\* Mutant of RefreshFails: a refresh that failed is still taken to be under way.
RefreshFailsForGood ==
    /\ refresh.state = "failed"
    /\ UNCHANGED managerVars

RefreshFails ==
    /\ refresh.state = "failed"
    /\ refresh' = [state |-> "none"]
    /\ UNCHANGED <<file, writes, configured, manager, tests, nextTest, configDirty>>

\* A list that is shown follows; a form and a question keep what they began with.
RefreshReady ==
    /\ refresh.state = "ready"
    /\ refresh' = [state |-> "none"]
    /\ configured' = refresh.targets
    /\ manager' = IF manager.mode = "list" THEN List(refresh.targets) ELSE manager
    /\ UNCHANGED <<file, writes, tests, nextTest, configDirty>>

-----------------------------------------------------------------------------

ManagerNext ==
    \/ OpenManager \/ CloseManager \/ AddTarget \/ Cancel
    \/ EditSession \/ StartTest \/ SelectDiscovered \/ Save \/ RemoveTarget
    \/ \E n \in Names : EditTarget(n) \/ AskRemove(n) \/ EditName(n) \/ SomeoneWrites(n)
    \/ \E h \in Hosts : EditSsh(h)
    \/ \E t \in tests, passed \in BOOLEAN : TestEnds(t, passed)
    \/ Period \/ RefreshTick \/ Load \/ RefreshFails \/ RefreshReady

\* The loop's timers fire, its tasks end and their answers are taken.
ManagerSpec ==
    /\ ManagerInit /\ [][ManagerNext]_managerVars
    /\ WF_managerVars(Period) /\ WF_managerVars(RefreshTick) /\ WF_managerVars(Load)
    /\ WF_managerVars(RefreshFails) /\ WF_managerVars(RefreshReady)

-----------------------------------------------------------------------------

\* A form that shows a passed test, and the sessions it found, shows them of
\* the machine it names, whatever was typed while tests were under way and in
\* whatever order they answered.
PassedIsCurrent == manager.mode = "form" /\ manager.test = "passed" => manager.found = manager.ssh

\* The frontend's list of machines comes to be the file's, although a refresh
\* that was loading while the file was written brings back what it said before.
ListFollowsFile == <>[](configured = file)

-----------------------------------------------------------------------------
(* Statements of the repository that the code does not keep.                *)

\* "a form that dropped [roots] would quietly empty a picker on the next save"
\* (tui.rs, TargetForm): no save takes a root away.
SaveKeepsRoots ==
    [][\A n \in DOMAIN file \cap DOMAIN file' :
        manager.mode = "form" /\ manager'.mode = "list" /\ file[n].roots = 1 => file'[n].roots = 1]_managerVars
=============================================================================

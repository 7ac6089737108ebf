----------------------------- MODULE MCRecords ------------------------------
(***************************************************************************)
(* What the daemon keeps and lets in, one part to a behaviour: pairing and *)
(* the device file (Pairing), the configuration's text (ConfigFile), names,*)
(* favourites and slots (LocalNames), push subscriptions and their key     *)
(* (PushWake), and plugins on the hosts (Plugins).                         *)
(***************************************************************************)
EXTENDS Pairing, TLC

CONSTANTS b1, b2

VARIABLES
    scene,      \* the component this behaviour is about
    \* ConfigFile
    textFile, busy, edits, meant, apart,
    \* LocalNames
    title, thing, seen, names, favourites, slots, localFile, turns,
    \* PushWake
    pushFile, key, readable, daemon, made, given, endpoint, requests, sweeps, paired,
    woken, pushTurns,
    \* Plugins
    held, inventory, lock, plan, ran, tabOf, focused, ask, sent, changes
textVars == <<textFile, busy, edits, meant, apart>>
localVars == <<title, thing, seen, names, favourites, slots, localFile, turns>>
pushVars == <<pushFile, key, readable, daemon, made, given, endpoint, requests, sweeps,
               paired, woken, pushTurns>>
plugVars == <<held, inventory, lock, plan, ran, tabOf, focused, ask, sent, changes>>
all == <<scene, vars, textVars, localVars, pushVars, plugVars>>

\* One browser on the network, one through the bridge.
OneEach == b1 :> "direct" @@ b2 :> "bridge"

\* Files with notes around and in their blocks, a device between two targets, a foreign table.
Line(kind, of) == [line |-> kind, of |-> of]
Files ==
    {<<Line("note", "top"), Line("header", "targets"), Line("name", "t1"), Line("note", "n1"),
       Line("header", "devices"), Line("note", "in"), Line("name", "d1"), Line("note", "above"),
       Line("header", "targets"), Line("name", "t2")>>,
     <<Line("header", "devices"), Line("name", "d1"), Line("header", "notifications"),
       Line("note", "x"), Line("header", "targets"), Line("name", "t1")>>}

Release(version, commit, ref) == [version |-> version, commit |-> commit, ref |-> ref]
Released == {Release(1, 11, 90), Release(1, 12, 90), Release(2, 21, 91)}
installVars == <<held, inventory, lock, plan, ran>>
clickVars == <<tabOf, focused, ask, sent>>

\* Two programs that make three edits.
Text == INSTANCE ConfigFile WITH
    Writers <- {1, 2}, Targets <- {"t1", "t2", "t3"}, Devices <- {"d1", "d2"},
    Texts <- Files, MaxEdits <- 3, file <- textFile
\* Two resources on two sessions of one host, whose names do not fit together.
Local == INSTANCE LocalNames WITH
    Resources <- {1, 2}, TargetOf <- <<1, 2>>, HostOf <- <<1, 1>>, Own <- <<1>>,
    Titles <- {"a", "bb"}, Size <- ("a" :> 1) @@ ("bb" :> 2), Slots <- {1, 2},
    MaxNames <- 2, MaxFavourites <- 1, MaxBytes <- 3, MaxTurns <- 4, file <- localFile
\* Two devices for one subscription.
Push == INSTANCE PushWake WITH
    Devices <- {b1, b2}, MaxSubscriptions <- 1, MaxTurns <- 5, MaxSweeps <- 1,
    file <- pushFile, turns <- pushTurns
\* Two hosts and three releases, two of one version; two panes in two tabs.
Plug == INSTANCE Plugins WITH
    Hosts <- {b1, b2}, Sources <- {"s"}, Releases <- Released, Tabs <- {"t1", "t2"},
    Panes <- {"p1", "p2"}, MaxChanges <- 2

\* One component acts; the others stay as they began.
MCInit ==
    /\ scene \in {"pair", "edit", "name", "wake", "install", "invoke"}
    /\ Init /\ Text!Init /\ Local!Init /\ Push!Init /\ Plug!Init
    /\ scene # "edit" => textFile = CHOOSE text \in Files : TRUE
    /\ scene # "name" => title = [r \in {1, 2} |-> "a"]
    /\ scene # "invoke" => tabOf = [p \in {"p1", "p2"} |-> "t1"] /\ focused = "p1"
MCNext ==
    \/ scene = "pair" /\ Next /\ UNCHANGED <<scene, textVars, localVars, pushVars, plugVars>>
    \/ scene = "edit" /\ Text!Next /\ UNCHANGED <<scene, vars, localVars, pushVars, plugVars>>
    \/ scene = "name" /\ Local!Next /\ UNCHANGED <<scene, vars, textVars, pushVars, plugVars>>
    \/ scene = "wake" /\ Push!Next /\ UNCHANGED <<scene, vars, textVars, localVars, plugVars>>
    \/ scene = "install" /\ Plug!FleetNext /\ UNCHANGED <<scene, clickVars, vars, textVars, localVars, pushVars>>
    \/ scene = "invoke" /\ Plug!InvokeNext /\ UNCHANGED <<scene, installVars, vars, textVars, localVars, pushVars>>

MCSpec == MCInit /\ [][MCNext]_all

\* Edits made one after another change in the text exactly the entry they name
\* (append_target, remove_device, rename_target and the rest of config.rs).
TextFollowsEdits == scene = "edit" => Text!TextFollowsEdits

\* What is kept means the same after a restart: a device is woken with the key it subscribed
\* with, and names, favourites and slots are those the file has of the sessions that discovery
\* finds (VapidKey::load_or_generate, Aliases).
KeptAcrossRestarts == [](scene = "wake" => Push!SignedAsSubscribed) /\ Local!LocalStateHolds

\* An action runs with the context of what was clicked, whatever has the focus by then, and
\* hosts that are said to agree need nothing installed (hydrated_context, drift, plan).
PluginsActAsShown == Plug!ContextIsTheClick /\ [](scene = "install" => Plug!AgreedNeedsNothing)
=============================================================================

------------------------------ MODULE TuiKeys ------------------------------
(***************************************************************************)
(* Who owns a key in the terminal frontend.  handle_input asks the         *)
(* overlays in one order, render shows them in another, the daemon opens   *)
(* two of them on its own; the actions they run go through a single-action *)
(* guard, and the plugin entries of a context menu arrive while it is open.*)
(*                                                                         *)
(* One target session.  An action of resource_action.rs is its kind, a     *)
(* menu or palette a sequence of kinds; a query of the palette is the set  *)
(* of kinds it matches.                                                    *)
(***************************************************************************)
EXTENDS Naturals, Sequences, FiniteSets, SequencesExt

CONSTANTS
    MenuTargets,    \* the contexts a menu is opened on, of Contexts
    Queries,        \* the sets of actions a palette query may match
    Catalogs,       \* the plugin catalogs a daemon may answer: sequences of contexts
    MaxGeneration,  \* named bound: reconnections of the target
    MaxOps          \* named bound: operations awaiting their result

VARIABLES
    open,           \* the overlays of App that are Some
    mode,           \* App.mode
    menu,           \* App.context_menu: [target, actions, selected, pressed]
    palette,        \* App.command_palette: [query, selected]
    prompt,         \* App.text_prompt: [kind, filled]
    inflight,       \* App.herdr_action_inflight
    ops,            \* App.pending_operations: [id, kind]
    saving,         \* file_save_request and file_save: "no", "asked", "receiving"
    live,           \* the target is Live with a Herdr binary
    generation,     \* its connection_generation
    catalog,        \* App.plugin_catalogs: [gen, actions], gen 0 while there is none
    asked           \* App.pending_plugin_catalogs: the generations asked for

overlays == <<open, menu, palette, prompt>>
operations == <<inflight, ops>>
plugins == <<catalog, asked>>
connection == <<live, generation>>
keysVars == <<overlays, mode, operations, saving, plugins, connection>>

Contexts == <<"session", "workspace", "tab", "pane">>
Context == {"session", "workspace", "tab", "pane"}

\* Menus are opened on, and plugin actions offered for, the contexts there are.
ASSUME KeysAssumption ==
    /\ MenuTargets \subseteq Context /\ MaxGeneration \in Nat
    /\ \A actions \in Catalogs : actions \in Seq(Context)

ByKeyboard == {"menu", "confirm", "prompt", "palette", "manager", "navigator", "center"}
Operations == {"create_tab", "split", "zoom", "plugin", "move", "recreate"}
Prompts == {"create_ws", "rename", "save", "transfer"}
NoMenu == [target |-> "pane", actions |-> <<>>, selected |-> 0, pressed |-> 0]
NoPalette == [query |-> {}, selected |-> 0]
NoPrompt == [kind |-> "none", filled |-> FALSE]

KeysInit ==
    /\ open = {} /\ mode = "terminal"
    /\ menu = NoMenu /\ palette = NoPalette /\ prompt = NoPrompt
    /\ inflight = FALSE /\ ops = {} /\ saving = "no"
    /\ live = TRUE /\ generation = 1
    /\ catalog = [gen |-> 0, actions |-> <<>>] /\ asked = {}

\* ResourceAction::mutates_herdr
Mutates(a) == a \notin {"jump", "manager", "navigator", "center", "mark", "save", "cancel"}

\* handle_input: the overlay that takes the next key.
KeyOwner(shown) ==
    LET order == <<"menu", "confirm", "prompt", "palette", "manager", "approval", "pairing",
                   "navigator", "center">>
    IN  order[CHOOSE i \in DOMAIN order :
                  order[i] \in shown /\ \A j \in 1 .. i - 1 : order[j] \notin shown]

\* render: the overlay that is drawn.
Shown(shown) ==
    LET order == <<"approval", "pairing", "manager", "navigator", "center", "menu", "palette",
                   "prompt", "confirm">>
    IN  order[CHOOSE i \in DOMAIN order :
                  order[i] \in shown /\ \A j \in 1 .. i - 1 : order[j] \notin shown]

Owns(overlay) == overlay \in open /\ KeyOwner(open) = overlay

-----------------------------------------------------------------------------
(* The entries on offer *)

IndexIn(s, x) == CHOOSE i \in DOMAIN s : s[i] = x

\* plugin_resource_actions: what a context offers includes what the wider ones do.
PluginEntries(actions, target) ==
    LET offered == {i \in DOMAIN actions : IndexIn(Contexts, actions[i]) <= IndexIn(Contexts, target)}
    IN  [i \in 1 .. Cardinality(offered) |-> "plugin"]

\* insert_plugin_actions: before the first destructive entry.
InsertPlugins(entries, actions, target) ==
    LET before == SelectInSeq(entries, LAMBDA a : a = "close")
        at == IF before = 0 THEN Len(entries) ELSE before - 1
    IN  SubSeq(entries, 1, at) \o PluginEntries(actions, target) \o SubSeq(entries, at + 1, Len(entries))

\* context_menu_for_target
MenuEntries(target) ==
    CASE target = "session" -> <<"create_ws">>
      [] target = "workspace" -> <<"create_tab", "rename", "move", "recreate", "close">>
      [] target = "tab" -> <<"rename", "close">>
      [] target = "pane" -> <<"split", "zoom", "close", "save", "transfer", "mark">>

\* command_palette_actions: always, and while there is a transfer to cancel.
PaletteGlobals ==
    <<"manager", "navigator", "center">> \o (IF saving # "no" THEN <<"cancel">> ELSE <<>>)

\* command_palette_actions: of the selected workspace, tab and pane, then of
\* every live target, then of the plugins.
PaletteResources ==
    IF live
    THEN <<"rename", "close", "create_tab", "move", "recreate", "split", "zoom", "save", "transfer",
           "mark", "create_ws", "jump">> \o PluginEntries(catalog.actions, "pane")
    ELSE <<>>

\* filtered_palette_actions
Filtered(query) == SelectSeq(PaletteGlobals \o PaletteResources, LAMBDA a : a \in query)

\* ensure_plugin_catalog: a catalog of this generation is asked for again once it is old.
EnsureCatalog ==
    /\ \/ asked' = asked \cup {generation} /\ live /\ generation \notin asked
       \/ asked' = asked /\ (~live \/ generation \in asked \/ catalog.gen = generation)
    /\ UNCHANGED catalog

-----------------------------------------------------------------------------
(* Running what was chosen *)

FreeId == CHOOSE i \in 1 .. MaxOps : \A op \in ops : op.id # i
RoomForAction == Cardinality(ops) < MaxOps

\* run_operation
RunOperation(kind) ==
    \/ inflight /\ UNCHANGED operations
    \/ /\ ~inflight /\ RoomForAction
       /\ inflight' = TRUE
       /\ ops' = ops \cup {[id |-> FreeId, kind |-> kind]}

\* spawn_workspace_move and spawn_workspace_recreate look at the connection first.
RunsWhen(a) == a \in {"move", "recreate"} => live

\* execute_resource_action: one that would change Herdr waits its turn.
Execute(a, left) ==
    \/ /\ Mutates(a) /\ inflight
       /\ open' = left
       /\ UNCHANGED <<prompt, operations, saving>>
    \/ /\ ~(Mutates(a) /\ inflight)
       /\ \/ /\ a \in {"manager", "navigator", "center"} /\ open' = left \cup {a}
             /\ UNCHANGED <<prompt, operations, saving>>
          \/ /\ a \in Prompts /\ open' = left \cup {"prompt"}
             /\ prompt' = [kind |-> a, filled |-> FALSE]
             /\ UNCHANGED <<operations, saving>>
          \/ /\ a = "close" /\ open' = left \cup {"confirm"}
             /\ UNCHANGED <<prompt, operations, saving>>
          \/ /\ a \in Operations /\ open' = left
             /\ IF RunsWhen(a) THEN RunOperation("action") ELSE UNCHANGED operations
             /\ UNCHANGED <<prompt, saving>>
          \/ /\ a = "cancel" /\ open' = left /\ saving' = "no"
             /\ UNCHANGED <<prompt, operations>>
          \/ /\ a \in {"jump", "mark"} /\ open' = left
             /\ UNCHANGED <<prompt, operations, saving>>

-----------------------------------------------------------------------------
(* Keys *)

Wrapped(i, n) == IF i > n THEN 1 ELSE IF i < 1 THEN n ELSE i
Clamped(i, n) == IF i > n THEN n ELSE i

\* Mutant of KeyMenu: the menu is looked at and not taken.
KeyMenuStays ==
    /\ Owns("menu")
    /\ UNCHANGED <<mode, palette, plugins, connection>>
    /\ Execute(menu.actions[menu.selected], open) /\ menu' = menu

\* handle_context_menu_input: leave, move, or run what is selected.
KeyMenu ==
    /\ Owns("menu")
    /\ UNCHANGED <<mode, palette, plugins, connection>>
    /\ \/ open' = open \ {"menu"} /\ menu' = NoMenu /\ UNCHANGED <<prompt, operations, saving>>
       \/ /\ \E step \in {1, -1} :
                 menu' = [menu EXCEPT !.selected = Wrapped(@ + step, Len(menu.actions))]
          /\ UNCHANGED <<open, prompt, operations, saving>>
       \/ Execute(menu.actions[menu.selected], open \ {"menu"}) /\ menu' = NoMenu

\* handle_context_menu_mouse
MouseMenu ==
    /\ "menu" \in open
    /\ UNCHANGED <<mode, palette, plugins, connection>>
    /\ \/ /\ \E i \in {menu.selected - 1, menu.selected + 1} \cap DOMAIN menu.actions :
                 menu' = [menu EXCEPT !.selected = i]
          /\ UNCHANGED <<open, prompt, operations, saving>>
       \/ /\ \E i \in DOMAIN menu.actions : menu' = [menu EXCEPT !.selected = i, !.pressed = i]
          /\ UNCHANGED <<open, prompt, operations, saving>>
       \/ open' = open \ {"menu"} /\ menu' = NoMenu /\ UNCHANGED <<prompt, operations, saving>>
       \/ /\ menu.pressed \in DOMAIN menu.actions
          /\ Execute(menu.actions[menu.pressed], open \ {"menu"}) /\ menu' = NoMenu
       \/ menu' = [menu EXCEPT !.pressed = 0] /\ UNCHANGED <<open, prompt, operations, saving>>

\* handle_close_confirmation_input
KeyConfirm ==
    /\ Owns("confirm")
    /\ UNCHANGED <<mode, menu, palette, prompt, saving, plugins, connection>>
    /\ open' = open \ {"confirm"}
    /\ RunOperation("close") \/ UNCHANGED operations

\* handle_text_prompt_input: leave, edit.
KeyPromptEdit ==
    /\ Owns("prompt")
    /\ UNCHANGED <<mode, menu, palette, operations, saving, plugins, connection>>
    /\ \/ open' = open \ {"prompt"} /\ prompt' = NoPrompt
       \/ \E filled \in BOOLEAN : prompt' = [prompt EXCEPT !.filled = filled] /\ UNCHANGED open

\* handle_text_prompt_input: what Enter does with a file's path.
KeyPromptFile ==
    /\ Owns("prompt") /\ prompt.filled
    /\ UNCHANGED <<mode, menu, palette, operations, plugins, connection>>
    /\ \/ /\ prompt.kind = "send"
          /\ (open' = open \ {"prompt"} /\ prompt' = NoPrompt) \/ UNCHANGED <<open, prompt>>
          /\ UNCHANGED saving
       \/ /\ prompt.kind = "save" /\ saving # "receiving"
          /\ open' = open \ {"prompt"} /\ prompt' = NoPrompt /\ saving' = "asked"
       \/ /\ prompt.kind = "transfer"
          /\ open' = open \ {"prompt"} /\ prompt' = NoPrompt /\ UNCHANGED saving

\* handle_text_prompt_input: what Enter does with a label.
KeyPromptLabel ==
    /\ Owns("prompt") /\ prompt.filled /\ prompt.kind \in {"create_ws", "rename"}
    /\ open' = open \ {"prompt"} /\ prompt' = NoPrompt
    /\ RunOperation("action")
    /\ UNCHANGED <<mode, menu, palette, saving, plugins, connection>>

\* handle_command_palette_input: the list is made again for every key.
KeyPalette ==
    LET actions == Filtered(palette.query)
        stays(query, i) == palette' = [query |-> query, selected |-> Clamped(i, Len(Filtered(query)))]
    IN  /\ Owns("palette")
        /\ UNCHANGED <<mode, menu, plugins, connection>>
        /\ \/ open' = open \ {"palette"} /\ palette' = NoPalette /\ UNCHANGED <<prompt, operations, saving>>
           \/ /\ palette.selected \in DOMAIN actions
              /\ Execute(actions[palette.selected], open \ {"palette"}) /\ palette' = NoPalette
           \/ /\ \/ /\ actions # <<>>
                    /\ \E step \in {1, -1} :
                           stays(palette.query, Wrapped(palette.selected + step, Len(actions)))
                 \/ \E query \in Queries :
                        /\ query \subseteq palette.query \/ palette.query \subseteq query
                        /\ stays(query, 1)
              /\ UNCHANGED <<open, prompt, operations, saving>>

\* The overlays whose own keys TargetManager, TuiSession and Attention model.
KeyLeaves ==
    /\ \E overlay \in {"manager", "navigator", "center", "approval", "pairing"} :
           Owns(overlay) /\ open' = open \ {overlay}
    /\ UNCHANGED <<mode, menu, palette, prompt, operations, saving, plugins, connection>>

\* handle_input in InputMode::Terminal: Ctrl+] and Ctrl+B.
KeyTerminal ==
    /\ open = {} /\ mode = "terminal"
    /\ mode' \in {"prefix", "herdr"}
    /\ UNCHANGED <<overlays, operations, saving, plugins, connection>>

\* request_workspace_close
RequestClose == open' = IF inflight THEN open ELSE open \cup {"confirm"}

\* Mutant of PasteAtomically: the guard is taken for a paste.
PasteTakesGuard ==
    /\ RoomForAction /\ ops' = ops \cup {[id |-> FreeId, kind |-> "paste"]}
    /\ inflight' = TRUE

\* paste_text_into_selected over the session's socket: the guard is neither asked nor taken.
PasteAtomically ==
    /\ RoomForAction /\ ops' = ops \cup {[id |-> FreeId, kind |-> "paste"]}
    /\ UNCHANGED inflight

\* handle_input in InputMode::Prefix
KeyPrefix ==
    /\ open = {} /\ mode = "prefix"
    /\ mode' = "terminal"
    /\ UNCHANGED <<menu, saving, connection>>
    /\ \/ open' \in {{"manager"}, {"navigator"}, {"center"}, {}}
          /\ UNCHANGED <<palette, prompt, operations, plugins>>
       \/ RequestClose /\ UNCHANGED <<palette, prompt, operations, plugins>>
       \/ /\ open' = {"prompt"} /\ prompt' = [kind |-> "send", filled |-> FALSE]
          /\ UNCHANGED <<palette, operations, plugins>>
       \/ /\ EnsureCatalog
          /\ open' = {"palette"} /\ palette' = [query |-> UNION Queries, selected |-> 1]
          /\ UNCHANGED <<prompt, operations>>
       \/ PasteAtomically /\ UNCHANGED <<open, palette, prompt, plugins>>

\* handle_herdr_prefix
KeyHerdrPrefix ==
    /\ open = {} /\ mode = "herdr"
    /\ mode' = "terminal"
    /\ RunOperation("action") \/ UNCHANGED operations
    /\ UNCHANGED <<overlays, saving, plugins, connection>>

\* handle_mouse, right press: open_context_menu.
MouseOpensMenu ==
    /\ mode = "terminal" /\ open \subseteq {"approval"}
    /\ EnsureCatalog
    /\ live
    /\ \E target \in MenuTargets :
           menu' = [target |-> target, selected |-> 1, pressed |-> 0,
                    actions |-> InsertPlugins(MenuEntries(target), catalog.actions, target)]
    /\ open' = open \cup {"menu"}
    /\ UNCHANGED <<mode, palette, prompt, operations, saving, connection>>

\* handle_decoded_input, a paste of text.
TerminalPaste ==
    /\ mode = "terminal" /\ open \subseteq {"approval"}
    /\ PasteAtomically
    /\ UNCHANGED <<overlays, mode, saving, plugins, connection>>

-----------------------------------------------------------------------------
(* What the daemon sends *)

\* Mutant of ActionResult: an operation that failed leaves the guard.
ResultKeepsGuard ==
    /\ \E op \in ops : ops' = ops \ {op}
    /\ inflight' \in {inflight, FALSE}
    /\ UNCHANGED <<overlays, mode, saving, plugins, connection>>

\* OperationResult, and an Error for an operation.
ActionResult ==
    /\ \E op \in ops : ops' = ops \ {op}
    /\ inflight' = FALSE
    /\ UNCHANGED <<overlays, mode, saving, plugins, connection>>

IsStale(g) == catalog.gen > g \/ \E newer \in asked : newer > g

\* Mutant of PluginActions: an answer is taken whatever was asked for since.
PluginActionsUnordered(g) ==
    /\ g \in asked
    /\ asked' = asked \ {g}
    /\ \E actions \in Catalogs :
           /\ catalog' = [gen |-> g, actions |-> actions]
           /\ menu' = menu
    /\ UNCHANGED <<open, palette, prompt, mode, operations, saving, connection>>

\* PluginActions: the open menu's plugin entries are replaced.  What is kept of
\* the menu are the entries it was made with.
PluginActions(g) ==
    /\ g \in asked
    /\ asked' = asked \ {g}
    /\ \/ (g # generation \/ IsStale(g)) /\ UNCHANGED <<catalog, menu>>
       \/ /\ ~IsStale(g)
          /\ \E actions \in Catalogs :
                 LET entries == InsertPlugins(MenuEntries(menu.target), actions, menu.target)
                 IN  /\ catalog' = [gen |-> g, actions |-> actions]
                     /\ menu' = IF "menu" \in open
                                THEN [menu EXCEPT !.actions = entries,
                                                  !.selected = Clamped(@, Len(entries))]
                                ELSE menu
    /\ UNCHANGED <<open, palette, prompt, mode, operations, saving, connection>>

\* Error for a catalog: an empty one stands in until it is asked for again.
PluginError(g) ==
    /\ g \in asked
    /\ asked' = asked \ {g}
    /\ catalog' = IF IsStale(g) THEN catalog ELSE [gen |-> g, actions |-> <<>>]
    /\ UNCHANGED <<overlays, mode, operations, saving, connection>>

\* PairingCode, PairingApprovalRequired, PairingDecision
PairingEvent ==
    /\ \/ open' = open \cup {"pairing"}
       \/ open' = (open \ {"pairing"}) \cup {"approval"}
       \/ open' = open \ {"approval"}
    /\ UNCHANGED <<menu, palette, prompt, mode, operations, saving, plugins, connection>>

\* DownloadOffer; DownloadFinished or a refusal.
SaveEvent ==
    /\ \/ saving = "asked" /\ saving' = "receiving"
       \/ saving # "no" /\ saving' = "no"
    /\ UNCHANGED <<overlays, mode, operations, plugins, connection>>

\* The target's connection as the daemon reports it.
TargetState ==
    /\ \/ live /\ live' = FALSE /\ UNCHANGED generation
       \/ ~live /\ generation < MaxGeneration /\ live' = TRUE /\ generation' = generation + 1
    /\ UNCHANGED <<overlays, mode, operations, saving, plugins>>

\* Ctrl+] q; the frontend is started again.
Quit ==
    /\ open = {} /\ mode = "prefix"
    /\ open' = {} /\ mode' = "terminal"
    /\ menu' = NoMenu /\ palette' = NoPalette /\ prompt' = NoPrompt
    /\ inflight' = FALSE /\ ops' = {} /\ saving' = "no"
    /\ catalog' = [gen |-> 0, actions |-> <<>>] /\ asked' = {}
    /\ UNCHANGED connection

KeysNext ==
    \/ KeyMenu \/ MouseMenu \/ KeyConfirm \/ KeyPromptEdit \/ KeyPromptFile \/ KeyPromptLabel
    \/ KeyPalette \/ KeyLeaves \/ KeyTerminal \/ KeyPrefix \/ KeyHerdrPrefix
    \/ MouseOpensMenu \/ TerminalPaste
    \/ ActionResult \/ PairingEvent \/ SaveEvent \/ TargetState \/ Quit
    \/ \E g \in 1 .. MaxGeneration : PluginActions(g) \/ PluginError(g)

KeysSpec == KeysInit /\ [][KeysNext]_keysVars

-----------------------------------------------------------------------------
\* Of the overlays a person opens, one at most is open, and none while a
\* prefix waits for its key, whatever the daemon opens over it: each is taken
\* before the next is put up.  The selection of each stays on an entry.
OneOverlay ==
    /\ Cardinality(open \cap ByKeyboard) <= 1
    /\ mode # "terminal" => open \cap ByKeyboard = {}
    /\ "menu" \in open => menu.selected \in DOMAIN menu.actions

\* The single-action guard is held only for an action whose result is still
\* to come, so that it is always let go of again.
GuardIsForAnAction == inflight => \E op \in ops : op.kind # "paste"

\* Answers to catalog requests arrive in any order; the plugin entries a menu
\* offers never go back to those of an earlier connection.
CatalogNeverRegresses == [][catalog'.gen >= catalog.gen \/ catalog'.gen = 0]_keysVars

\* Of the overlays a person opens one at most is open, each key goes to it, the
\* guard against a second action is held for an action only, and a catalog of an
\* earlier connection never replaces a later one (handle_input, run_operation,
\* PluginActions).
OneOverlayByKey == [](OneOverlay /\ GuardIsForAnAction) /\ CatalogNeverRegresses

-----------------------------------------------------------------------------
(* Statements of the repository that the code does not keep *)

\* "Nothing that has not been agreed to reaches the daemon": a close is sent
\* only when its confirmation is what the screen shows.
CloseIsAgreed ==
    [][\A op \in ops' \ ops : op.kind = "close" => Shown(open) = "confirm"]_keysVars

\* The single-action guard: one action at a time awaits its result.
OneActionAtATime == Cardinality({op \in ops : op.kind # "paste"}) <= 1

\* The entry a press was on is the one its release runs.
PressedStays == [][menu.pressed # 0 /\ menu'.pressed = menu.pressed /\ "menu" \in open' =>
                       menu'.actions[menu.pressed] = menu.actions[menu.pressed]]_keysVars
=============================================================================

----------------------------- MODULE LocalNames -----------------------------
(***************************************************************************)
(* Names, favourites and jump slots that this installation keeps for       *)
(* resources of the hosts, in a file of their own.  A host may rename a    *)
(* resource or give its id to another one, so a name also records what the *)
(* host called the resource when a person named it; a page acts on what it *)
(* was last shown.  A target is a session of a host; which there are is    *)
(* asked of the hosts when the daemon starts.                              *)
(***************************************************************************)
EXTENDS Naturals, Sequences, FiniteSets, SequencesExt, Functions

CONSTANTS
    Resources, TargetOf,    \* resources and the target (a host's session) of each
    HostOf, Own,            \* the host of a target, and the session a host's entry names
    None,
    Titles,                 \* what a host may call a resource
    Slots,                  \* JUMP_SLOTS
    MaxNames,               \* MAX_ALIASES
    MaxFavourites,          \* MAX_FAVOURITES
    MaxBytes, Size,         \* MAX_ALIASES_BYTES, and the bytes a name with this title takes
    MaxTurns                \* named bound: requests, restarts and what hosts do

VARIABLES
    title,      \* what the host calls each resource now
    thing,      \* which resource has the id now: a number, 0 at first (history)
    seen,       \* what the page last showed of each: [title, thing]
    names,      \* Aliases.names: per named resource, [observed, of]
    favourites, \* Aliases.favourites
    slots,      \* Aliases.slots
    file,       \* aliases.json
    turns
vars == <<title, thing, seen, names, favourites, slots, file, turns>>
local == <<names, favourites, slots>>

Targets == {TargetOf[r] : r \in Resources}
Hosts == {HostOf[t] : t \in Targets}
Turn == turns < MaxTurns /\ turns' = turns + 1
NoFile == [names |-> <<>>, favourites |-> <<>>, slots |-> <<>>]

\* save, after a change: a write that fails leaves the file as it was.
Saved == file' \in {file, [names |-> names', favourites |-> favourites', slots |-> slots']}

-----------------------------------------------------------------------------
(* LocalChange *)

\* set: what the page showed goes along as what the host called it.
SetName(r) ==
    /\ Turn
    /\ IF Cardinality(DOMAIN names) >= MaxNames /\ r \notin DOMAIN names
       THEN UNCHANGED <<names, favourites, slots, file>>
       ELSE /\ names' = [x \in DOMAIN names \cup {r} |->
                           IF x = r THEN [observed |-> seen[r].title, of |-> seen[r].thing] ELSE names[x]]
            /\ UNCHANGED <<favourites, slots>> /\ Saved
    /\ UNCHANGED <<title, thing, seen>>

ClearName(r) ==
    /\ Turn /\ r \in DOMAIN names
    /\ names' = Restrict(names, DOMAIN names \ {r})
    /\ UNCHANGED <<favourites, slots>> /\ Saved
    /\ UNCHANGED <<title, thing, seen>>

\* confirm: the person looked and said it is the same.
ConfirmName(r) ==
    /\ Turn /\ r \in DOMAIN names
    /\ names' = [names EXCEPT ![r] = [observed |-> seen[r].title, of |-> seen[r].thing]]
    /\ UNCHANGED <<favourites, slots>> /\ Saved
    /\ UNCHANGED <<title, thing, seen>>

\* favourite: a toggle.
Favourite(r) ==
    /\ Turn
    /\ IF Contains(favourites, r)
       THEN /\ favourites' = SelectSeq(favourites, LAMBDA x : x # r)
            /\ UNCHANGED <<names, slots>> /\ Saved
       ELSE IF Len(favourites) >= MaxFavourites THEN UNCHANGED <<names, favourites, slots, file>>
       ELSE favourites' = Append(favourites, r) /\ UNCHANGED <<names, slots>> /\ Saved
    /\ UNCHANGED <<title, thing, seen>>

\* Mutant of Slotted: the resource keeps the slot it had.
SlottedTwice(r, s) == [x \in DOMAIN slots \cup {s} |-> IF x = s THEN r ELSE slots[x]]

\* set_slot: the resource leaves whatever other slot it was in.
Slotted(r, s) ==
    [x \in {y \in DOMAIN slots : slots[y] # r} \cup {s} |-> IF x = s THEN r ELSE slots[x]]

SetSlot(r, s) ==
    /\ Turn
    /\ slots' = IF r = None THEN Restrict(slots, DOMAIN slots \ {s}) ELSE Slotted(r, s)
    /\ UNCHANGED <<names, favourites>> /\ Saved
    /\ UNCHANGED <<title, thing, seen>>

-----------------------------------------------------------------------------
(* The daemon starts *)

\* load: a file over the limits is no file at all.
Bytes(f) == FoldFunction(LAMBDA a, n : n + Size[a.observed], 0, f.names)
Loads(f) == Bytes(f) <= MaxBytes /\ Cardinality(DOMAIN f.names) <= MaxNames /\ Len(f.favourites) <= MaxFavourites

\* Mutant of Forgotten: only names are forgotten with a target.
ForgottenNames(f, kept) ==
    [f EXCEPT !.names = Restrict(f.names, {r \in DOMAIN f.names : TargetOf[r] \in kept})]

\* forget_target, for every target that is not among these.
Forgotten(f, kept) ==
    [names |-> Restrict(f.names, {r \in DOMAIN f.names : TargetOf[r] \in kept}),
     favourites |-> SelectSeq(f.favourites, LAMBDA r : TargetOf[r] \in kept),
     slots |-> Restrict(f.slots, {s \in DOMAIN f.slots : TargetOf[f.slots[s]] \in kept})]

\* expand_discovered_sessions: a host that answers has the sessions it runs; one
\* that does not (or need not be asked) has the one its entry names.
Active(b) ==
    {t \in Targets : /\ HostOf[t] \in b.kept
                     /\ IF HostOf[t] \in b.heard THEN t \in b.running ELSE t = Own[HostOf[t]]}

\* A start: the hosts in the configuration, those whose discovery answered, and
\* the sessions they run.
Starts ==
    {b \in [kept : SUBSET Hosts, heard : SUBSET Hosts, running : SUBSET Targets] :
        b.heard \subseteq b.kept /\ \A t \in b.running : HostOf[t] \in b.heard}

Restart(b) ==
    /\ Turn
    /\ LET f == Forgotten(IF Loads(file) THEN file ELSE NoFile, Active(b))
       IN  /\ names' = f.names /\ favourites' = f.favourites /\ slots' = f.slots
           /\ file' \in IF f = file \/ ~Loads(file) THEN {file} ELSE {file, f}
    /\ UNCHANGED <<title, thing, seen>>

-----------------------------------------------------------------------------
(* The hosts and the page *)

\* A host renames a resource, or gives its id to another one.
HostRenames(r) ==
    /\ Turn
    /\ \E t \in Titles : title' = [title EXCEPT ![r] = t]
    /\ UNCHANGED <<thing, seen, names, favourites, slots, file>>
HostReuses(r) ==
    /\ Turn
    /\ \E t \in Titles : title' = [title EXCEPT ![r] = t]
    /\ thing' = [thing EXCEPT ![r] = @ + 1]
    /\ UNCHANGED <<seen, names, favourites, slots, file>>

\* The page is shown the resource as it is.
Shown(r) ==
    /\ seen[r] # [title |-> title[r], thing |-> thing[r]]
    /\ seen' = [seen EXCEPT ![r] = [title |-> title[r], thing |-> thing[r]]]
    /\ UNCHANGED <<title, thing, names, favourites, slots, file, turns>>

Init ==
    /\ title \in [Resources -> Titles] /\ thing = [r \in Resources |-> 0]
    /\ seen = [r \in Resources |-> [title |-> title[r], thing |-> 0]]
    /\ names = <<>> /\ favourites = <<>> /\ slots = <<>> /\ file = NoFile
    /\ turns = 0

Next ==
    \/ \E r \in Resources : \/ SetName(r) \/ ClearName(r) \/ ConfirmName(r) \/ Favourite(r)
                            \/ HostRenames(r) \/ HostReuses(r) \/ Shown(r)
    \/ \E r \in Resources \cup {None}, s \in Slots : SetSlot(r, s)
    \/ \E b \in Starts : Restart(b)

Spec == Init /\ [][Next]_vars

-----------------------------------------------------------------------------
(* Properties *)

\* resolve: the name that is shown over a resource, which is Current only while it fits.
ShownOver(r) == r \in DOMAIN names /\ names[r].observed = title[r]

\* Across restarts and failed writes, a resource answers to one slot and is a favourite once; and
\* a start keeps exactly what the last file it could read says of the sessions that discovery
\* came to, names, favourites and slots alike (set_slot, favourite, forget_target, AliasStore::load).
LocalStateHolds ==
    [][/\ \A s, z \in DOMAIN slots' : slots'[s] = slots'[z] => s = z
       /\ IsInjective(favourites')
       /\ Turn => \A b \in Starts : Restart(b) =>
            LET Of(r) == TargetOf[r] \in Active(b)
                f == IF Loads(file) THEN file ELSE NoFile
            IN  /\ \A r \in Resources : (r \in DOMAIN names') <=> (r \in DOMAIN f.names /\ Of(r))
                /\ Range(favourites') = {r \in Range(f.favourites) : Of(r)}
                /\ Range(slots') = {r \in Range(f.slots) : Of(r)}]_vars

-----------------------------------------------------------------------------
(* Statements of the repository that the code does not keep *)

\* "A reused id must not inherit a name": a name is shown only over the resource it was given to.
NameStaysWithItsThing == \A r \in Resources : ShownOver(r) => names[r].of = thing[r]

\* "Nothing is forgotten because a host was merely unreachable": a start keeps the names on every
\* host that is in the configuration and did not answer.
UnreachableIsKept ==
    [][\A b \in Starts : Restart(b) =>
          \A r \in DOMAIN file.names :
              Loads(file) /\ HostOf[TargetOf[r]] \in b.kept \ b.heard => r \in DOMAIN names']_vars

\* "A failed write costs the next restart these names and nothing else": a file that was written
\* is a file that loads.
WhatIsSavedLoads == Loads(file)
=============================================================================

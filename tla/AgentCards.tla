----------------------------- MODULE AgentCards -----------------------------
(***************************************************************************)
(* The inbox: the daemon's projection of the federation into one card per  *)
(* agent, the marks a person puts on cards, and a page that shows the last *)
(* projection it was sent and opens what it shows.  An agent is known by   *)
(* the session its host reports, or else by its pane; two panes may report *)
(* one session, and an agent may move while its card is on its way.        *)
(***************************************************************************)
EXTENDS Naturals, Sequences, FiniteSets, SequencesExt

CONSTANTS
    Targets,        \* numbers, in the order of their names
    Panes,          \* numbers, in the order of their ids
    TargetOf,       \* [Panes -> Targets]
    Sessions,       \* numbers: what an agent's session may be, 0 for none reported
    Phases,         \* subset of {"attention", "working", "idle"}
    MaxHistory,     \* MAX_HISTORY_CARDS
    MaxMarked,      \* MAX_MARKED_AGENTS
    MaxRevision,    \* named bound: projections that differ
    MaxQueue,       \* named bound: projections on their way to the page
    MaxMarks,       \* named bound: requests to mark a card
    MaxFaults       \* named bound: connections lost, targets removed, restarts

VARIABLES
    conn,       \* per target: "live" | "away" | "new" (no snapshot yet) | "gone"
    agents,     \* per pane: the agent the target's last snapshot has there, or NoAgent
    listed,     \* the panes the last snapshots list
    marks,      \* AgentMarks: a sequence of [agent, pinned, muted, snoozed], last touched last
    stored,     \* agent-marks.json
    index,      \* AgentCardIndex: [tracked, history, rank, revision, published]
    queue,      \* projections on their way to the page
    shown,      \* the projection the page renders
    opened,     \* the last card opened led to its agent (history)
    asked, faults
vars == <<conn, agents, listed, marks, stored, index, queue, shown, opened, asked, faults>>

NoAgent == [session |-> 0, phase |-> "none"]
Agents == [session : Sessions \cup {0}, phase : Phases]
Sections == <<"needs_you", "working", "recent">>
Nothing == [needs_you |-> <<>>, working |-> <<>>, recent |-> <<>>]
Blank == [tracked |-> <<>>, history |-> <<>>, rank |-> 0, revision |-> 0, published |-> Nothing]

-----------------------------------------------------------------------------
(* Identity: agent_key *)

\* A session is the better identity, since it survives a move; the two forms are tagged.
AgentKey(p, a) == IF a.session = 0 THEN <<TargetOf[p], 0, p>> ELSE <<TargetOf[p], 1, a.session>>

\* AgentId's order.
Before(a, b) ==
    \/ a[1] < b[1]
    \/ a[1] = b[1] /\ a[2] < b[2]
    \/ a[1] = b[1] /\ a[2] = b[2] /\ a[3] < b[3]

\* The panes whose agent the federation reports under this identity.
Holding(f, key) == {p \in Panes : f.agents[p] # NoAgent /\ AgentKey(p, f.agents[p]) = key}
Fed == [conn |-> conn, agents |-> agents, listed |-> listed]

-----------------------------------------------------------------------------
(* AgentMarks *)

NoMark(key) == [agent |-> key, pinned |-> FALSE, muted |-> FALSE, snoozed |-> "no"]
MarkOf(ms, key) ==
    LET held == SelectSeq(ms, LAMBDA m : m.agent = key)
    IN  IF held = <<>> THEN NoMark(key) ELSE held[1]

\* quiet_at: a snooze is over once its deadline has passed, expired or not.
QuietAt(m) == m.muted \/ m.snoozed = "on"

\* apply: unmarked is not stored, and past the cap the one touched longest ago is forgotten.
ApplyMark(ms, m) ==
    LET others == SelectSeq(ms, LAMBDA x : x.agent # m.agent)
        all == IF m = NoMark(m.agent) THEN others ELSE Append(others, m)
    IN  SubSeq(all, IF Len(all) > MaxMarked THEN 2 ELSE 1, Len(all))

\* expire, on the way to every projection.
Expired(ms) ==
    SelectSeq([i \in DOMAIN ms |-> IF ms[i].snoozed = "due" THEN [ms[i] EXCEPT !.snoozed = "no"] ELSE ms[i]],
              LAMBDA m : m # NoMark(m.agent))

-----------------------------------------------------------------------------
(* AgentCardIndex: project *)

SectionOf(phase, quiet) ==
    CASE quiet -> "recent"
      [] phase = "attention" -> "needs_you"
      [] phase = "working" -> "working"
      [] OTHER -> "recent"

\* build_card.
BuildCard(f, ms, p) ==
    LET key == AgentKey(p, f.agents[p])
        live == f.conn[TargetOf[p]] = "live"
    IN  [agent |-> key, pane |-> p, activity |-> f.agents[p].phase,
         section |-> SectionOf(f.agents[p].phase, QuietAt(MarkOf(ms, key))),
         stale |-> ~live, actionable |-> live /\ p \in f.listed, pinned |-> MarkOf(ms, key).pinned]

SeenKeys(f) == {AgentKey(p, f.agents[p]) : p \in {q \in Panes : f.agents[q] # NoAgent}}

\* Mutant of SeenCard: a card two agents answer to stays on offer.
SeenCardOffered(f, ms, key) == BuildCard(f, ms, CHOOSE p \in Holding(f, key) : \A q \in Holding(f, key) : q <= p)

\* The card of an identity the snapshots report: of two agents that answer to it the last
\* replaces the first, and neither is offered.
SeenCard(f, ms, key) ==
    LET last == CHOOSE p \in Holding(f, key) : \A q \in Holding(f, key) : q <= p
        card == BuildCard(f, ms, last)
    IN  IF Cardinality(Holding(f, key)) > 1 THEN [card EXCEPT !.actionable = FALSE] ELSE card

\* retire.
Retired(card) == [card EXCEPT !.pane = 0, !.activity = "gone", !.section = "recent",
                              !.actionable = FALSE, !.stale = FALSE]

\* Mutant of Kept: a target that cannot be asked ends its agents.
KeptOnlyIfSeen(f, t, seen) == {k \in DOMAIN t : k \in seen}

\* Only a live target that no longer lists an agent ends it; one that cannot be asked keeps it.
Kept(f, t, seen) == {k \in DOMAIN t : k \in seen \/ f.conn[k[1]] \in {"away", "new"}}

\* The cards a live target has just ended, in the order of their identities, newest first.
History(f, t, seen, history) ==
    LET ended == {k \in DOMAIN t \ seen : f.conn[k[1]] = "live"}
        inOrder == SetToSortSeq(ended, LAMBDA a, b : Before(b, a))
        all == [i \in DOMAIN inOrder |-> Retired(t[inOrder[i]].card)] \o history
    IN  SubSeq(all, 1, IF Len(all) > MaxHistory THEN MaxHistory ELSE Len(all))

\* Mutant of Entering: a card whose content changed takes a new place.
EnteringOnChange(t, card) == {k \in DOMAIN card : k \notin DOMAIN t \/ t[k].card # card[k]}

\* A card keeps its rank while it stays in its section, and takes the next on entering one.
Entering(t, card) == {k \in DOMAIN card : k \notin DOMAIN t \/ t[k].section # card[k].section}

\* section: pinned first, then by rank.
InSection(t, section) ==
    LET held == {k \in DOMAIN t : t[k].section = section}
        Earlier(a, b) == \/ t[a].card.pinned /\ ~t[b].card.pinned
                         \/ t[a].card.pinned = t[b].card.pinned /\ t[a].rank < t[b].rank
        keys == SetToSortSeq(held, Earlier)
    IN  [i \in DOMAIN keys |-> t[keys[i]].card]

\* project.
Project(f, ms, ix) ==
    LET seen == SeenKeys(f)
        card == [k \in seen |-> SeenCard(f, ms, k)]
        t == ix.tracked
        entering == Entering(t, card)
        tracked == [k \in Kept(f, t, seen) \cup seen |->
                      IF k \in seen
                      THEN [rank |-> IF k \in entering
                                     THEN ix.rank + Cardinality({j \in entering : Before(j, k)})
                                     ELSE t[k].rank,
                            section |-> card[k].section, card |-> card[k]]
                      ELSE [t[k] EXCEPT !.card.stale = TRUE, !.card.actionable = FALSE]]
        history == History(f, t, seen, ix.history)
        published == [needs_you |-> InSection(tracked, "needs_you"),
                      working |-> InSection(tracked, "working"),
                      recent |-> InSection(tracked, "recent") \o history]
    IN  [tracked |-> tracked, history |-> history, rank |-> ix.rank + Cardinality(entering),
         revision |-> ix.revision + (IF ix.revision > 0 /\ published = ix.published THEN 0 ELSE 1),
         published |-> published]

\* project_agent_cards with the broker's agent_cards_updated: snoozes that ran out are dropped
\* (and the file rewritten), the inbox rebuilt, and sent when it differs from the last one sent.
ProjectAgentCards(f, ms, file) ==
    /\ marks' = Expired(ms)
    /\ stored' \in IF Expired(ms) # ms THEN {file, Expired(ms)} ELSE {file}
    /\ index' = Project(f, Expired(ms), index)
    /\ queue' = IF index'.revision = index.revision THEN queue
                ELSE Append(queue, [revision |-> index'.revision, cards |-> index'.published])
Room == Len(queue) < MaxQueue /\ index.revision < MaxRevision

-----------------------------------------------------------------------------
(* The federation, as Input::Federation hands it to the loop *)

\* A target reports a snapshot: any of its panes may have changed, moved an agent, or gone.
Refresh(t) ==
    /\ conn[t] # "gone" /\ Room
    /\ \E after \in [{p \in Panes : TargetOf[p] = t} -> Agents \cup {NoAgent}],
          here \in SUBSET {p \in Panes : TargetOf[p] = t} :
         /\ agents' = [p \in Panes |-> IF TargetOf[p] = t THEN after[p] ELSE agents[p]]
         /\ listed' = {p \in listed : TargetOf[p] # t} \cup here
    /\ conn' = [conn EXCEPT ![t] = "live"]
    /\ ProjectAgentCards([conn |-> conn', agents |-> agents', listed |-> listed'], marks, stored)
    /\ UNCHANGED <<shown, opened, asked, faults>>

\* A connection is lost; what the target last reported is still held.
Lose(t) ==
    /\ conn[t] = "live" /\ faults < MaxFaults /\ Room
    /\ faults' = faults + 1 /\ conn' = [conn EXCEPT ![t] = "away"]
    /\ ProjectAgentCards([Fed EXCEPT !.conn = conn'], marks, stored)
    /\ UNCHANGED <<agents, listed, shown, opened, asked>>

\* The supervisors are replaced: every target starts again, but one no longer configured (0: none).
Replace(t) ==
    /\ faults < MaxFaults /\ Room /\ faults' = faults + 1
    /\ conn' = [u \in Targets |-> IF u = t THEN "gone" ELSE "new"]
    /\ agents' = [p \in Panes |-> NoAgent] /\ listed' = {}
    /\ ProjectAgentCards([conn |-> conn', agents |-> agents', listed |-> listed'], marks, stored)
    /\ UNCHANGED <<shown, opened, asked>>

\* The daemon ends and another starts: the inbox begins again, the marks are read back.
RestartDaemon ==
    /\ faults < MaxFaults /\ faults' = faults + 1
    /\ conn' = [t \in Targets |-> "new"] /\ index' = Blank /\ marks' = stored
    /\ agents' = [p \in Panes |-> NoAgent] /\ listed' = {}
    /\ queue' = <<>> /\ shown' = [revision |-> 0, cards |-> Nothing]
    /\ UNCHANGED <<stored, opened, asked>>

-----------------------------------------------------------------------------
(* What a person does *)

\* Effect::MarkAgent: the card may be of an agent that is gone by now.
MarkAgent ==
    /\ asked < MaxMarks /\ asked' = asked + 1 /\ Room
    /\ \E k \in {c.agent : c \in UNION {ToSet(shown.cards[s]) : s \in ToSet(Sections)}} :
         \E m \in {[MarkOf(marks, k) EXCEPT !.pinned = b] : b \in BOOLEAN}
                  \cup {[MarkOf(marks, k) EXCEPT !.muted = b] : b \in BOOLEAN}
                  \cup {[MarkOf(marks, k) EXCEPT !.snoozed = b] : b \in {"no", "on"}} :
           IF m = MarkOf(marks, k) THEN UNCHANGED <<marks, stored, index, queue>>
           ELSE \E file \in {stored, ApplyMark(marks, m)} : ProjectAgentCards(Fed, ApplyMark(marks, m), file)
    /\ UNCHANGED <<conn, agents, listed, shown, opened, faults>>

\* Time passes: a snooze runs out.
SnoozeEnds ==
    /\ \E i \in DOMAIN marks : marks[i].snoozed = "on" /\ marks' = [marks EXCEPT ![i].snoozed = "due"]
    /\ UNCHANGED <<conn, agents, listed, stored, index, queue, shown, opened, asked, faults>>

\* The page renders the next projection (agents.cards).
Render ==
    /\ queue # <<>> /\ shown' = Head(queue) /\ queue' = Tail(queue)
    /\ UNCHANGED <<conn, agents, listed, marks, stored, index, opened, asked, faults>>

\* The page opens a card it offers: it observes the pane the card records.
Open ==
    /\ \E s \in ToSet(Sections) : \E c \in ToSet(shown.cards[s]) :
         /\ c.actionable
         /\ conn[TargetOf[c.pane]] = "live" /\ c.pane \in listed /\ agents[c.pane] # NoAgent
         /\ opened' = (AgentKey(c.pane, agents[c.pane]) = c.agent)
    /\ UNCHANGED <<conn, agents, listed, marks, stored, index, queue, shown, asked, faults>>

Init ==
    /\ conn = [t \in Targets |-> "new"] /\ agents = [p \in Panes |-> NoAgent] /\ listed = {}
    /\ marks = <<>> /\ stored = <<>> /\ index = Blank /\ queue = <<>>
    /\ shown = [revision |-> 0, cards |-> Nothing] /\ opened = TRUE /\ asked = 0 /\ faults = 0

Next ==
    \/ \E t \in Targets : Refresh(t) \/ Lose(t)
    \/ \E t \in Targets \cup {0} : Replace(t)
    \/ RestartDaemon \/ MarkAgent \/ SnoozeEnds \/ Render \/ Open

Spec == Init /\ [][Next]_vars

-----------------------------------------------------------------------------
(* Properties *)

\* AgentCardIndex::resolve, against the current federation: 0 is a refusal.
Resolve(key) ==
    LET held == Holding(Fed, key)
    IN  IF conn[key[1]] = "live" /\ Cardinality(held) = 1 /\ held \subseteq listed
        THEN CHOOSE p \in held : TRUE ELSE 0

CardsIn(published) == UNION {ToSet(published[s]) : s \in ToSet(Sections)}

\* What the inbox offers is what resolve would grant: while the daemon has handled every update
\* of the federation, a card it published as actionable resolves to exactly the pane on the card,
\* and one identity is never on offer twice (project, build_card, resolve).
OfferedIsRoutable ==
    \A c \in CardsIn(index.published) : c.actionable => Resolve(c.agent) = c.pane

\* The longest waiting stays on top: of two cards of a section, equally pinned, one that was
\* there before stays above one that has just entered, and two that were there keep their order,
\* whatever else appears, changes or goes (project's rank, section).
PlacesHold ==
    [][\A s \in ToSet(Sections) :
         LET Live(cards) == SelectSeq(cards, LAMBDA c : c.activity # "gone")
             was == Live(index.published[s])
             is == Live(index'.published[s])
             Place(c) == {i \in DOMAIN was : was[i].agent = c.agent}
         IN  \A k, l \in DOMAIN is :
               (k < l /\ is[k].pinned = is[l].pinned) =>
                 \A j \in Place(is[l]) : was[j].pinned = is[l].pinned =>
                   \E i \in Place(is[k]) : i < j \/ was[i].pinned # is[k].pinned]_vars

\* A live card ends for cause: it leaves the inbox when its target is live and no longer reports
\* the agent (and is then history, as far as that reaches), when the target is no longer followed
\* (it was taken out of the file, or the last discovery of its host did not find it), or when the
\* daemon restarts; a link that drops never takes one away (project, retire).
CardsEndForCause ==
    [][\A k \in DOMAIN index.tracked \ DOMAIN index'.tracked :
         \/ conn'[k[1]] = "gone"
         \/ index' = Blank
         \/ conn'[k[1]] = "live" /\ Holding([conn |-> conn', agents |-> agents', listed |-> listed'], k) = {}
            /\ \/ k \in {c.agent : c \in ToSet(index'.history)}
               \/ Len(index'.history) = MaxHistory]_vars

-----------------------------------------------------------------------------
(* Statements of the repository that the code does not keep *)

\* "it is never the route an action uses": the pane a page opens for a card holds that agent.
OpenedIsTheAgent == opened

\* "Both cards stay visible": of two agents that answer to one identity, each has a card.
BothStayVisible ==
    \A p \in Panes :
        (agents[p] # NoAgent /\ conn[TargetOf[p]] = "live") => \E c \in CardsIn(index.published) : c.pane = p
=============================================================================

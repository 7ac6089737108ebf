---------------------------- MODULE ConfigFile ----------------------------
(* The configuration file and the programs that edit it.  The frontend's     *)
(* target form, the daemon that pairs a device and the command line's        *)
(* `device revoke` and `notifications` each read the whole text, change one  *)
(* entry of it and replace the file atomically; nothing locks it between.    *)
(*                                                                           *)
(* A text is a sequence of lines.  A line is a table header, the name of an  *)
(* entry, an `enabled` assignment, or anything else a person wrote (a note). *)
EXTENDS Naturals, Sequences, FiniteSets, SequencesExt

CONSTANTS Writers,   \* programs that edit the file
          Targets,   \* target names
          Devices,   \* device names
          Texts,     \* the files there may be at first
          MaxEdits   \* bound: edits begun

VARIABLES
    file,      \* the text on disk
    busy,      \* per writer: the text it read and the edit it makes, or Idle
    edits,     \* edits begun
    meant,     \* what the file would say had the edits been made one by one
    apart      \* no file was replaced between a writer's read and its write
vars == <<file, busy, edits, meant, apart>>

Idle == [idle |-> TRUE]
Header(kind) == [line |-> "header", of |-> kind]
Name(n) == [line |-> "name", of |-> n]
Enabled(v) == [line |-> "enabled", of |-> v]

-----------------------------------------------------------------------------
(* What a text says.                                                        *)

IsHeader(l) == l.line = "header"
HeadersIn(text) == {i \in DOMAIN text : IsHeader(text[i])}

\* A section runs from its header to the next header of any kind.
SectionEnd(text, i) ==
    LET later == {j \in HeadersIn(text) : j > i}
    IN  IF later = {} THEN Len(text) + 1 ELSE CHOOSE j \in later : \A k \in later : j <= k

Section(text, i) == SubSeq(text, i, SectionEnd(text, i) - 1)

Values(lines, kind) == LET found == SelectSeq(lines, LAMBDA l : l.line = kind)
                       IN  [i \in DOMAIN found |-> found[i].of]

\* The names of the entries of a kind, in order: a name line belongs to the
\* table whose header is the last before it.
NamesOf(text, kind) ==
    LET under(i) == LET above == {j \in HeadersIn(text) : j < i}
                    IN  above # {} /\ text[CHOOSE j \in above : \A k \in above : j >= k] = Header(kind)
        at == SelectSeq([i \in DOMAIN text |-> i], LAMBDA i : text[i].line = "name" /\ under(i))
    IN  [k \in DOMAIN at |-> text[at[k]].of]

Parse(text) ==
    [targets |-> NamesOf(text, "targets"), devices |-> NamesOf(text, "devices"),
     enabled |-> LET v == Values(text, "enabled") IN IF v = <<>> THEN "default" ELSE v[1]]

\* Config::parse and Config::validate: every entry has one name, the targets'
\* are distinct and there is one at least, and no table or key comes twice.
Valid(text) ==
    /\ \A i \in HeadersIn(text) :
        IF text[i].of = "notifications"
        THEN Len(Values(Section(text, i), "enabled")) <= 1
        ELSE Len(Values(Section(text, i), "name")) = 1
    /\ Cardinality({i \in HeadersIn(text) : text[i].of = "notifications"}) <= 1
    /\ LET names == NamesOf(text, "targets")
       IN  names # <<>> /\ \A i, j \in DOMAIN names : names[i] = names[j] => i = j

-----------------------------------------------------------------------------
(* The edits, as they are made on the text.                                 *)

Entry(kind, name) == <<Header(kind), Name(name)>>

\* target_section: the first [[targets]] section that names it.
TargetSection(text, name) ==
    LET found == {i \in HeadersIn(text) : text[i] = Header("targets") /\ Values(Section(text, i), "name") = <<name>>}
    IN  IF found = {} THEN 0 ELSE CHOOSE i \in found : \A j \in found : i <= j

\* mutate_target_file puts the replacement where the section was.
SpliceTarget(text, name, replacement) ==
    LET i == TargetSection(text, name)
    IN  SubSeq(text, 1, i - 1) \o replacement \o SubSeq(text, SectionEnd(text, i), Len(text))

\* Mutant of RemoveDeviceBlock: the next header does not end the dropping.
RemoveToTheEnd(text, name) ==
    LET i == CHOOSE j \in DOMAIN text : text[j] = Name(name)
    IN  SubSeq(text, 1, i - 2)

\* remove_device_block, line by line: the name line decides, and takes back
\* the header and whatever followed it.
RemoveDeviceBlock(text, name) ==
    LET lastHeader(kept) ==
            LET at == {i \in DOMAIN kept : kept[i] = Header("devices")}
            IN  CHOOSE i \in at : \A j \in at : i >= j
        step(acc, l) ==
            LET inDevices == IF IsHeader(l) THEN l.of = "devices" ELSE acc.inDevices
                named == inDevices /\ l.line = "name"
                dropping == IF named THEN l.of = name ELSE acc.dropping /\ ~IsHeader(l)
                kept == IF named /\ dropping THEN SubSeq(acc.kept, 1, lastHeader(acc.kept) - 1) ELSE acc.kept
            IN  [kept |-> IF dropping THEN kept ELSE Append(kept, l), inDevices |-> inDevices, dropping |-> dropping]
    IN  FoldLeft(step, [kept |-> <<>>, inDevices |-> FALSE, dropping |-> FALSE], text).kept

\* set_notifications_enabled: the assignment in place, a new one under its
\* header, or a table of its own before the first target.
SetEnabled(text, v) ==
    LET tables == {i \in HeadersIn(text) : text[i].of = "notifications"}
        targets == {i \in HeadersIn(text) : text[i].of = "targets"}
    IN  IF tables # {}
        THEN LET i == CHOOSE j \in tables : TRUE
                 at == {j \in i .. SectionEnd(text, i) - 1 : text[j].line = "enabled"}
             IN  IF at # {} THEN [text EXCEPT ![CHOOSE j \in at : \A k \in at : j <= k] = Enabled(v)]
                 ELSE SubSeq(text, 1, i) \o <<Enabled(v)>> \o SubSeq(text, i + 1, Len(text))
        ELSE LET i == CHOOSE j \in targets : \A k \in targets : j <= k
             IN  SubSeq(text, 1, i - 1) \o <<Header("notifications"), Enabled(v)>> \o SubSeq(text, i, Len(text))

Edits == [op : {"add target", "remove target"}, name : Targets]
    \cup [op : {"replace target"}, name : Targets, by : Targets]
    \cup [op : {"add device", "remove device"}, name : Devices]
    \cup [op : {"enable"}, name : {"true", "false"}]

Knows(text, kind, name) == name \in Range(NamesOf(text, kind))

\* The text an edit writes.  The refusals are the functions' own.
Edited(text, e) ==
    CASE e.op = "add target" -> text \o Entry("targets", e.name)
      [] e.op = "replace target" -> SpliceTarget(text, e.name, Entry("targets", e.by))
      [] e.op = "remove target" -> SpliceTarget(text, e.name, <<>>)
      [] e.op = "add device" -> text \o Entry("devices", e.name)
      [] e.op = "remove device" -> RemoveDeviceBlock(text, e.name)
      [] e.op = "enable" -> SetEnabled(text, e.name)

Refused(text, e) ==
    \/ e.op \in {"replace target", "remove target"} /\ TargetSection(text, e.name) = 0
    \/ e.op = "remove target" /\ Len(NamesOf(text, "targets")) = 1
    \/ e.op = "add device" /\ Knows(text, "devices", e.name)
    \/ e.op = "remove device" /\ ~Knows(text, "devices", e.name)
    \/ ~Valid(Edited(text, e))
    \/ e.op = "remove device" /\ Len(NamesOf(Edited(text, e), "devices")) # Len(NamesOf(text, "devices")) - 1

\* The same edit, made on what the text says.
Reference(config, e) ==
    LET without(s, n) == SelectSeq(s, LAMBDA x : x # n)
    IN  CASE e.op = "add target" -> [config EXCEPT !.targets = Append(@, e.name)]
          [] e.op = "replace target" -> [config EXCEPT !.targets = [i \in DOMAIN @ |-> IF @[i] = e.name THEN e.by ELSE @[i]]]
          [] e.op = "remove target" -> [config EXCEPT !.targets = without(@, e.name)]
          [] e.op = "add device" -> [config EXCEPT !.devices = Append(@, e.name)]
          [] e.op = "remove device" -> [config EXCEPT !.devices = without(@, e.name)]
          [] e.op = "enable" -> [config EXCEPT !.enabled = e.name]

-----------------------------------------------------------------------------

Init ==
    /\ file \in Texts /\ meant = Parse(file)
    /\ busy = [w \in Writers |-> Idle] /\ edits = 0 /\ apart = TRUE

\* fs::read_to_string, at the head of every one of the functions.
Read(w) ==
    /\ busy[w] = Idle /\ edits < MaxEdits
    /\ \E e \in Edits : ~Refused(file, e) /\ busy' = [busy EXCEPT ![w] = [text |-> file, edit |-> e]]
    /\ edits' = edits + 1
    /\ UNCHANGED <<file, meant, apart>>

\* write_private_atomic: a temporary file renamed over the old one.
Write(w) ==
    /\ busy[w] # Idle
    /\ file' = Edited(busy[w].text, busy[w].edit)
    /\ meant' = Reference(meant, busy[w].edit)
    /\ apart' = (apart /\ busy[w].text = file)
    /\ busy' = [busy EXCEPT ![w] = Idle]
    /\ UNCHANGED edits

\* The directory is full, not writable, or the program ends: the old text stays.
Fails(w) ==
    /\ busy[w] # Idle
    /\ busy' = [busy EXCEPT ![w] = Idle]
    /\ UNCHANGED <<file, edits, meant, apart>>

Next == \E w \in Writers : Read(w) \/ Write(w) \/ Fails(w)

Spec == Init /\ [][Next]_vars

-----------------------------------------------------------------------------

\* Edits made one after another change in the text exactly the entry they
\* name: the text says what the same edits make of the parsed configuration,
\* and it parses.
TextFollowsEdits == apart => Valid(file) /\ Parse(file) = meant

\* The notes of a text, by what they are.
Notes(text) == Range(Values(text, "note"))

-----------------------------------------------------------------------------
(* Statements of the repository that the code does not keep.                *)

\* "Record a paired device, keeping every existing line of the file."
\* (config.rs, add_device_file), "Revoke a device. What it holds stops working
\* immediately" (remove_device_file): no edit takes back another one.
NoEditIsLost == Parse(file).devices = meant.devices

\* "Drop one [[devices]] block, leaving every other line as it was."
\* (remove_device_block): the notes above the next header go with the block.
NotesStay == \A w \in Writers : busy[w] # Idle /\ busy[w].edit.op = "remove device" =>
                Notes(Edited(busy[w].text, busy[w].edit)) = Notes(busy[w].text)
=============================================================================

----------------------------- MODULE MCStartup -----------------------------
(***************************************************************************)
(* Three kinds of inputs, none of them combined with another: command      *)
(* lines, lines of a section, and the places of sections in a file.        *)
(***************************************************************************)
EXTENDS Startup, SequencesExt

Missing == [open |-> "missing"]
Error   == [open |-> "error"]
FileOf(lead, sections) == [open |-> "ok", lead |-> lead, sections |-> sections]
SectionWith(kind, length, lines) == [kind |-> kind, length |-> length, lines |-> lines]
Input(program, args, default, argument) ==
    [program |-> program, args |-> args,
     files |-> [default |-> default, argument |-> argument]]

Option(o, v) == [form |-> "option", name |-> o, value |-> v]
Bare(o)      == [form |-> "bare", name |-> o]
BlankLine    == [form |-> "blank"]

Upto(n, S) == UNION {[1 .. k -> S] : k \in 0 .. n}

\* Up to three arguments; the file given with -c differs from the default one.
Arguments == [server |-> {"-f", "-d", "-c", "-p", "word"},
              client |-> {"-d", "-c", "-x"},
              peer   |-> {"-d", "-c", "-U", "-D", "-x", "word"}]
CommandLines ==
    UNION {{Input(p, args, default,
                  FileOf(0, <<SectionWith(SectionOf(p), 20, <<Option("debug", "7")>>)>>)) :
                args \in Upto(3, Arguments[p]), default \in {Missing, Error}} :
           p \in Programs}

\* Up to four lines of every form, and two with every option and an argument.
Few == {Option("debug", "7"), Option("debug", "8"), Bare("debug"), Noise, BlankLine}
TextOf == [server |-> "multicast_group", client |-> "multicast_group", peer |-> "serv_addr"]
Many(p) == Few \cup {Option("debug", "text"), Option(TextOf[p], "text")}
OneSection(p, args, lines) ==
    Input(p, args, FileOf(9, <<SectionWith(SectionOf(p), 20, lines)>>), Missing)
SectionLines ==
    UNION {{OneSection(p, IF p = "peer" THEN <<"-U", "word">> ELSE <<>>, lines) :
                lines \in Upto(4, Few)} \cup
           {OneSection(p, args, lines) :
                args \in {<<"-d">>, <<"-d", "-D", "word">>}, lines \in Upto(2, Many(p))} :
           p \in Programs}
DeviceLines ==
    {Input("server", <<>>, FileOf(9, <<SectionWith("Device", 20, first), SectionWith("Device", 20, second)>>),
           Missing) :
        first \in Upto(3, {Option("name", "one"), Option("name", "two"),
                           Option("link_up", "text"), Bare("name"), BlankLine}),
        second \in Upto(1, {Option("name", "one"), Option("name", "two")})}

\* Up to n sections, some of them devices, of any length.
Places(n, lengths, leads) ==
    {Input("server", <<>>, FileOf(lead, sections), Missing) :
        lead \in leads,
        sections \in Upto(n, {SectionWith(kind, length, <<>>) :
                                 kind \in {"Device", "Other"}, length \in lengths})}

MCInputs ==
    UNION {CommandLines, SectionLines, DeviceLines,
           Places(3, {9, 10, 20}, {0, 1, 9}), Places(4, {9, 20}, {0, 9})}

=============================================================================

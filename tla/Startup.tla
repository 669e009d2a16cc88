------------------------------ MODULE Startup ------------------------------
(***************************************************************************)
(* What the three C programs do before their work begins: the link server, *)
(* the Linux client and the notification peer each have a read_config.c    *)
(* with parse_command_line() and read_config(), copies of one another but  *)
(* for their switches, sections and options.  The peer's work, one         *)
(* datagram, is here too.                                                  *)
(*                                                                         *)
(* A file is a sequence of sections after lead characters of comment; '['  *)
(* only opens a section.  A section has a kind, a length in characters     *)
(* (all that the search for the next one depends on) and lines.  Of a line *)
(* its form matters to parse_line():                                       *)
(*   option  a name, a separator and a value                               *)
(*   bare    a name and a separator, no quote or digit after it, or a      *)
(*           quote that is not closed                                      *)
(*   noise   no separator                                                  *)
(*   blank   nothing                                                       *)
(* Every line ends with a newline.  Names are compared without regard to   *)
(* case and are written in lower case here.                                *)
(*                                                                         *)
(* Undefined behaviour.  What a loop finds behind the copy of a section,   *)
(* which has no NUL at its end or is read one character past it, is        *)
(* nothing, or one line of noise, or the process is killed: an assumption, *)
(* for the memory there might hold several lines, or an option.  A name or *)
(* value that was never set, or is freed, kills the process or is          *)
(* something that matches no option.  Without a closing quote the length   *)
(* of the value is computed from a NULL and is more than malloc() gives.   *)
(***************************************************************************)
EXTENDS Integers, Sequences, FiniteSets, FiniteSetsExt

CONSTANTS
    Inputs,     \* [program, args, files]: how a program may be started
    Numbers,    \* the values strtoul() takes to their end
    None        \* a pointer that is NULL or was never set

Programs == {"server", "client", "peer"}

Line == [form : {"option"}, name : STRING, value : STRING]
            \cup [form : {"bare"}, name : STRING] \cup [form : {"noise", "blank"}]
Section == [kind : STRING, length : Nat, lines : Seq(Line)]

ASSUME InputAssumption ==
    \A in \in Inputs :
        /\ in.program \in Programs
        /\ in.args \in Seq(STRING)
        /\ \A f \in {"default", "argument"} :
             /\ in.files[f].open \in {"missing", "error", "ok"}
             /\ in.files[f].open = "ok" => /\ in.files[f].lead \in Nat
                                          /\ in.files[f].sections \in Seq(Section)

VARIABLES
    input,      \* the program, its arguments and the files there are
    pc,
    arg,        \* the index i of parse_command_line()
    settings,   \* the global variables that can be configured
    command,    \* the peer's g_command, and None as long as it is not set
    device,     \* the peer's g_device
    line,       \* the line a parse_*_section() has come to
    name, value,   \* its local variables
    cur_pos,    \* the static variable of get_next_device_section()
    found,      \* the [Device] section it returned last, 0 for NULL
    parsed,     \* the [Device] sections parsed to their end
    draft,      \* new_device of parse_device_section()
    devices,    \* g_devices
    sent        \* the datagram the peer has sent

parsing == <<line, name, value>>
search  == <<cur_pos, found, parsed, draft, devices>>
report  == <<command, device, sent>>
vars    == <<input, pc, arg, settings, report, parsing, search>>

-----------------------------------------------------------------------------
(***************************************************************************)
(* The options of each kind of section: those that take a number, and      *)
(* those that take what is there.                                          *)
(***************************************************************************)
ServerOptions ==
    [number |-> {"fork", "debug", "poll_time", "srv_port", "srv_inaddr",
                 "client_timeout", "retries", "connect_timeout",
                 "disconnect_timeout"},
     text   |-> {"multicast_group"}]

ClientOptions ==
    [number |-> {"debug", "server_timeout", "multicast_port"},
     text   |-> {"multicast_group"}]

PeerOptions ==
    [number |-> {"debug", "serv_port"}, text |-> {"serv_addr"}]

DeviceOptions ==
    [number |-> {}, text |-> {"name", "description", "link_up", "link_down",
                              "link_force_down"}]

OptionsOf(p) == CASE p = "server" -> ServerOptions
                  [] p = "client" -> ClientOptions
                  [] p = "peer"   -> PeerOptions

SectionOf(p) == CASE p = "server" -> "Server"
                  [] p = "client" -> "Client"
                  [] p = "peer"   -> "Peer"

All(options) == options.number \cup options.text

\* The option o is set to v by a line; strcasecmp() and number_valid.
Takes(options, o, v) ==
    \/ o \in options.text
    \/ o \in options.number /\ v \in Numbers

Defaults(options) == [o \in All(options) |-> "default"]

\* A pointer that is NULL is not a text; the last two conjuncts follow for anyone
\* who knows that a literal is in STRING.
ASSUME NoneAssumption ==
    /\ None \notin STRING
    /\ None \notin {"UP", "DOWN"}
    /\ \A p \in Programs : None \notin All(OptionsOf(p))

-----------------------------------------------------------------------------
(***************************************************************************)
(* The file.                                                               *)
(***************************************************************************)
File     == input.files[settings["config_file"]]
Sections == File.sections

\* Where section i begins; character positions count from 0.
start[i \in Nat] ==
    IF i <= 1 THEN File.lead ELSE start[i - 1] + Sections[i - 1].length

OfKind(kind)   == {i \in DOMAIN Sections : Sections[i].kind = kind}
DeviceSections == OfKind("Device")

\* strstr (config_data + pos, "[Device]")
Following(pos) == {i \in DeviceSections : start[i] >= pos}

\* The section found by get_server_section() and its copies.
OwnSection == Min(OfKind(SectionOf(input.program)))

Lines == IF pc = "device" THEN Sections[found].lines ELSE Sections[OwnSection].lines

-----------------------------------------------------------------------------
Init ==
    /\ input \in Inputs
    /\ pc = "arguments"
    /\ arg = 1
    /\ settings = [o \in All(OptionsOf(input.program)) \cup {"config_file"} |-> "default"]
    /\ command = None
    /\ device = None
    /\ line = 1
    /\ name = None
    /\ value = None
    /\ cur_pos = 0
    /\ found = 0
    /\ parsed = {}
    /\ draft = Defaults(DeviceOptions)
    /\ devices = {}
    /\ sent = None

Crash(rest) == pc' = "crashed" /\ UNCHANGED rest

-----------------------------------------------------------------------------
(***************************************************************************)
(* parse_command_line().                                                   *)
(***************************************************************************)
Reading(p) == input.program = p /\ pc = "arguments" /\ arg <= Len(input.args)

Given == input.args[arg]

\* A switch sets a variable; the argument after it is taken with it, if it is
\* to have one.
SwitchSets(o, v, taken) ==
    /\ settings' = [settings EXCEPT ![o] = v]
    /\ arg' = arg + 1 + taken
    /\ UNCHANGED <<pc, report>>

\* Faulty: nothing happens when argv[argc] is used.
SwitchTakesNothing(o) == SwitchSets(o, "argument", 1)

\* "if (++i > argc)" lets argv[argc], NULL, through to strdup() and atoi().
SwitchTakes(o) ==
    IF arg < Len(input.args) THEN SwitchSets(o, "argument", 1)
    ELSE Crash(<<arg, settings, report>>)

Ignored ==
    /\ arg' = arg + 1
    /\ UNCHANGED <<pc, settings, report>>

Switches(p) == CASE p = "server" -> {"-f", "-d", "-c", "-p"}
                 [] p = "client" -> {"-d", "-c"}
                 [] p = "peer"   -> {"-d", "-c", "-U", "-D"}

ServerArgument ==
    /\ Reading("server")
    /\ \/ Given = "-f" /\ SwitchSets("fork", "FALSE", 0)
       \/ Given = "-d" /\ SwitchSets("debug", "TRUE", 0)
       \/ Given = "-c" /\ SwitchTakes("config_file")
       \/ Given = "-p" /\ SwitchTakes("poll_time")
       \/ Given \notin Switches("server") /\ Ignored
    /\ UNCHANGED <<input, parsing, search>>

ClientArgument ==
    /\ Reading("client")
    /\ \/ Given = "-d" /\ SwitchSets("debug", "TRUE", 0)
       \/ Given = "-c" /\ SwitchTakes("config_file")
       \/ Given \notin Switches("client") /\ Ignored
    /\ UNCHANGED <<input, parsing, search>>

\* Faulty: the last of several -U and -D counts.
PeerCommandLast(c) ==
    /\ command' = c
    /\ arg' = arg + 1
    /\ UNCHANGED pc

\* "You can only specify one of -U or -D"
PeerCommand(c) ==
    IF command = None
    THEN command' = c /\ arg' = arg + 1 /\ UNCHANGED pc
    ELSE pc' = "failed" /\ UNCHANGED <<command, arg>>

\* "The only option that doesn't have a switch that will reach here is the device
\* name."
PeerArgument ==
    /\ Reading("peer")
    /\ \/ Given = "-d" /\ SwitchSets("debug", "TRUE", 0)
       \/ Given = "-c" /\ SwitchTakes("config_file")
       \/ Given = "-U" /\ PeerCommand("UP") /\ UNCHANGED <<settings, device, sent>>
       \/ Given = "-D" /\ PeerCommand("DOWN") /\ UNCHANGED <<settings, device, sent>>
       \/ Given \notin Switches("peer") \cup {"word"} /\ Ignored
       \/ /\ Given = "word"
          /\ device' = "word"
          /\ arg' = arg + 1
          /\ UNCHANGED <<pc, settings, command, sent>>
    /\ UNCHANGED <<input, parsing, search>>

\* The peer "must specify one of -U or -D", if it has arguments at all.
ArgumentsRead ==
    /\ pc = "arguments" /\ arg > Len(input.args)
    /\ pc' = IF input.program = "peer" /\ input.args # <<>> /\ command = None
             THEN "failed" ELSE "open"
    /\ UNCHANGED <<input, arg, settings, report, parsing, search>>

-----------------------------------------------------------------------------
(***************************************************************************)
(* read_config().                                                          *)
(***************************************************************************)
ConfigOnly == UNCHANGED <<input, arg, report>>

After(p) == IF p = "server" THEN "scan" ELSE "ready"

\* open_config_file(): without the file the defaults stay, any other error ends
\* the program; then get_server_section().
Open(p) ==
    /\ input.program = p /\ pc = "open"
    /\ pc' = CASE File.open = "missing"        -> "ready"
               [] File.open = "error"          -> "failed"
               [] File.open = "ok" /\ OfKind(SectionOf(p)) = {} -> After(p)
               [] File.open = "ok" /\ OfKind(SectionOf(p)) # {} -> "section"
    /\ UNCHANGED <<settings, parsing, search>> /\ ConfigOnly

ServerOpens == Open("server")
ClientOpens == Open("client")
PeerOpens   == Open("peer")

-----------------------------------------------------------------------------
(***************************************************************************)
(* The lines of a section.  strpbrk (prev_pos + 1, ...) begins to look for *)
(* the end of a line at its second character, so a blank line is read      *)
(* together with the next: its newline becomes the first character of the  *)
(* name, which then is no option's, or, if there is nothing else, a line   *)
(* without a separator.  So no line is ever "empty" to the code.           *)
(***************************************************************************)
Blank(i) == Lines[i].form = "blank"

AtEnd == line > Len(Lines) \/ (line = Len(Lines) /\ Blank(line))

Noise == [form |-> "noise"]

Glued(l) == CASE l.form \in {"blank", "noise"} -> Noise
              [] l.form \in {"bare", "option"} -> [l EXCEPT !.name = "\n"]

LineRead == IF Blank(line) THEN Glued(Lines[line + 1]) ELSE Lines[line]

\* parse_line() returns 0 also for a line without a separator and then sets
\* neither name nor value; without a value it has set the name before it fails,
\* and without a closing quote the value to the NULL that malloc() returned.
ParseLine(l) ==
    /\ name' = IF l.form = "noise" THEN name ELSE l.name
    /\ value' \in CASE l.form = "option" -> {l.value}
                    [] l.form = "bare"   -> {value, None}
                    [] l.form = "noise"  -> {value}

\* Faulty: the first line of an option counts.
WithFirst(options, conf, o, v) ==
    IF Takes(options, o, v) /\ conf[o] = "default" THEN [conf EXCEPT ![o] = v] ELSE conf

With(options, conf, o, v) ==
    IF Takes(options, o, v) THEN [conf EXCEPT ![o] = v] ELSE conf

\* What the variables conf may be after line l, if the process is not killed by
\* reading a value that never was set; there the value may also be anything.
Effect(options, conf, l) ==
    CASE l.form = "option" -> {With(options, conf, l.name, l.value)}
      [] l.form = "bare"   -> {conf}
      [] l.form = "noise" /\ value # None -> {With(options, conf, name, value)}
      [] l.form = "noise" /\ value = None ->
            {conf} \cup {[conf EXCEPT ![o] = "garbage"] : o \in All(options) \cap {name}}

Unset(l) == l.form = "noise" /\ value = None

\* One turn of the loop in parse_server_section() and its copies.
SectionLine(p) ==
    /\ input.program = p /\ pc = "section"
    /\ ~AtEnd
    /\ \/ /\ settings' \in Effect(OptionsOf(p), settings, LineRead)
          /\ ParseLine(LineRead)
          /\ line' = IF Blank(line) THEN line + 2 ELSE line + 1
          /\ UNCHANGED pc
       \/ Unset(LineRead) /\ Crash(<<settings, parsing>>)
    /\ UNCHANGED search /\ ConfigOnly

ServerLine == SectionLine("server")
ClientLine == SectionLine("client")
PeerLine   == SectionLine("peer")

\* Behind the section; one character past its end, and no NUL was copied: nothing is
\* assumed to be there, or one line without a separator.
SectionEnds ==
    /\ pc = "section"
    /\ AtEnd
    /\ \/ /\ pc' = After(input.program)
          /\ \/ UNCHANGED settings
             \/ settings' \in Effect(OptionsOf(input.program), settings, Noise)
       \/ Crash(settings)
    /\ line' = 1 /\ name' = None /\ value' = None
    /\ UNCHANGED search /\ ConfigOnly

-----------------------------------------------------------------------------
(***************************************************************************)
(* The [Device] sections of the server's file.                             *)
(***************************************************************************)
\* Faulty: new_device is not cleared.
NextSectionDirty ==
    /\ pc = "scan"
    /\ cur_pos # -1
    /\ Following(cur_pos) # {}
    /\ LET i == Min(Following(cur_pos))
       IN  /\ found' = i
           /\ cur_pos' = IF i = Len(Sections) THEN -1
                         ELSE Sections[i].length + 1
    /\ pc' = "device"
    /\ UNCHANGED <<settings, parsed, draft, devices, parsing>> /\ ConfigOnly

\* Faulty: the search resumes at the section it has just returned.
NextSectionAgain ==
    /\ pc = "scan"
    /\ cur_pos # -1
    /\ Following(cur_pos) # {}
    /\ LET i == Min(Following(cur_pos))
       IN  /\ found' = i
           /\ cur_pos' = start[i]
    /\ pc' = "device"
    /\ draft' = Defaults(DeviceOptions)
    /\ UNCHANGED <<settings, parsed, devices, parsing>> /\ ConfigOnly

\* get_next_device_section() returns section i.  The last section of the file
\* ends the search; after any other, cur_pos is end - start + 1, the length of
\* the section and one.
NextSection ==
    /\ pc = "scan"
    /\ cur_pos # -1
    /\ Following(cur_pos) # {}
    /\ LET i == Min(Following(cur_pos))
       IN  /\ found' = i
           /\ cur_pos' = IF i = Len(Sections) THEN -1
                         ELSE Sections[i].length + 1
    /\ pc' = "device"
    /\ draft' = Defaults(DeviceOptions)
    /\ UNCHANGED <<settings, parsed, devices, parsing>> /\ ConfigOnly

\* It returns NULL: ready to start again.
NoMoreSections ==
    /\ pc = "scan"
    /\ cur_pos = -1 \/ Following(cur_pos) = {}
    /\ cur_pos' = 0
    /\ found' = 0
    /\ pc' = "ready"
    /\ UNCHANGED <<settings, parsed, draft, devices, parsing>> /\ ConfigOnly

\* A turn of the loop in parse_device_section(), which frees name and value at its
\* end: only a line with both leaves nothing freed twice.
DeviceLine ==
    /\ pc = "device"
    /\ ~AtEnd
    /\ \/ /\ draft' = IF LineRead.form = "option"
                      THEN With(DeviceOptions, draft, LineRead.name, LineRead.value)
                      ELSE draft
          /\ line' = IF Blank(line) THEN line + 2 ELSE line + 1
          /\ UNCHANGED pc
       \/ LineRead.form # "option" /\ Crash(<<draft, line>>)
    /\ UNCHANGED <<settings, name, value, cur_pos, found, parsed, devices>> /\ ConfigOnly

\* add_device() refuses a name that is there already.
AddDevice(list, new) ==
    IF \E d \in list : d["name"] = new["name"] THEN list ELSE list \cup {new}

\* "unless we have an empty name, add it to the device list", or try to.
DeviceEnds ==
    /\ pc = "device"
    /\ AtEnd
    /\ \/ /\ pc' = "scan"
          /\ parsed' = parsed \cup {found}
          /\ devices' = IF draft["name"] = "default" THEN devices
                        ELSE AddDevice(devices, draft)
       \/ Crash(<<parsed, devices>>)
    /\ line' = 1
    /\ UNCHANGED <<settings, name, value, cur_pos, found, draft>> /\ ConfigOnly

-----------------------------------------------------------------------------
\* notify.c: the datagram.  g_device NULL is not survived by strcat(); g_command
\* is UP (0) if nothing has set it.
PeerSends ==
    /\ input.program = "peer" /\ pc = "ready"
    /\ IF device = None THEN Crash(sent)
       ELSE /\ pc' = "done"
            /\ sent' = IF command = "DOWN" THEN "ISDOWN" ELSE "ISUP"
    /\ UNCHANGED <<input, arg, settings, command, device, parsing, search>>

Next ==
    \/ ServerArgument \/ ClientArgument \/ PeerArgument \/ ArgumentsRead
    \/ ServerOpens \/ ClientOpens \/ PeerOpens
    \/ ServerLine \/ ClientLine \/ PeerLine \/ SectionEnds
    \/ NextSection \/ NoMoreSections \/ DeviceLine \/ DeviceEnds
    \/ PeerSends

Spec == Init /\ [][Next]_vars /\ WF_vars(Next)

-----------------------------------------------------------------------------
(***************************************************************************)
(* What was meant.                                                         *)
(***************************************************************************)
Final == {"ready", "failed", "crashed", "done"}

LastOf(S, f(_), otherwise) == IF S = {} THEN otherwise ELSE f(Max(S))

\* Arguments follow a switch that takes one when an odd number of such switches
\* stand right before them.
Taking == {"-c"} \cup (IF input.program = "server" THEN {"-p"} ELSE {})
IsTaken(i) ==
    LET Others == {j \in 1 .. i - 1 : input.args[j] \notin Taking}
    IN  (i - 1 - Max(Others \cup {0})) % 2 = 1
Used(switch) == \E i \in DOMAIN input.args : input.args[i] = switch /\ ~IsTaken(i)

\* What the command line says of option o.
Asked(o) ==
    CASE o = "debug" /\ Used("-d")       -> "TRUE"
      [] o = "fork" /\ Used("-f")        -> "FALSE"
      [] o = "poll_time" /\ Used("-p")   -> "argument"
      [] o = "config_file" /\ Used("-c") -> "argument"
      [] OTHER                           -> "default"

\* What the lines say of option o: the last one counts, of those that a blank line
\* does not swallow, and of a run of blank lines each swallows the next.
Swallowed(lines, i) ==
    LET Others == {j \in 1 .. i - 1 : lines[j].form # "blank"}
    IN  (i - 1 - Max(Others \cup {0})) % 2 = 1
Counting(options, lines, o) ==
    {i \in DOMAIN lines :
        /\ lines[i].form = "option" /\ lines[i].name = o
        /\ Takes(options, o, lines[i].value)
        /\ ~Swallowed(lines, i)}
Written(options, lines, o, otherwise) ==
    LastOf(Counting(options, lines, o), LAMBDA i : lines[i].value, otherwise)

\* A line with a name and no value must have an option right after it.
NamesHaveValues(lines) ==
    \A i \in DOMAIN lines :
        lines[i].form = "bare" => i < Len(lines) /\ lines[i + 1].form = "option"

OwnLines == IF File.open # "ok" \/ OfKind(SectionOf(input.program)) = {} THEN <<>>
            ELSE Sections[OwnSection].lines

-----------------------------------------------------------------------------
(***************************************************************************)
(* Properties.                                                             *)
(***************************************************************************)
TypeOK ==
    /\ input.program \in Programs
    /\ pc \in {"arguments", "open", "section", "scan", "device"} \cup Final
    /\ arg \in 1 .. Len(input.args) + 1
    /\ DOMAIN settings = All(OptionsOf(input.program)) \cup {"config_file"}
    /\ command \in {"UP", "DOWN", None} /\ device \in {"word", None}
    /\ cur_pos >= -1
    /\ found \in {0} \cup (IF File.open = "ok" THEN DeviceSections ELSE {})
    /\ pc \in {"section", "device"} => line \in 1 .. Len(Lines) + 1
    /\ \A d \in devices \cup {draft} : DOMAIN d = All(DeviceOptions)

\* read_config.c: the file counts before the command line, and in the file the last
\* line of an option; this holds of lines without a separator too, which set the
\* option before them once more, as long as every name has a value.
SettingsAsWritten ==
    pc \in {"ready", "done"} /\ NamesHaveValues(OwnLines) =>
        \A o \in DOMAIN settings :
            settings[o] = Written(OptionsOf(input.program), OwnLines, o, Asked(o))

\* read_config.c:452-456: the devices are those of the sections that were read, as
\* their lines say, and every name is there once.
DevicesAsWritten ==
    LET Meant(i) == [o \in All(DeviceOptions) |->
                        Written(DeviceOptions, Sections[i].lines, o, "default")]
    IN  /\ devices \subseteq {Meant(i) : i \in parsed}
        /\ \A i \in parsed :
             Meant(i)["name"] # "default" =>
               Cardinality({d \in devices : d["name"] = Meant(i)["name"]}) = 1

\* notify.c:51-58: the peer reports what exactly one of -U and -D says, and only
\* of a device it was given.
PeerSaysWhatItWasTold ==
    sent # None =>
        LET Told == {i \in DOMAIN input.args :
                        input.args[i] \in {"-U", "-D"} /\ ~IsTaken(i)}
        IN  /\ Cardinality(Told) = 1
            /\ \A i \in Told : sent = IF input.args[i] = "-U" THEN "ISUP" ELSE "ISDOWN"
            /\ Used("word")

\* read_config.c:282-284: every device section has been returned by the time
\* there are no more.
EverySectionRead ==
    input.program = "server" /\ pc = "ready" /\ File.open = "ok" => parsed = DeviceSections

\* read_config.c:157-204: the server gets to its work.
SearchEnds == <>(pc \in Final)

\* The files for which both are true.  cur_pos counts from the section just
\* returned and is used as if it counted from the beginning of the file, so each
\* device section, unless it ends the file, must be at least as long as all that
\* comes before it, and something must come before it.
WellPlaced ==
    File.open = "ok" =>
        \A i \in DeviceSections :
            i = Len(Sections) \/ start[i] \in 1 .. Sections[i].length

\* read_config.c:309-321: a well-placed file is read to its end, each section of
\* it once at least.
WellPlacedFilesRead == WellPlaced => SearchEnds /\ []EverySectionRead

=============================================================================

--------------------------------- MODULE Cli ---------------------------------
(***************************************************************************)
(* The command line client (src/src/main/cli_main.c).  One behaviour is    *)
(* one process: main parses the global options, takes the first remaining  *)
(* word for the command, initialises a context, runs the command, which    *)
(* parses the remaining words again with its own options, and cleans up.   *)
(*                                                                         *)
(* getopt_long is external.  In main it sees the WHOLE command line and    *)
(* moves words behind options (GNU permutation), so that it meets the      *)
(* options of the command before the command is known.  So is the core API *)
(* (src/include/xdevice.h): a call succeeds or fails.                      *)
(*                                                                         *)
(* An argument is a record: an option with its spelling and the value      *)
(* attached to it, a word, or the separator "--".  Printing is left out.   *)
(* server_address is stored and printed, nothing else.                     *)
(***************************************************************************)
EXTENDS Integers, SequencesExt

CONSTANTS
    CommandLine,     \* argv without the name of the program
    SizeText,        \* texts that strtod reads: [num, den, unit]
    PortText,        \* texts that atoi reads, and their values
    Kilo, SizeMod,   \* 1024 and 2^64
    PortMod          \* 2^16

None == "none"
Word(text) == [kind |-> "word", name |-> text, value |-> None]
Option(name, value) == [kind |-> "option", name |-> name, value |-> value]
Separator == [kind |-> "separator", name |-> "--", value |-> None]

Argument == {Separator} \cup [kind : {"word"}, name : STRING \ {None}, value : {None}]
                        \cup [kind : {"option"}, name : STRING \ {None}, value : STRING]

ASSUME CliAssumption ==
    /\ CommandLine \subseteq Seq(Argument)
    /\ None \notin DOMAIN SizeText
    /\ \A text \in DOMAIN SizeText :
         SizeText[text] \in [num : Int, den : Nat \ {0}, unit : STRING]
    /\ \A text \in DOMAIN PortText : PortText[text] \in Int
    /\ Kilo \in Nat \ {0} /\ SizeMod \in Nat \ {0} /\ PortMod \in Nat \ {0}

VARIABLES
    args,            \* argv without the program name
    pc,
    server_address,
    rest,            \* argv from optind on, once main has parsed its options
    ctx,             \* "none", "live" or "freed"
    calls,           \* history: the calls of the core API, with their results
    result

vars == <<args, pc, server_address, rest, ctx, calls, result>>

-----------------------------------------------------------------------------
(* getopt_long: external *)

\* An option the parser does not know, or a long one that takes no value and has one
Refused(known, a) ==
    a.name \notin DOMAIN known \/ (a.name \in {"--help", "--version"} /\ a.value # None)

\* One argument: the value a previous option waits for, a word, or an option.
\* Behind the separator everything is a word.
Scan(known, s, a) ==
    IF s.wanted # None
    THEN [s EXCEPT !.seen = Append(@, [code |-> s.wanted, value |-> a.name]), !.wanted = None]
    ELSE IF s.ended \/ a.kind = "word" THEN [s EXCEPT !.words = Append(@, a)]
    ELSE IF a.kind = "separator" THEN [s EXCEPT !.ended = TRUE]
    ELSE IF Refused(known, a)
         THEN [s EXCEPT !.seen = Append(@, [code |-> "?", value |-> None])]
    ELSE IF known[a.name].has_arg /\ a.value = None
         THEN [s EXCEPT !.wanted = known[a.name].code]
         ELSE [s EXCEPT !.seen = Append(@, [code |-> known[a.name].code, value |-> a.value])]

\* The options in the order they are met, an option without its value last.
getopt_long(known, argv) ==
    LET s == FoldLeft(LAMBDA acc, a : Scan(known, acc, a),
                      [seen |-> <<>>, words |-> <<>>, wanted |-> None, ended |-> FALSE], argv)
    IN  [seen  |-> IF s.wanted = None THEN s.seen
                   ELSE Append(s.seen, [code |-> "?", value |-> None]),
         words |-> s.words]

Takes(code, has_arg) == [code |-> code, has_arg |-> has_arg]

\* The switch of a loop over the options: the first that ends the program ...
Ends(seen, codes) == SelectInSeq(seen, LAMBDA o : o.code \in codes)

\* ... or the last value of each of the others.
Value(seen, code, default) ==
    LET i == SelectLastInSeq(seen, LAMBDA o : o.code = code)
    IN  IF i = 0 THEN default ELSE seen[i].value

-----------------------------------------------------------------------------
(* Sizes and ports *)

Multiplier ==
    LET M == Kilo * Kilo
    IN  [unit \in {"", "K", "KB", "M", "MB", "G", "GB", "T", "TB"} |->
            CASE unit = "" -> 1
              [] unit \in {"K", "KB"} -> Kilo
              [] unit \in {"M", "MB"} -> M
              [] unit \in {"G", "GB"} -> M * Kilo
              [] OTHER -> M * M]

\* parse_size_string: strtod, the unit, and the conversion to uint64_t, whose
\* result the language leaves open if it does not fit: 0 or the largest value.
parse_size_string(text) ==
    LET s == SizeText[text]
        bytes == (s.num * Multiplier[s.unit]) \div s.den
    IN  IF text \notin DOMAIN SizeText THEN {0}
        ELSE IF s.num <= 0 \/ s.unit \notin DOMAIN Multiplier THEN {0}
        ELSE IF bytes < SizeMod THEN {bytes} ELSE {0, SizeMod - 1}

\* (uint16_t)atoi(optarg)
ParsePort(text) == IF text \in DOMAIN PortText THEN PortText[text] % PortMod ELSE 0

-----------------------------------------------------------------------------
Init ==
    /\ args \in CommandLine
    /\ pc = "main"
    /\ server_address = "localhost:8080"
    /\ rest = <<>>
    /\ ctx = "none"
    /\ calls = <<>>
    /\ result = 0

GlobalOptions ==
    [o \in {"-s", "--server", "-h", "--help", "-v", "--version"} |->
        CASE o \in {"-s", "--server"} -> Takes("s", TRUE)
          [] o \in {"-h", "--help"} -> Takes("h", FALSE)
          [] OTHER -> Takes("v", FALSE)]

Exit(code) == pc' = "exit" /\ result' = code /\ UNCHANGED <<args, rest, ctx, calls>>

\* main up to the command: no argument, an option that ends it, no command, or
\* the words from the command on.
ParseGlobalOptions ==
    LET g == getopt_long(GlobalOptions, args)
        e == Ends(g.seen, {"h", "v", "?"})
        parsed == IF e = 0 THEN g.seen ELSE SubSeq(g.seen, 1, e)
    IN  /\ pc = "main"
        /\ server_address' = IF args = <<>> THEN server_address
                             ELSE Value(parsed, "s", server_address)
        /\ \/ args = <<>> /\ Exit(1)
           \/ args # <<>> /\ e # 0 /\ Exit(IF g.seen[e].code = "?" THEN 1 ELSE 0)
           \/ args # <<>> /\ e = 0 /\ g.words = <<>> /\ Exit(1)
           \/ /\ args # <<>> /\ e = 0 /\ g.words # <<>>
              /\ rest' = g.words
              /\ pc' = "init"
              /\ UNCHANGED <<args, ctx, calls, result>>

InitContext ==
    /\ pc = "init"
    /\ \/ ctx' = "live" /\ pc' = "command" /\ UNCHANGED result
       \/ pc' = "exit" /\ result' = 1 /\ UNCHANGED ctx
    /\ UNCHANGED <<args, server_address, rest, calls>>

-----------------------------------------------------------------------------
(* The commands *)

Command(name) == pc = "command" /\ Head(rest).name = name

Finish(code) ==
    /\ result' = code
    /\ pc' = "cleanup"
    /\ UNCHANGED <<args, server_address, rest, ctx>>

Return(code) == Finish(code) /\ UNCHANGED calls

\* A call of the core API, and what the command makes of its result
CallApi(call) ==
    \E ok \in BOOLEAN :
        /\ calls' = Append(calls, [call |-> call, ok |-> ok])
        /\ Finish(IF ok THEN 0 ELSE 1)

\* Mutant: the second parser goes on where the first one stopped.
ParseFromOptind(known) == getopt_long(known, Tail(Tail(rest \o <<Separator>>))).seen

\* optind = 0 and a second getopt_long, which skips the name of the command
ParseCommandOptions(known) == getopt_long(known, Tail(rest)).seen

DeviceOptions ==
    [o \in {"-n", "--name", "-s", "--size", "-h", "--help"} |->
        CASE o \in {"-n", "--name"} -> Takes("n", TRUE)
          [] o \in {"-s", "--size"} -> Takes("s", TRUE)
          [] OTHER -> Takes("h", FALSE)]

\* Mutant: help and errors do not end the command.
cmd_create_device_goes_on ==
    LET seen == ParseCommandOptions(DeviceOptions)
        name == Value(seen, "n", None)
        size_str == Value(seen, "s", None)
    IN  /\ Command("create-device")
        /\ \E size \in parse_size_string(size_str) :
             CallApi([fn |-> "create_device", name |-> name, size |-> size])

cmd_create_device ==
    LET seen == ParseCommandOptions(DeviceOptions)
        e == Ends(seen, {"h", "?"})
        name == Value(seen, "n", None)
        size_str == Value(seen, "s", None)
    IN  /\ Command("create-device")
        /\ IF e # 0 THEN Return(IF seen[e].code = "h" THEN 0 ELSE 1)
           ELSE IF name = None \/ size_str = None THEN Return(1)
           ELSE \E size \in parse_size_string(size_str) :
                  IF size = 0 THEN Return(1)
                  ELSE CallApi([fn |-> "create_device", name |-> name, size |-> size])

NameOptions == [o \in {"-n", "--name", "-h", "--help"} |-> DeviceOptions[o]]

cmd_delete_device ==
    LET seen == ParseCommandOptions(NameOptions)
        e == Ends(seen, {"h", "?"})
        name == Value(seen, "n", None)
    IN  /\ Command("delete-device")
        /\ IF e # 0 THEN Return(IF seen[e].code = "h" THEN 0 ELSE 1)
           ELSE IF name = None THEN Return(1)
           ELSE CallApi([fn |-> "delete_device", name |-> name])

NodeOptions ==
    [o \in {"-i", "--id", "-a", "--address", "-p", "--port", "-h", "--help"} |->
        CASE o \in {"-i", "--id"} -> Takes("i", TRUE)
          [] o \in {"-a", "--address"} -> Takes("a", TRUE)
          [] o \in {"-p", "--port"} -> Takes("p", TRUE)
          [] OTHER -> Takes("h", FALSE)]

cmd_add_node ==
    LET seen == ParseCommandOptions(NodeOptions)
        e == Ends(seen, {"h", "?"})
        id == Value(seen, "i", None)
        address == Value(seen, "a", None)
        port == ParsePort(Value(seen, "p", "8080"))
    IN  /\ Command("add-node")
        /\ IF e # 0 THEN Return(IF seen[e].code = "h" THEN 0 ELSE 1)
           ELSE IF id = None \/ address = None THEN Return(1)
           ELSE CallApi([fn |-> "add_node", id |-> id, address |-> address, port |-> port])

\* A table of examples is printed; the API is not asked.
cmd_list_devices == Command("list-devices") /\ Return(0)

cmd_list_nodes == Command("list-nodes") /\ CallApi([fn |-> "get_nodes"])

\* The node list and the device list, whatever the first returns
cmd_status ==
    /\ Command("status")
    /\ \E ok \in BOOLEAN :
         calls' = Append(calls, [call |-> [fn |-> "get_nodes"], ok |-> ok])
    /\ Finish(0)

Commands == {"create-device", "delete-device", "list-devices", "list-nodes", "add-node", "status"}

UnknownCommand ==
    /\ pc = "command" /\ Head(rest).name \notin Commands
    /\ Return(1)

\* Mutant: an error skips the release of the context.
CleanupOnSuccess ==
    /\ pc = "cleanup"
    /\ ctx' = IF result = 0 THEN "freed" ELSE ctx
    /\ pc' = "exit"
    /\ UNCHANGED <<args, server_address, rest, calls, result>>

Cleanup ==
    /\ pc = "cleanup"
    /\ ctx' = "freed"
    /\ pc' = "exit"
    /\ UNCHANGED <<args, server_address, rest, calls, result>>

Terminated == pc = "exit" /\ UNCHANGED vars

Next ==
    \/ ParseGlobalOptions \/ InitContext
    \/ cmd_create_device \/ cmd_delete_device \/ cmd_list_devices \/ cmd_list_nodes
    \/ cmd_add_node \/ cmd_status \/ UnknownCommand
    \/ Cleanup \/ Terminated

Spec == Init /\ [][Next]_vars

-----------------------------------------------------------------------------
(* Properties *)

\* Every variable keeps its type: a process calls the core API at most once, with
\* a size that is not 0 and a port that fits (cli_main.c:40-68, 122-130, 259).
TypeOK ==
    /\ pc \in {"main", "init", "command", "cleanup", "exit"}
    /\ ctx \in {"none", "live", "freed"} /\ result \in {0, 1}
    /\ Len(calls) <= 1
    /\ \A i \in DOMAIN calls :
         LET c == calls[i].call
         IN  /\ c.fn = "create_device" => c.size \in 1..(SizeMod - 1)
             /\ c.fn = "add_node" => c.port \in 0..(PortMod - 1)

\* The last of the options spelled so, as a user reads the command line
LastGiven(options, spellings, default) ==
    LET given == {i \in DOMAIN options : options[i].name \in spellings}
    IN  IF given = {} THEN default ELSE options[Max(given)].value

\* Behind a separator, which keeps main from reading them, the options of every
\* command that takes some do what the command's usage text says of them: with
\* their values attached, in any order, the last one winning, they end in the one
\* call they describe (cli_main.c:86-181, 235-287).
SeparatedFormWorks ==
    LET options == SubSeq(args, 3, Len(args))
        Only(spellings) == \A i \in DOMAIN options :
            options[i].kind = "option" /\ options[i].name \in spellings /\ options[i].value # None
        Given(spellings) == LastGiven(options, spellings, None) # None
        Named(cmd) == pc = "cleanup" /\ Len(args) > 2 /\ args[1] = Separator /\ args[2] = Word(cmd)
        size == LastGiven(options, {"-s", "--size"}, None)
        bytes == (SizeText[size].num * Multiplier[SizeText[size].unit]) \div SizeText[size].den
        port == LastGiven(options, {"-p", "--port"}, "8080")
        Done(call) == \E ok \in BOOLEAN : calls = <<[call |-> call, ok |-> ok]>>
    IN  /\ (/\ Named("create-device") /\ Only({"-n", "--name", "-s", "--size"})
            /\ Given({"-n", "--name"}) /\ size \in DOMAIN SizeText
            /\ SizeText[size].unit \in DOMAIN Multiplier /\ bytes \in 1..(SizeMod - 1))
           => Done([fn |-> "create_device", size |-> bytes,
                    name |-> LastGiven(options, {"-n", "--name"}, None)])
        /\ Named("delete-device") /\ Only({"-n", "--name"}) /\ Given({"-n", "--name"})
           => Done([fn |-> "delete_device", name |-> LastGiven(options, {"-n", "--name"}, None)])
        /\ (/\ Named("add-node") /\ Only(DOMAIN NodeOptions \ {"-h", "--help"})
            /\ Given({"-i", "--id"}) /\ Given({"-a", "--address"})
            /\ port \in DOMAIN PortText /\ PortText[port] \in 0..(PortMod - 1))
           => Done([fn |-> "add_node", port |-> PortText[port],
                    id |-> LastGiven(options, {"-i", "--id"}, None),
                    address |-> LastGiven(options, {"-a", "--address"}, None)])

\* The examples of the help text and of the README, a command followed by its
\* options, reach their command (cli_main.c:28, 30, 108, README.md:70,
\* architecture.md:146).
ExamplesReachCommand ==
    LET Example(cmd, x, y) ==
            /\ Len(args) = 3 /\ args[1] = Word(cmd)
            /\ args[2].kind = "option" /\ args[2].name = x /\ args[2].value # None
            /\ args[3].kind = "option" /\ args[3].name = y /\ args[3].value # None
    IN  /\ pc = "exit"
        /\ Example("create-device", "--name", "--size") \/ Example("add-node", "--id", "--address")
        => rest # <<>> /\ Head(rest) = args[1]

\* Why they do not: main parses the whole line, and a command changes something only
\* if all options on the line that are not main's own stand behind a separator, or
\* are taken for the value of -s (cli_main.c:320-344).
NoOptionSkipped ==
    (calls # <<>> /\ calls[1].call.fn # "get_nodes") =>
        \A j \in DOMAIN args :
            \/ args[j].kind # "option" \/ args[j].name \in DOMAIN GlobalOptions
            \/ \E k \in 1..(j - 1) : args[k] = Separator
            \/ j > 1 /\ args[j - 1].name \in {"-s", "--server"} /\ args[j - 1].value = None

\* A process that ends has released its context, and exit code 0 after a command
\* that changes something means that the API did it, or that help was asked for
\* (cli_main.c:311-389).
ExitSound ==
    pc = "exit" =>
        /\ ctx # "live"
        /\ (result = 0 /\ ctx = "freed" /\ Head(rest).name \in {"create-device", "delete-device", "add-node"})
           => \/ calls # <<>> /\ calls[1].ok
              \/ \E i \in DOMAIN rest : rest[i].name \in {"-h", "--help"}
=============================================================================

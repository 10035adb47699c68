--------------------------------- MODULE MCCli ---------------------------------
(* Instances of Cli for TLC. *)
EXTENDS Cli

\* One spelling of most options; -s is an option of main and of create-device.
CommandOption ==
    {Option("--name", "d1"), Option("-n", None), Option("--size", "3M"), Option("-s", "4T"),
     Option("--size", "9X"), Option("-s", "3/2K"),
     Option("--id", "n2"), Option("--address", "a2"), Option("--port", "9090"),
     Option("-p", "65616"), Option("--help", None), Option("--help", "d1")}

CommandWord == {Word(c) : c \in Commands \cup {"mount"}}

Vocabulary == {Separator, Option("-s", None)} \cup CommandOption \cup CommandWord

\* All short lines, and the lines that give a command up to three options behind
\* a separator or without one.
Lines ==
    UNION {[1..n -> Vocabulary] : n \in 0..4}
    \cup {<<Separator, w>> \o o : w \in CommandWord, o \in [1..3 -> CommandOption]}
    \cup {<<w>> \o o : w \in {Word("create-device"), Word("add-node")}, o \in [1..3 -> CommandOption]}

Sizes ==
    "3M" :> [num |-> 3, den |-> 1, unit |-> "M"]
    @@ "4T" :> [num |-> 4, den |-> 1, unit |-> "T"]
    @@ "9X" :> [num |-> 9, den |-> 1, unit |-> "X"]
    @@ "3/2K" :> [num |-> 3, den |-> 2, unit |-> "K"]

Ports == "8080" :> 8080 @@ "9090" :> 9090 @@ "65616" :> 65616
=============================================================================

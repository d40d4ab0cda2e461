-------------------------- MODULE YCSBCommandLine --------------------------
(***************************************************************************)
(* ParseCommandLine of the YCSB-C driver (bench_tools/YCSB-C/ycsbc.cc):    *)
(* the loop that walks argv, sets a property for every option that takes  *)
(* a value, loads a property file for -P, and exits through UsageMessage   *)
(* on a missing value, an unknown option, no option at all, or a token    *)
(* left over.  An argument is a pair <<lead, body>>: lead is "-" when the  *)
(* C string starts with '-', which is all StrStartWith(argv[i], "-")      *)
(* looks at; strcmp against an option name is equality of the pair.      *)
(* argv here leaves out argv[0], so argindex = i and argc = Len(argv) + 1. *)
(***************************************************************************)
EXTENDS Integers, Sequences, SequencesExt, TLC

CONSTANTS
    FileProps,  \* what props.Load reads from the file an argument names
    Malformed   \* a file whose Load throws: the driver prints it and exits

Opt(name) == <<"-", name>>

\* The options that take a value, and the property each one sets.
ValueOption ==
    [o \in {Opt("threads"), Opt("db"), Opt("host"), Opt("port"),
            Opt("skipLoad"), Opt("phase"), Opt("sleep"), Opt("slaves"),
            Opt("dbfilename"), Opt("configpath")} |->
        CASE o = Opt("threads") -> "threadcount"
          [] o = Opt("db")      -> "dbname"
          [] OTHER              -> o[2]]

StrStartWith(arg) == arg[1] = "-"

\* The outcome of the call: exit(0) after the usage message, or the
\* returned file name together with the properties set.
Exit == [exit |-> TRUE, props |-> <<>>, filename |-> <<>>]

Returned(props, filename) == [exit |-> FALSE, props |-> props, filename |-> filename]

SetProperty(props, key, value) == (key :> value) @@ props

\* props.Load(input): every key of the file is set over what is there.
Load(props, file) == FileProps[file] @@ props

\* A variant of Finish that lets a command line with no option through.
FinishAnyIndex(argv, i, props, filename) ==
    IF i # Len(argv) + 1 THEN Exit ELSE Returned(props, filename)

\* The check after the loop: some option was read and nothing is left over.
Finish(argv, i, props, filename) ==
    IF i = 1 \/ i # Len(argv) + 1 THEN Exit ELSE Returned(props, filename)

\* The loop from argindex = i on, then the check after it.
RECURSIVE ParseFrom(_, _, _, _)
ParseFrom(argv, i, props, filename) ==
    IF i > Len(argv) \/ ~StrStartWith(argv[i])
    THEN Finish(argv, i, props, filename)
    ELSE CASE argv[i] \in DOMAIN ValueOption ->
                IF i + 1 > Len(argv) THEN Exit
                ELSE ParseFrom(argv, i + 2,
                               SetProperty(props, ValueOption[argv[i]], argv[i + 1]),
                               filename)
           [] argv[i] = Opt("help") ->
                ParseFrom(argv, i + 1, props, filename)
           [] argv[i] = Opt("P") ->
                IF i + 1 > Len(argv) \/ argv[i + 1] \in Malformed THEN Exit
                ELSE ParseFrom(argv, i + 2, Load(props, argv[i + 1]), argv[i + 1])
           [] OTHER -> Exit

ParseCommandLine(argv) == ParseFrom(argv, 1, <<>>, <<>>)

----------------------------------------------------------------------------
(***************************************************************************)
(* Reference: what the usage message promises.  A command line is a run  *)
(* of options from the first argument to the last, each followed by its  *)
(* value except -help; the properties are those of the last option or    *)
(* file (files "processed in the order specified") that sets each key.    *)
(***************************************************************************)
Known(arg) == arg \in DOMAIN ValueOption \cup {Opt("help"), Opt("P")}

Width(arg) == IF arg = Opt("help") THEN 1 ELSE 2

\* P is the set of positions that hold options.
IsChain(argv, P) ==
    /\ 1 \in P
    /\ \A p \in P : Known(argv[p]) /\ p + Width(argv[p]) \in P \cup {Len(argv) + 1}
    /\ \A q \in P \ {1} : \E p \in P : q = p + Width(argv[p])

Sets(argv, p, key) ==
    \/ argv[p] \in DOMAIN ValueOption /\ ValueOption[argv[p]] = key
    \/ argv[p] = Opt("P") /\ key \in DOMAIN FileProps[argv[p + 1]]

ValueAt(argv, p, key) ==
    IF argv[p] = Opt("P") THEN FileProps[argv[p + 1]][key] ELSE argv[p + 1]

Keys(argv, P) == {key \in Range(ValueOption) \cup UNION {DOMAIN FileProps[f] : f \in DOMAIN FileProps} :
                     \E p \in P : Sets(argv, p, key)}

LastSetter(argv, P, key) == CHOOSE p \in P : Sets(argv, p, key) /\ \A q \in P : Sets(argv, q, key) => q <= p

ReferenceParse(argv) ==
    IF \E P \in SUBSET (1..Len(argv)) :
          IsChain(argv, P) /\ \A p \in P : argv[p] = Opt("P") => argv[p + 1] \notin Malformed
    THEN LET P == CHOOSE P \in SUBSET (1..Len(argv)) : IsChain(argv, P)
             Files == {p \in P : argv[p] = Opt("P")}
         IN Returned([key \in Keys(argv, P) |-> ValueAt(argv, LastSetter(argv, P, key), key)],
                     IF Files = {} THEN <<>>
                     ELSE argv[1 + CHOOSE p \in Files : \A q \in Files : q <= p])
    ELSE Exit

====

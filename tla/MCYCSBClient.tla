---------------------------- MODULE MCYCSBClient ----------------------------
\* Two client threads; the load phase inserts two records, one per thread,
\* and the run phase does two transactions per thread, reads, updates and
\* read-modify-writes with equal proportions.  Before main reaches its first
\* step it has parsed its command line: the argument vectors checked are all
\* of up to four arguments drawn from a value-taking option, -P, -help, an
\* unknown option, plain values, a value that starts with '-', a property
\* file and a malformed property file.
EXTENDS YCSBClient, YCSBCommandLine

MCProportion == [op \in Operations |->
                   IF op \in {"READ", "UPDATE", "READMODIFYWRITE"} THEN 1 ELSE 0]

Arguments == {Opt("threads"), Opt("P"), Opt("help"), Opt("x"), Opt("1"),
              <<"", "4">>, <<"", "f">>, <<"", "g">>}

MCFileProps == [a \in Arguments |->
                  IF a = <<"", "f">>
                  THEN ("threadcount" :> <<"", "8">>) @@ ("phase" :> <<"", "run">>)
                  ELSE <<>>]

MCMalformed == {<<"", "g">>}

\* ParseCommandLine (ycsbc.cc), run by main before anything else: it exits
\* exactly when the arguments are not a run of known options, each with its
\* value (-help without one), from the first argument to the last, or a -P
\* file fails to load; otherwise every property holds the value of the last
\* option or -P file that set it, and the returned file name is the last -P.
ParseMatchesReference ==
    mpc = "start" =>
        \A argv \in BoundedSeq(Arguments, 4) : ParseCommandLine(argv) = ReferenceParse(argv)
=============================================================================

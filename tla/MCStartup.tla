----------------------------- MODULE MCStartup -----------------------------
(* A small system for TLC: files and command lines that are right and      *)
(* wrong in different ways.                                                *)
EXTENDS Startup

Rest ==
    << <<"host", "127.0.0.1">>, <<"transport", "tcp">>, <<"tpm_interval_in_ms", "60000">>,
       <<"tsc_check_interval_in_ms", "60000">>, <<"tsc_check_deviation_threshold", "0.001">> >>

Port  == <<"port", "7872">>
Limit == <<"max_connections", "100">>

MCFiles ==
    [default     |-> << <<"#", "comment">>, <<>>, Port, Limit >> \o Rest,
     corrected   |-> << <<"max_connections", "many">>, Port, Limit >> \o Rest,
     spoiled     |-> << Port, Limit >> \o Rest \o << <<"max_connections", "many">> >>,
     moreWords   |-> << Port, <<"max_connections", "100", "many">> >> \o Rest,
     noPort      |-> << Limit >> \o Rest,
     noValue     |-> << <<"port">>, Limit >> \o Rest,
     commentedOut |-> << <<"#port", "7872">>, Limit >> \o Rest,
     stays       |-> << Port, Limit, <<"port">>, <<"#port", "none">> >> \o Rest,
     tooBig      |-> << Port, <<"max_connections", "2147483648">> >> \o Rest]

MCArgVectors ==
    {<<>>, <<"-c">>, <<"-h">>, <<"-c", "nowhere">>, <<"-c", "noPort", "-c", "default">>,
     <<"-c", "default", "-c", "noPort">>, <<"-c", "default", "-c">>, <<"-c", "default", "-v">>}
        \cup {<<"-c", name>> : name \in DOMAIN MCFiles}

MCIntWords    == {"100", "7872", "60000"}
MCLongWords   == MCIntWords \cup {"2147483648"}
MCDoubleWords == MCLongWords \cup {"0.001"}
============================================================================

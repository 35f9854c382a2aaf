------------------------------ MODULE MCJournal ------------------------------
(* Journal on short scripts: a verb of every family and an unknown one, each *)
(* well formed; a wrong number of arguments and an argument that is no       *)
(* number for some.                                                          *)
EXTENDS Journal

CommandLine(verb, argc, parses) ==
    [is |-> "command", verb |-> verb, argc |-> argc, parses |-> parses]

ShortLines ==
    {[is |-> "blank"], [is |-> "invalid"],
     CommandLine("KEYAUDIT", 1, TRUE), CommandLine("WATCHREVIEW", 1, TRUE),
     CommandLine("LINKS", 0, TRUE), CommandLine("SCHEMA", 4, TRUE),
     CommandLine("PALETTE", 1, FALSE), CommandLine("SIGN", 0, TRUE),
     CommandLine("HELLO", 0, TRUE)}
=============================================================================

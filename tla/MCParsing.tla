------------------------------- MODULE MCParsing -------------------------------
(* Small texts for TLC. *)
EXTENDS Parsing

MCSizes == [Expression |-> 3, Type |-> 3, Statement |-> 3, Declaration |-> 2]

MCConditional == [Expression |-> 1]

Place(rule, before) == [rule |-> rule, before |-> before]

MCPlaces ==
  {Place("Program", before) :
     before \in {<<>>, <<"class", "T", "{">>, <<"struct", "T", "{">>, <<"interface", "T", "{">>,
                 <<"extension", "T", "{">>, <<"namespace", "T", "{">>, <<"enum", "T", "{">>,
                 <<"attribute", "T", "{">>, <<"extern", "'s'", "{">>, <<"func", "x", "(">>,
                 <<"const">>, <<"func", "x", "(", ")", "->", "int", "{">>}} \cup
  {Place("Statement", before) :
     before \in {<<>>, <<"for", "(">>, <<"match", "(", "x", ")", "{">>, <<"try", "{", "}">>}} \cup
  {Place("Expression", before) : before \in {<<>>, <<"[">>, <<"x", "<">>, <<"x", "(">>}}

MCAlphabet ==
  {"x", "1", "int", "func", "__line__", "(", ")", "{", "}", "[", "]", "<", ">", ";", ",",
   "=", "=>", "&", ":", "public"}

MCCharacters ==
  <<[of |-> {"1", ".", "e", "+", "f"}, most |-> 5],
    [of |-> {"<", ">", "=", ".", "-", "&"}, most |-> 4],
    [of |-> {"/", "*", "'", "\"", "\\", "e", " ", "\n"}, most |-> 4],
    [of |-> {"_", "i", "f", "1"}, most |-> 4]>>
=============================================================================

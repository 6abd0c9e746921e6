------------------------------ MODULE MCRagSystems ------------------------------
(***************************************************************************)
(* A small encyclopedia: five paragraphs about a film, its director,       *)
(* another person, a town and a generic name, and the kinds of questions   *)
(* that the rules of question analysis tell apart.                         *)
(***************************************************************************)
EXTENDS RagSystems

\* Names in alphabetical order.
AriaStone == 1
Brook == 2
ClaraVoss == 3
Dune == 4
Member == 5
Person == 6
Zora == 7      \* in no paragraph
Zulu == 8      \* in no paragraph

S(names, relations, types, pronoun, states) ==
  [names |-> names, literal |-> {}, relations |-> relations, types |-> types,
   pronoun |-> pronoun, states_title |-> states, tokens |-> relations, length |-> "normal"]

MCParagraph ==
  << [title |-> Dune,
      sentences |-> <<S({AriaStone, Dune}, {"directed"}, {"PERSON"}, "none", TRUE),
                      S({}, {"released"}, {"DATE"}, "neutral", FALSE)>>],
     [title |-> AriaStone,
      sentences |-> <<S({AriaStone, Brook}, {"born"}, {"LOCATION"}, "none", TRUE),
                      [S({Dune, Member}, {"starring"}, {"PERSON"}, "person", FALSE)
                         EXCEPT !.literal = {ClaraVoss}, !.length = "long"]>>],
     [title |-> ClaraVoss,
      sentences |-> <<S({Member, Brook, ClaraVoss}, {"born"}, {"LOCATION"}, "none", FALSE),
                      S({}, {}, {}, "person", FALSE),
                      S({AriaStone, ClaraVoss}, {"directed"}, {"PERSON"}, "none", FALSE)>>],
     [title |-> Brook,
      sentences |-> <<S({Brook}, {"capital"}, {"NUMBER", "LOCATION"}, "none", TRUE),
                      [S({Member, Person}, {}, {"PERSON"}, "neutral", FALSE)
                         EXCEPT !.length = "short"]>>],
     [title |-> Member,
      sentences |-> <<S({AriaStone, Member, Person}, {"directed"}, {"PERSON", "ORGANIZATION"}, "none", FALSE)>>] >>

MCTypeWord == [e \in {Person} |-> "PERSON"]
MCSurfaceTypes ==
  [e \in 1..8 |-> IF e \in {AriaStone, ClaraVoss} THEN {"PERSON", "TITLE_OR_WORK", "LOCATION"}
                  ELSE IF e = Brook THEN {"LOCATION", "ORGANIZATION"}
                  ELSE {"TITLE_OR_WORK"}]
MCRelationWord == [e \in 1..8 |-> IF e = Member THEN "member" ELSE "none"]
MCWeight == [b \in Branches |-> IF b = "bm25" THEN 3 ELSE 7]
MCEqualWeight == [b \in Branches |-> 1]
-----------------------------------------------------------------------------
Text(tokens, names, anchors, multi) ==
  [tokens |-> tokens, names |-> names, anchors |-> anchors, multi_fact |-> multi]

Question(asked, compares, structure, seeds, hints, text) ==
  [asked |-> asked, compares |-> compares, structure |-> structure, seeds |-> seeds,
   hints |-> hints, text |-> text]

Plain(asked, seeds, hints) ==
  Question(asked, <<>>, "plain", seeds, hints, Text(ToSet(hints), ToSet(seeds), {}, FALSE))

Questions ==
  { \* Where was the director of Dune born?
    Question("LOCATION", <<>>, "role_of", <<Dune>>, <<"born", "directed">>,
             Text({"born", "directed"}, {Dune}, {}, FALSE)),
    \* Bridges of one relation, over a relative clause, and without a seed.
    Question("PERSON", <<>>, "relative", <<Brook>>, <<"directed">>,
             Text({}, {Brook}, {}, FALSE)),
    Question("PERSON", <<>>, "role_of", <<Zora>>, <<"directed", "born">>,
             Text({"directed"}, {Zora}, {}, FALSE)),
    Question("LOCATION", <<>>, "relative", <<>>, <<"born">>, Text({}, {}, {}, FALSE)),
    Question("PERSON", <<>>, "relative", <<Brook>>, <<"capital", "founded">>,
             Text({"capital"}, {Brook}, {Dune}, FALSE)),
    Question("UNKNOWN", <<>>, "relative", <<ClaraVoss>>, <<"directed">>,
             Text({"capital"}, {Brook}, {}, FALSE)),
    \* Factoids.
    Plain("PERSON", <<Dune>>, <<"directed">>),
    Plain("ENTITY", <<Dune>>, <<>>),
    Plain("LOCATION", <<ClaraVoss, Dune>>, <<"born">>),
    Plain("DATE", <<Dune>>, <<"released">>),
    Plain("UNKNOWN", <<>>, <<>>),
    Question("PERSON", <<>>, "role_of", <<AriaStone>>, <<"directed">>,
             Text({}, {Dune, AriaStone}, {Dune}, TRUE)),
    Question("PERSON", <<>>, "role_of", <<Dune>>, <<"directed">>,
             Text({"directed"}, {Dune}, {}, TRUE)),
    Plain("LOCATION", <<AriaStone>>, <<"located">>),
    Plain("PERSON", <<Dune>>, <<"directed", "starring">>),
    Plain("ENTITY", <<AriaStone>>, <<>>),
    Plain("UNKNOWN", <<AriaStone>>, <<"starring">>),
    \* Comparisons.
    Question("BOOLEAN", <<AriaStone, ClaraVoss>>, "plain", <<AriaStone, ClaraVoss>>, <<"born">>,
             Text({"born"}, {AriaStone, ClaraVoss}, {}, FALSE)),
    Question("PERSON", <<Zora, Zulu>>, "plain", <<Dune>>, <<>>, Text({}, {Dune}, {}, FALSE)),
    \* Yes or no.
    Plain("BOOLEAN", <<AriaStone, Dune>>, <<"directed">>),
    Plain("BOOLEAN", <<ClaraVoss, Brook>>, <<"capital", "located">>),
    Plain("BOOLEAN", <<Brook, Member>>, <<"capital">>),
    Plain("BOOLEAN", <<Brook>>, <<"capital">>),
    Plain("BOOLEAN", <<>>, <<"born">>) }

Run(system, question, order) == [system |-> system, question |-> question, id_order |-> order]

MCRuns ==
  {Run("epsa", q, order) : q \in Questions, order \in {"up", "down"}}
    \cup {Run(s, Plain("PERSON", <<Dune>>, <<"directed">>), "up") : s \in {"fixed", "adaptive"}}

MCLexical == {<<3, 2, 0, 1, 0>>, <<0, 3, 2, 2, 1>>, <<1, 0, 3, 0, 2>>, <<0, 0, 0, 0, 3>>}
MCDense == {<<5, 4, 3, 2, 1>>, <<1, 2, 5, 4, 3>>, <<2, 2, 1, 5, 5>>, <<4, 1, 5, 3, 2>>}

Output(sufficient, reason, missing, cites, query) ==
  [sufficient |-> sufficient, reason |-> reason, missing |-> missing, cites |-> cites,
   query |-> query]

MCControlOutputs ==
  {Output(TRUE, "sufficient", FALSE, <<1, 2>>, FALSE),
   Output(TRUE, "sufficient", FALSE, <<>>, TRUE),
   Output(FALSE, "missing_evidence", TRUE, <<1>>, TRUE),
   Output(FALSE, "missing_evidence", TRUE, <<2, 1>>, TRUE),
   Output(FALSE, "missing_evidence", TRUE, <<>>, FALSE),
   Output(FALSE, "insufficient_no_grounded_query", TRUE, <<>>, FALSE),
   Output(FALSE, "missing_evidence", FALSE, <<3>>, TRUE),
   Output(FALSE, "missing_evidence", TRUE, <<3>>, TRUE)}
=============================================================================

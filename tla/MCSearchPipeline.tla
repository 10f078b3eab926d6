--------------------------- MODULE MCSearchPipeline --------------------------
(* A small archive: d1 is the bill of one correspondent, in two chunks; d2 is *)
(* a dated letter; d3 has no date and no correspondent.                       *)
EXTENDS SearchPipeline, TLC

MCCorpus ==
  [d1 |-> [who |-> 1, kind |-> 1, tags |-> {1}, day |-> 5],
   d2 |-> [who |-> 2, kind |-> None, tags |-> {}, day |-> 12],
   d3 |-> [who |-> None, kind |-> None, tags |-> {1}, day |-> None]]
MCOwner == [c1 |-> "d1", c2 |-> "d1", c3 |-> "d2", c4 |-> "d3"]

MCPeople == << [id |-> 1, name |-> "npower"], [id |-> 2, name |-> "gas board"] >>
MCKinds == << [id |-> 1, name |-> "bill"] >>
MCTags == << [id |-> 1, name |-> "home"], [id |-> 2, name |-> "deed of home"], [id |-> 3, name |-> "home deed"] >>

\* "NPower." is npower up to case, "board gas" has the words of "gas board",
\* "deed home" those of two tags, and nobody is called "edf".
MCNorm ==
  [x \in {"npower", "NPower."} |-> "npower"]
    @@ [x \in {"gas board", "board gas", "bill", "home", "deed of home", "home deed", "deed home", "edf"} |-> x]
MCWords ==
  [x \in {"npower", "NPower."} |-> {"npower"}] @@ [x \in {"gas board", "board gas"} |-> {"gas", "board"}]
    @@ [x \in {"deed of home", "home deed", "deed home"} |-> {"home", "deed"}]
    @@ [x \in {"bill", "home", "edf"} |-> {x}]

MCTexts == {"q", "bills in april", "q2", "2025-04-05", "2025-13-01", "april", "hi", "gas"}
MCIsoDay == [x \in MCTexts |-> IF x = "2025-04-05" THEN 5 ELSE None]
MCDateRange ==
  [x \in MCTexts |-> IF x \in {"april", "bills in april"} THEN <<1, 10>>
                   ELSE IF x = "2025-04-05" THEN <<5, 5>> ELSE <<None, None>>]
MCNearest ==
  [x \in MCTexts |-> IF x = "q2" THEN <<"c3", "c4", "c1", "c2">> ELSE <<"c1", "c3", "c2", "c4">>]
MCSimilar == [x \in MCTexts |-> IF x = "q2" THEN {} ELSE {"c1", "c3"}]
MCLexicon == [gas |-> {"c1", "c3"}, flue |-> {"c2"}, edf |-> {}]
MCBm25 == <<"c3", "c2", "c1", "c4">>

MCSetups ==
  {[refinements |-> r, judge |-> j, gate |-> TRUE, adequacy |-> r = 1, skip |-> r = 1]
     : r \in {0, 1}, j \in BOOLEAN}
  \union {[refinements |-> 2, judge |-> FALSE, gate |-> FALSE, adequacy |-> TRUE, skip |-> FALSE]}

UiNpower == [NoFilters EXCEPT !.who = 1, !.from = 4]
MCRequests ==
  {[tool |-> "answer", query |-> "q", ui |-> None, words |-> {}],
   [tool |-> "answer", query |-> "bills in april", ui |-> UiNpower, words |-> {}],
   [tool |-> "answer", query |-> "bills in april", ui |-> None, words |-> {}],
   [tool |-> "answer", query |-> "hi", ui |-> None, words |-> {}],
   [tool |-> "answer", query |-> "gas", ui |-> None, words |-> {}],
   [tool |-> "retrieve", query |-> "q2", ui |-> UiNpower, words |-> {"flue"}],
   [tool |-> "retrieve", query |-> "gas", ui |-> None, words |-> {"gas"}]}

Spec1(text, guess) == Semantic(text) @@ [guess |-> guess]
Spec2(words, guess) == [mode |-> "keyword", text |-> None, words |-> words, guess |-> guess]
Guess(who, tags, from, to) ==
  [NoGuess EXCEPT !.who = who, !.tags = tags, !.from = from, !.to = to]

MCReplies ==
  {<<>>,
   << Spec1("q2", NoGuess) >>,
   << Spec1("q", [Guess("NPower.", <<"deed home">>, "april", None) EXCEPT !.kind = "bill"]),
      Spec2({"flue"}, NoGuess) >>,
   << Spec2({"gas"}, Guess("board gas", <<"home">>, None, None)),
      Spec2({"flue"}, Guess("board gas", <<"edf">>, "2025-13-01", "2025-04-05")),
      Spec2({"edf"}, NoGuess), Spec2({"gas"}, NoGuess) >>}
=============================================================================

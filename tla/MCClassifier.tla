---------------------------- MODULE MCClassifier ----------------------------
(* The classifier checked on two documents.                                  *)
EXTENDS Classifier, TLC

CONSTANTS a, b

MCSimple(n) ==
  CASE n = "Bills" -> "bills" [] n = "Revolut" -> "revolut" [] n = "Revolut Ltd" -> "revolut ltd"
    [] n = "Revolut Bank" -> "revolut bank" [] n = "Invoice" -> "invoice"
    [] n = "Document" -> "document" [] n = "AS" -> "as" [] n = "AI" -> "ai" [] OTHER -> n
MCOrg(n) ==
  CASE n \in {"Revolut", "Revolut Ltd", "revolut ltd"} -> "revolut"
    [] n \in {"AS", "as"} -> "" [] OTHER -> MCSimple(n)
MCPart(x, y) == <<x, y>> = <<"revolut", "revolut bank">>

MCNames == {"Bills", "bills", "Revolut", "revolut", "Revolut Ltd", "revolut ltd", "Revolut Bank",
            "revolut bank", "Invoice", "invoice", "Document", "document", "AS", "as", "AI", "ai",
            "scan", "x", "gpt", "mini", "2024", "gb"}

Says(tags, correspondent, type, person) ==
  [tags |-> tags, correspondent |-> correspondent, type |-> type, person |-> person, other |-> FALSE]
Text(reply, footers) ==
  [content |-> "text", reply |-> reply, footers |-> footers, year |-> "2024", fields |-> {}]
Nothing == Says(<<>>, "", "", "")
TitleOnly == [Nothing EXCEPT !.other = TRUE]

Two(x, y) == (a :> x) @@ (b :> y)
Run(docs, its, limit, n, models, net, deletes) ==
  [docs |-> docs, items |-> its, limit |-> limit, country |-> <<>>, born |-> 1,
   polls |-> n, llm |-> models, net |-> net, deletes |-> deletes, edits |-> Two("none", "none")]

MCCases == {
  \* Two spellings of one new correspondent, one new tag.
  Run(Two(Text(Says(<<"Bills">>, "Revolut", "Invoice", ""), <<>>),
          Text(Says(<<"bills">>, "Revolut Ltd", "Invoice", ""), <<>>)),
      <<[kind |-> "tag", name |-> "2024"], [kind |-> "type", name |-> "Invoice"]>>, 1, 2, 0, 1, 0),
  \* A name that is a part of two others, and one that is a company suffix only.
  Run(Two(Text(Says(<<>>, "Revolut Bank", "Invoice", ""), <<>>),
          Text(Says(<<>>, "AS", "invoice", ""), <<>>)),
      <<[kind |-> "correspondent", name |-> "Revolut"], [kind |-> "tag", name |-> "2024"],
        [kind |-> "correspondent", name |-> "Revolut Ltd"]>>, 1, 3, 1, 2, 0),
  \* Required tags, the limit, filters, a user at the document's fields and the taxonomy.
  [Run(Two([Text(Says(<<"scan", "AI", "Bills", "revolut", "x">>, "Revolut", "Invoice", "ann"), <<"gpt", "mini">>)
              EXCEPT !.fields = {"f"}],
           Text(Nothing, <<>>)),
       <<[kind |-> "tag", name |-> "scan"], [kind |-> "tag", name |-> "bills"],
         [kind |-> "tag", name |-> "2024"], [kind |-> "tag", name |-> "gb"],
         [kind |-> "correspondent", name |-> "Revolut"], [kind |-> "type", name |-> "Invoice"]>>,
       1, 2, 0, 1, 1)
     EXCEPT !.country = <<"gb">>, !.edits = Two("g", "none")],
  \* Documents that cannot be classified.
  Run(Two([Text(Nothing, <<>>) EXCEPT !.content = "blank"], Text(Says(<<"Bills">>, "", "Document", ""), <<>>)),
      <<[kind |-> "tag", name |-> "2024"]>>, 1, 1, 1, 0, 0),
  Run(Two([Text(Nothing, <<>>) EXCEPT !.content = "refusal"], Text(Says(<<"Bills">>, "", "Invoice", ""), <<>>)),
      <<[kind |-> "tag", name |-> "2024"]>>, 0, 2, 1, 1, 0),
  \* Replies with nothing, and with nothing but a title.
  Run(Two(Text(Nothing, <<>>), Text(TitleOnly, <<>>)),
      <<[kind |-> "tag", name |-> "2024"]>>, 1, 2, 0, 0, 0) }
=============================================================================

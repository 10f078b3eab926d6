---------------------------- MODULE MCChatModels ----------------------------
(* The chat layer checked on two callers: one setup per kind of process.     *)
EXTENDS ChatModels

CONSTANTS small, large, u, v

Config1(limit) == [limit |-> limit, connected |-> TRUE]
Cleared == [limit |-> 1, connected |-> FALSE]
Rejecting(s, l) == [x \in {small, large} |-> IF x = small THEN s ELSE l]
Deployment(step, flex, rejects, configs, perCaller, failures, losses) ==
  [step |-> step, flex |-> flex, rejects |-> rejects, configs |-> configs,
   calls |-> perCaller, faults |-> failures, dips |-> losses,
   chain |-> <<small, large, small>>, asked |-> {"temperature", "service_tier"}]

MCSetups == {
  \* The classifier on the flex tier, one call at a time, learning what a model rejects.
  Deployment("classify", TRUE, Rejecting({"temperature"}, {"temperature"}), <<Config1(1)>>, 2, 0, 0),
  \* The same with capacity coming and going, and a failure.
  Deployment("classify", TRUE, Rejecting({"temperature"}, {}), <<Config1(1)>>, 1, 1, 1),
  \* OCR without a limit, on a model that does not know the tier; a reload between pages.
  Deployment("ocr", TRUE, Rejecting({"service_tier"}, {}), <<Config1(0), Config1(1)>>, 1, 0, 2),
  \* Searches while the limit is raised and the clients are replaced.
  Deployment("search", FALSE, Rejecting({"temperature"}, {}), <<Config1(1), Config1(2)>>, 1, 1, 0),
  \* Searches while the connection they use is removed.
  Deployment("search", FALSE, Rejecting({}, {}), <<Config1(1), Cleared>>, 1, 1, 0) }
=============================================================================

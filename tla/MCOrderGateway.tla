--------------------------- MODULE MCOrderGateway ---------------------------
(* OrderGateway for TLC: the scenarios of the runs. *)
EXTENDS OrderGateway

PlaceAt(cid, q, price) == [op |-> "place", cid |-> cid, req |-> "", quantity |-> q, price |-> price]
Place(cid, q) == PlaceAt(cid, q, 3)
Cancel(cid, req) == [op |-> "cancel", cid |-> cid, req |-> req, quantity |-> 0, price |-> None]
Amend(cid, req, q) == [op |-> "amend", cid |-> cid, req |-> req, quantity |-> q, price |-> None]

Unbounded == [min |-> None, max |-> None, step |-> None]
Rules ==
    [trading |-> TRUE, quantity |-> Unbounded, marketQuantity |-> Unbounded, price |-> Unbounded,
     notional |-> [Unbounded EXCEPT !.min = 1], marketNotional |-> Unbounded]

\* One order, one thread, a reliable connection and journal: each scenario says how it differs.
Plain ==
    [kind |-> "Okx", commands |-> {Place("c1", 2), Cancel("c1", "r1")}, sells |-> {},
     limits |-> [maxOrderSize |-> 4, maxNotional |-> 4, position |-> 2, reference |-> None],
     markets |-> {[book |-> TRUE, quote |-> None]}, rules |-> {Rules}, balances |-> {None, 9},
     threads |-> {"t1"}, exids |-> {"x1"}, laneCapacity |-> 2,
     reconciling |-> FALSE, faults |-> {"uncertain"}, maxStamp |-> 3,
     maxCalls |-> 2, maxDisconnects |-> 0, maxCrashes |-> 0]

\* Two threads cancel and amend one OKX order; the venue refuses.
Racing ==
    [Plain EXCEPT !.commands = {Place("c1", 2), Cancel("c1", "r1"), Amend("c1", "r2", 3),
                                Amend("c1", "r3", 4)},
                  !.threads = {"t1", "t2"}, !.limits.position = 3, !.laneCapacity = 3,
                  !.faults = {"uncertain", "reject"}, !.maxCalls = 3]
\* The same with one thread and a stream that breaks once.
Dropping ==
    [Racing EXCEPT !.threads = {"t1"}, !.faults = {"uncertain"}, !.maxDisconnects = 1]
\* A Binance order is replaced.
Replacing ==
    [Plain EXCEPT !.kind = "Binance", !.commands = {Place("c1", 2), Amend("c1", "r2", 3)},
                  !.threads = {"t1", "t2"}, !.exids = {"x1", "x2"}, !.limits.position = 3,
                  !.laneCapacity = 3, !.faults = {"uncertain", "reject"}, !.maxStamp = 5]
\* Two orders compete for the limit; appends fail and the process crashes.
Crashing ==
    [Plain EXCEPT !.commands = {Place("c1", 2), Cancel("c1", "r1"), Place("c2", 2)},
                  !.exids = {"x1", "x2"}, !.limits.position = 3,
                  !.faults = {"uncertain", "journal"}, !.maxStamp = 2, !.maxCalls = 3,
                  !.maxCrashes = 1]
\* Passes of the reconciliation worker run beside the commands, and queries fail.
Reconciled ==
    [Plain EXCEPT !.sells = {"c1"}, !.reconciling = TRUE, !.faults = {"uncertain", "query"}]
\* One fill, and a stream that may lose it.
Filling ==
    [Plain EXCEPT !.commands = {Place("c1", 1)}, !.limits.position = 1, !.reconciling = TRUE,
                  !.maxStamp = 2, !.maxCalls = 1, !.maxDisconnects = 1]

\* Orders of all sizes and prices are placed and amended; quotes, rules and balance vary.
Refusing ==
    [Plain EXCEPT !.commands = {PlaceAt("c1", q, price) : q \in {2, 3, 4}, price \in {None, 3}}
                                  \cup {PlaceAt("c1", 0, 3), PlaceAt("c1", 2, 0), PlaceAt("c1", 4, 7),
                                        PlaceAt("c2", 4, 1), Amend("c1", "r1", 4)},
                  !.sells = {"c2"}, !.exids = {"x1", "x2"},
                  !.limits = [maxOrderSize |-> 4, maxNotional |-> 5, position |-> 4, reference |-> 2],
                  !.markets = {[book |-> FALSE, quote |-> None], [book |-> TRUE, quote |-> None],
                               [book |-> TRUE, quote |-> 2]},
                  !.rules = {None, [Rules EXCEPT !.trading = FALSE],
                             [Rules EXCEPT !.quantity = [min |-> 1, max |-> 4, step |-> 2],
                                           !.price = [min |-> 1, max |-> 7, step |-> None],
                                           !.notional.min = 2]},
                  !.balances = {None, 3, 9}, !.faults = {}, !.maxStamp = 0]

SafetyScenarios == {Racing, Dropping, Replacing, Crashing, Reconciled, Refusing}
FillScenario == {Filling}
PlainScenario == {[Plain EXCEPT !.laneCapacity = 3]}
=============================================================================

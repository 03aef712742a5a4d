---------------------------- MODULE MCAlgorithms ----------------------------
EXTENDS Algorithms

MCLines ==
    {Assign("k1", <<Quote, Plain, Quote>>),
     Assign("k1", <<Quote, Slash, Quote, Hash, Quote, Hash, Plain>>),
     Assign("k1", <<Tick, Hash, Slash, Tick>>),
     Assign("k1", <<Tick, Slash, Tick, Hash, Plain>>),
     Assign("k1", <<Plain, Hash, Plain>>),
     Assign("k2", <<Plain>>),
     Line("k2", <<>>, "basic", 2, "none"),
     Fence("k2", "basic"), Fence("k1", "basic"), Fence(NoKey, "basic"), Fence(NoKey, "literal"),
     Header("section"), Header("noted"), Header("array"),
     Blank, Comment}

MCEdits == {[k \in {"k1"} |-> <<Quote, Slash, Hash>>], [k \in {"k1"} |-> <<>>],
            [k \in {"k1", "k2"} |-> <<Tick, Plain>>], [k \in {} |-> <<>>]}

MCItems ==
    {[type |-> "url", sev |-> "high"], [type |-> "path", sev |-> "medium"],
     [type |-> "key", sev |-> "absent"], [type |-> "absent", sev |-> "critical"],
     [type |-> "scalar", sev |-> "high"]}

=============================================================================

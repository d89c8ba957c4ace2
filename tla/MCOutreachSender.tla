-------------------------- MODULE MCOutreachSender --------------------------
EXTENDS OutreachSender, TLC
CONSTANTS w1, w2, c1, c2, i1, i2
MCWorkers == {w1, w2}
MCOneWorker == {w1}
MCOneCompany == {c1}
MCTwoCompanies == {c1, c2}
MCIds == {i1, i2}
MCOneId == {i1}
MCReplies == {"INTERESTED", "UNSUBSCRIBE", "DELIVERY_FAILURE"}
Symmetric == Permutations(MCWorkers) \cup Permutations(MCIds)
=============================================================================

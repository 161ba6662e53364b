---------------------------- MODULE MCBackOffice ----------------------------
(* Instances of BackOffice: each behaviour runs one of the workloads.      *)
EXTENDS BackOffice

MCRank == [m \in {"peer1", "peer2", "branch"} |-> IF m = "branch" THEN 2 ELSE 1]

Do(op, n, by, on, email, val, yes) ==
  [op |-> op, n |-> n, by |-> by, on |-> on, email |-> email, val |-> val, yes |-> yes]
Save(n, on, val)     == Do("save", n, "", on, "new", val, TRUE)
Submit(n, on)        == Do("submit", n, "", on, "", 0, TRUE)
Approve(by, n)       == Do("decide", n, by, 0, "", 0, TRUE)
Reject(by)           == Do("decide", 1, by, 0, "", 0, FALSE)
AskMore(by)          == Do("decide", 1, by, 0, "", 1, TRUE)
Limit(by, val)       == Do("limit", 1, by, 1, "", val, TRUE)
Block(by, email)     == Do("block", 1, by, 0, email, 0, TRUE)

\* One applicant in two tabs, and the managers who decide.
OneApplicant == {Save(1, 1, 1), Save(2, 1, 2), Submit(1, 1), Submit(2, 1),
                 Approve("peer1", 1), Approve("branch", 1)}
\* Two applications of one email, a manager who registers the customer too.
TwoApplications == {Save(1, 1, 1), Save(2, 2, 1), Submit(1, 1), Submit(2, 2),
                    Approve("peer1", 1), AskMore("branch"),
                    Do("customer", 1, "peer2", 0, "new", 0, TRUE)}
Openings == {Do("open", 1, "peer1", 0, "old", 2, TRUE), Do("open", 2, "branch", 0, "old", 2, TRUE),
             Approve("peer1", 1), Approve("peer2", 1), Reject("branch")}
Limits == {Limit("peer1", 2), Limit("peer2", 1), Limit("branch", 2), Approve("branch", 1),
           Approve("peer1", 1), Do("ask", 1, "peer2", 1, "", 1, TRUE), Reject("branch"),
           Do("close", 1, "peer1", 1, "", 0, TRUE)}
Restrictions == {Do("restrict", 1, "peer1", 1, "", 1, TRUE), Do("restrict", 2, "peer2", 1, "", 1, TRUE),
                 Do("restrict", 1, "peer1", 1, "", 2, TRUE), Do("lift", 1, "peer1", 0, "", 0, TRUE),
                 Do("lift", 2, "peer2", 0, "", 0, TRUE), Do("close", 1, "peer1", 1, "", 0, TRUE)}
CardRequests == {Do("card", 1, "", 1, "", 0, TRUE), Do("card", 2, "", 1, "", 0, TRUE),
                 Do("issue", 1, "peer1", 0, "", 0, TRUE), Do("issue", 2, "peer2", 0, "", 0, TRUE),
                 Do("issue", 1, "branch", 0, "", 0, FALSE), Do("close", 1, "peer1", 1, "", 0, TRUE)}
Blocks == {Block("root", "ada"), Block("ada", "root"), Do("unblock", 1, "root", 0, "ada", 0, TRUE),
           Do("unblock", 1, "ada", 0, "root", 0, TRUE)}

MCWorkloads == {OneApplicant, TwoApplications, Openings, Limits, Restrictions, CardRequests, Blocks}
=============================================================================

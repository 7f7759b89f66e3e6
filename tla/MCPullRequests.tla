-------------------------- MODULE MCPullRequests --------------------------
(* A guarded main and a free feat, one commit ahead.                        *)
EXTENDS PullRequests, TLC

CONSTANTS main, feat, h1, h2, h3

MCRules == {[branches |-> {main}, requirePR |-> FALSE, approvals |-> 1, blockForce |-> TRUE]}
MCFirstHist == <<{1}, {1, 2}, {1, 3}>>
MCFirstHeads == {main :> 1 @@ feat :> 2, main :> 2 @@ feat :> 3}
MCFirstPulls == << <<feat, main>> >>
MCServes == h1 :> {"patch", "pull", "delete"} @@ h2 :> {"create", "pull", "resolve", "merge"}
            @@ h3 :> {"push", "create"}
===========================================================================

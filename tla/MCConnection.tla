----------------------------- MODULE MCConnection -----------------------------
EXTENDS Connection

Policy4(min, max, attempts, jitter) ==
  [min |-> min, max |-> max, attempts |-> attempts, jitter |-> jitter]

MCDefault == Policy4(1, 4, 4, TRUE)

\* A plain policy, one without attempts, one whose maximum is below its minimum.
MCPolicies ==
  {MCDefault, Policy4(1, 4, 4, FALSE), Policy4(2, 5, 3, TRUE), Policy4(1, 4, 0, FALSE),
   Policy4(3, 2, 2, FALSE), Policy4(1, 4, 1, TRUE)}

Local == [form |-> "unix:", at |-> "/tmp/ch.sock"]
Remote == [form |-> "host", at |-> "localhost"]
Typo == [form |-> "malformed", at |-> "a b"]

MCCalls ==
  [by : {"connect_with_retry"}, endpoint : {Local, Remote, Typo}, policy : MCPolicies]
  \cup [by : {"from_env"}, endpoint : {Remote, Typo}]
  \cup [by : {"for_domain"}, mode : {Unset, "standalone", "distributed"}]

Env(endpoint, mode, port) ==
  [v \in Variables |->
     CASE v = "ENDPOINT"        -> endpoint
       [] v = "ANGZARR_MODE"    -> mode
       [] v = "ANGZARR_CH_PORT" -> port
       [] OTHER                 -> Unset]

MCSettings ==
  {Env(endpoint, mode, port) :
     endpoint \in {Unset, Local, Typo}, mode \in {Unset, "standalone", "Distrib"},
     port \in {Unset, "1310", "not a port"}}
===============================================================================
